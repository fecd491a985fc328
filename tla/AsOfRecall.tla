------------------------------ MODULE AsOfRecall ------------------------------
(***************************************************************************)
(* memory.recall_live(as_of) and recall_similar: wait until the cluster's  *)
(* clock is past the stamp by the closed-timestamp lag, then read AS OF    *)
(* SYSTEM TIME.  Time is counted in ticks; a poll's sleep of 0.25 s is one *)
(* tick.  The HLC that cluster_now() returns grows by Unit per tick,       *)
(* counted in quarters of the unit of its string: by 1 if the string       *)
(* counts seconds (tests/test_memory_aost.py), by 10^9 if it counts        *)
(* nanoseconds (cluster_logical_timestamp(), eval/runs-nova-micro).  So    *)
(* `+ lag_s` with lag_s=4.0 adds 16 to it in either case: the spans below  *)
(* are 16, 100 and 80 ticks in the code, and less where a run scales time. *)
(***************************************************************************)
EXTENDS Integers

CONSTANTS
    LagTicks,        \* lag_s=4.0
    TimeoutTicks,    \* timeout_s=25.0
    StatementTicks,  \* SET statement_timeout = '20s'
    Unit,         \* how far the HLC string advances per tick
    Ulp,          \* spacing of float64 at the size of an HLC string, as counted above
    Offsets,      \* as_of minus now, in ticks, of the stamps asked for
    StartAt,      \* bound: instants a recall may start at
    MaxNow        \* bound: the end of time

ASSUME SpansAssumption ==
    LagTicks \in Nat \ {0} /\ TimeoutTicks \in Nat \ {0} /\ StatementTicks \in Nat \ {0}
ASSUME UnitAssumption == Unit \in Nat \ {0}
ASSUME UlpAssumption == Ulp \in Nat \ {0}
ASSUME InstantsAssumption == StartAt \subseteq Nat /\ Offsets \subseteq Int

\* What `+ lag_s` adds to an HLC string.
LagS == LagTicks

VARIABLES
    now,          \* real time; time.monotonic() and the cluster clock both follow it
    stamp,        \* real time the as_of stands for
    pc,           \* where the recall stands
    wake,         \* when the current sleep or statement timeout is over
    deadline,     \* when the wait gives up
    closed        \* the wait returned because its target was reached

vars == <<now, stamp, pc, wake, deadline, closed>>

\* cluster_now() at real time t.
ClusterClock(t) == t * Unit

\* _hlc_seconds: the string as a float64.
HlcSeconds(x) == ((x + (Ulp \div 2)) \div Ulp) * Ulp

\* Mutation of Target: the stamp's sign is lost in parsing.
TargetNegated == HlcSeconds(LagS - HlcSeconds(ClusterClock(stamp)))

\* target = _hlc_seconds(ts) + lag_s
Target == HlcSeconds(HlcSeconds(ClusterClock(stamp)) + LagS)

Init ==
    /\ now \in StartAt
    /\ stamp = 0
    /\ pc = "idle"
    /\ wake = 0
    /\ deadline = 0
    /\ closed = FALSE

\* Mutation of Deadline: on the wrong side of now.
DeadlinePast == now - TimeoutTicks

\* deadline = time.monotonic() + timeout_s
Deadline == now + TimeoutTicks

\* Mutation of TimeIsUp: the loop has no deadline.
NoDeadline == FALSE

TimeIsUp == now >= deadline

\* A stamp just taken, one taken earlier (the handler's _as_of_now, an epoch
\* of education) or one a user made up (--as-of).
Recall ==
    /\ pc = "idle"
    /\ now \in StartAt
    /\ \E d \in Offsets : stamp' = now + d
    /\ deadline' = Deadline
    /\ pc' = "poll"
    /\ UNCHANGED <<now, wake, closed>>

\* if _hlc_seconds(cluster_now()) >= target: return
PollReached ==
    /\ pc = "poll"
    /\ ~TimeIsUp
    /\ HlcSeconds(ClusterClock(now)) >= Target
    /\ closed' = TRUE
    /\ pc' = "begin"
    /\ UNCHANGED <<now, stamp, wake, deadline>>

\* time.sleep(0.25)
PollSleeps ==
    /\ pc = "poll"
    /\ ~TimeIsUp
    /\ HlcSeconds(ClusterClock(now)) < Target
    /\ wake' = now + 1
    /\ pc' = "sleep"
    /\ UNCHANGED <<now, stamp, deadline, closed>>

Wakes ==
    /\ pc = "sleep"
    /\ now >= wake
    /\ pc' = "poll"
    /\ wake' = 0
    /\ UNCHANGED <<now, stamp, deadline, closed>>

\* The loop ends at the deadline and the recall goes on as if all were well.
GivesUp ==
    /\ pc = "poll"
    /\ TimeIsUp
    /\ closed' = FALSE
    /\ pc' = "begin"
    /\ UNCHANGED <<now, stamp, wake, deadline>>

\* BEGIN AS OF SYSTEM TIME: the cluster refuses a stamp in its future.
Begin ==
    /\ pc = "begin"
    /\ pc' = IF stamp > now THEN "raised" ELSE "select"
    /\ wake' = now + StatementTicks
    /\ UNCHANGED <<now, stamp, deadline, closed>>

\* The SELECT is answered, then ROLLBACK.
Served ==
    /\ pc = "select"
    /\ now < wake
    /\ pc' = "served"
    /\ UNCHANGED <<now, stamp, wake, deadline, closed>>

\* The statement timeout cancels the SELECT; or the connection breaks.
Cancelled ==
    /\ pc \in {"poll", "begin", "select"}
    /\ pc' = "raised"
    /\ UNCHANGED <<now, stamp, wake, deadline, closed>>

Tick ==
    /\ now < MaxNow
    /\ now' = now + 1
    /\ UNCHANGED <<stamp, pc, wake, deadline, closed>>

RecallStep == PollReached \/ PollSleeps \/ Wakes \/ GivesUp \/ Begin \/ Served

Next == Recall \/ RecallStep \/ Cancelled \/ Tick

\* Time passes and the statements of a recall are run; an exception may come
\* or not, but a SELECT past its timeout is cancelled.
Spec == /\ Init /\ [][Next]_vars
        /\ WF_vars(Tick) /\ WF_vars(RecallStep)
        /\ WF_vars(pc = "select" /\ now >= wake /\ Cancelled)

-----------------------------------------------------------------------------
TypeOK ==
    /\ now \in Nat /\ stamp \in Int
    /\ pc \in {"idle", "poll", "sleep", "begin", "select", "served", "raised"}
    /\ wake \in Nat /\ deadline \in Nat
    /\ closed \in BOOLEAN

\* If the wait says the stamp is closed, the cluster's clock is not behind it
\* by more than float64 rounds away.
NotBeforeTheStamp ==
    pc = "begin" /\ closed => ClusterClock(now) + Ulp >= ClusterClock(stamp)

\* "AOST to 'now' blocks until the closed timestamp advances. Wait first.": a
\* recall that begins because the wait says so begins lag_s=4.0 seconds after
\* the stamp.
WaitedOut == pc = "begin" /\ closed => now >= stamp + LagTicks

\* A recall ends, whatever stamp it is given.
RecallEnds == (pc = "poll") ~> (pc \in {"served", "raised"})
=============================================================================
