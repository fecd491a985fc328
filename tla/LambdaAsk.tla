------------------------------- MODULE LambdaAsk -------------------------------
(***************************************************************************)
(* lambda/demo_ask/handler.py: the function behind the demo page.  Its     *)
(* limits live in module globals (_hits, _day_key, _day_count), so every   *)
(* container that AWS Lambda starts has its own, and a new one starts      *)
(* empty.  AWS Lambda is external: a container runs one invocation at a    *)
(* time, and can be discarded between or, at the function timeout, within  *)
(* invocations.  Time passes between any two statements.                   *)
(***************************************************************************)
EXTENDS Naturals, Sequences, FiniteSets

CONSTANTS
    Container,
    Ip,
    RateMax,      \* RATE_MAX = 20
    Window,       \* RATE_WINDOW_S = 600
    DailyCap,     \* DAILY_CAP = 500
    DayLength,    \* a UTC day
    MaxNow,       \* bound: the end of time
    Pysqlite,     \* warehouse_db found pysqlite3 (build_zip.sh bundles it)
    MaxDiscards   \* bound: containers discarded

ASSUME LimitsAssumption == RateMax \in Nat \ {0} /\ Window \in Nat \ {0} /\ DailyCap \in Nat
ASSUME IpAssumption == Ip # {}
ASSUME ContainersAssumption == IsFiniteSet(Container)
ASSUME DayAssumption == DayLength \in Nat \ {0}
ASSUME BuildAssumption == Pysqlite \in BOOLEAN
ASSUME BoundsAssumption == MaxNow \in Nat /\ MaxDiscards \in Nat

VARIABLES
    now,          \* time.time()
    pc,           \* pc[c]: the statement container c runs next
    req,          \* req[c]: the request it handles, [ip, body]
    hits,         \* hits[c][ip]: _hits
    dayKey,       \* dayKey[c]: _day_key
    dayCount,     \* dayCount[c]: _day_count
    sent,         \* sent[c]: the last response
    admits,       \* admits[c][ip]: times _rate_ok said yes since the cold start
    counted,      \* counted[c][d]: times _daily_ok said yes on day d since then
    spent,        \* spent[c][d]: generations paid for on day d since then
    generated,    \* generated[d]: generations paid for on day d, all containers
    discards      \* containers discarded so far (bound only)

globals == <<hits, dayKey, dayCount>>
logs == <<admits, counted, spent, generated, discards>>
vars == <<now, pc, req, globals, sent, logs>>

Body == {"not_json", "not_object", "unknown_id", "bad_mode", "no_memory", "with_memory"}
Days == 0 .. (MaxNow \div DayLength)
Today == now \div DayLength
NoDay == MaxNow + 1            \* _day_key = ""

Response == [verdict : {"none", "error", "rejected", "correct", "wrong"},
             source : {"live", "recorded", "none"},
             why : {"none", "rate", "cap", "input", "dsn", "raised", "agent",
                    "guard", "sqlite", "graded"},
             sql : BOOLEAN]    \* it shows the SQL
NoRequest == [ip |-> CHOOSE i \in Ip : TRUE, body |-> "none"]
Nothing == [verdict |-> "none", source |-> "none", why |-> "none", sql |-> FALSE]

-----------------------------------------------------------------------------
Init ==
    /\ now = 0
    /\ pc = [c \in Container |-> "idle"]
    /\ req = [c \in Container |-> NoRequest]
    /\ hits = [c \in Container |-> [i \in Ip |-> <<>>]]
    /\ dayKey = [c \in Container |-> NoDay]
    /\ dayCount = [c \in Container |-> 0]
    /\ sent = [c \in Container |-> Nothing]
    /\ admits = [c \in Container |-> [i \in Ip |-> <<>>]]
    /\ counted = [c \in Container |-> [d \in Days |-> 0]]
    /\ spent = [c \in Container |-> [d \in Days |-> 0]]
    /\ generated = [d \in Days |-> 0]
    /\ discards = 0

Sends(c, verdict, source, why, sql) ==
    sent' = [sent EXCEPT ![c] = [verdict |-> verdict, source |-> source,
                                 why |-> why, sql |-> sql]]

Returns(c) ==
    /\ pc' = [pc EXCEPT ![c] = "idle"]
    /\ req' = [req EXCEPT ![c] = NoRequest]

\* A response with "sql": None.
Answer(c, verdict, source, why) == Sends(c, verdict, source, why, FALSE) /\ Returns(c)

\* AWS Lambda hands a free container a POST.
Invoke(c) ==
    /\ pc[c] = "idle"
    /\ \E i \in Ip, b \in Body : req' = [req EXCEPT ![c] = [ip |-> i, body |-> b]]
    /\ pc' = [pc EXCEPT ![c] = "rate"]
    /\ sent' = [sent EXCEPT ![c] = Nothing]
    /\ UNCHANGED <<now, globals, logs>>

\* OPTIONS and every method but POST are answered before any limit.
NotPost(c) ==
    /\ pc[c] = "idle"
    /\ \/ Answer(c, "none", "none", "none")
       \/ Answer(c, "error", "live", "input")
    /\ UNCHANGED <<now, globals, logs>>

\* [t for t in bucket if now - t < RATE_WINDOW_S]
Fresh(bucket) ==
    LET kept[n \in 0 .. Len(bucket)] ==
            IF n = 0 THEN <<>>
            ELSE IF now - bucket[n] < Window THEN Append(kept[n - 1], bucket[n])
            ELSE kept[n - 1]
    IN  kept[Len(bucket)]

\* Mutation of Admitted: the bucket is forgotten.
AdmittedAlone(bucket) == <<now>>

\* bucket.append(now)
Admitted(bucket) == Append(bucket, now)

\* Mutation of Exhausted: `_day_count > DAILY_CAP`.
ExhaustedLate(count) == count > DailyCap

\* _day_count >= DAILY_CAP
Exhausted(count) == count >= DailyCap

\* Mutation of CountToday: the count is not reset with the key.
CountEver(c) == dayCount[c]

\* _day_count, once a new day's key has reset it.
CountToday(c) == IF dayKey[c] # Today THEN 0 ELSE dayCount[c]

\* _rate_ok(ip), and the refusal when it says no.
RateOk(c) ==
    LET ip == req[c].ip
        bucket == Fresh(hits[c][ip])
    IN  /\ pc[c] = "rate"
        /\ IF Len(bucket) >= RateMax
           THEN /\ hits' = [hits EXCEPT ![c][ip] = bucket]
                /\ Answer(c, "error", "live", "rate")
                /\ UNCHANGED admits
           ELSE /\ hits' = [hits EXCEPT ![c][ip] = Admitted(bucket)]
                /\ admits' = [admits EXCEPT ![c][ip] = Append(@, now)]
                /\ pc' = [pc EXCEPT ![c] = "daily"]
                /\ UNCHANGED <<req, sent>>
        /\ UNCHANGED <<now, dayKey, dayCount, counted, spent, generated, discards>>

\* _daily_ok(), and the refusal when it says no.  The slot taken by _rate_ok
\* is not given back.
DailyOk(c) ==
    LET count == CountToday(c)
    IN  /\ pc[c] = "daily"
        /\ dayKey' = [dayKey EXCEPT ![c] = Today]
        /\ IF Exhausted(count)
           THEN /\ dayCount' = [dayCount EXCEPT ![c] = count]
                /\ Answer(c, "error", "recorded", "cap")
                /\ UNCHANGED counted
           ELSE /\ dayCount' = [dayCount EXCEPT ![c] = count + 1]
                /\ counted' = [counted EXCEPT ![c][Today] = @ + 1]
                /\ pc' = [pc EXCEPT ![c] = "parse"]
                /\ UNCHANGED <<req, sent>>
        /\ UNCHANGED <<now, hits, admits, spent, generated, discards>>

\* json.loads(body): a JSONDecodeError is answered; a body that is JSON but no
\* object has no .get, and the exception leaves the handler (HTTP 502).
ParseBody(c) ==
    /\ pc[c] = "parse"
    /\ CASE req[c].body = "not_json" -> Answer(c, "error", "live", "input")
         [] req[c].body = "not_object" -> Answer(c, "none", "none", "raised")
         [] OTHER -> pc' = [pc EXCEPT ![c] = "ask"] /\ UNCHANGED <<req, sent>>
    /\ UNCHANGED <<now, globals, logs>>

\* _ask before it answers: an unknown id and a bad mode are rejected; a recall
\* without a DSN asks the page for its recording.  (_load_exam may raise.)
AskRefuses(c) ==
    /\ pc[c] = "ask"
    /\ \/ Answer(c, "none", "none", "raised")
       \/ req[c].body \in {"unknown_id", "bad_mode"} /\ Answer(c, "rejected", "live", "input")
       \/ req[c].body = "with_memory" /\ Answer(c, "error", "recorded", "dsn")
    /\ UNCHANGED <<now, globals, logs>>

\* answer_with_receipt reaches the model: recall (if asked for), then Bedrock.
Generate(c) ==
    /\ pc[c] = "ask"
    /\ req[c].body \in {"no_memory", "with_memory"}
    /\ spent' = [spent EXCEPT ![c][Today] = @ + 1]
    /\ generated' = [generated EXCEPT ![Today] = @ + 1]
    /\ pc' = [pc EXCEPT ![c] = "grade"]
    /\ UNCHANGED <<now, req, globals, sent, admits, counted, discards>>

\* answer_with_receipt raises before it generates: recall, embedder, cluster.
AskFails(c) ==
    /\ pc[c] = "ask"
    /\ req[c].body \in {"no_memory", "with_memory"}
    /\ Answer(c, "error", "live", "agent")
    /\ UNCHANGED <<now, globals, logs>>

\* The guard refuses the text: its SQL is None.
GuardRefuses(c) ==
    /\ pc[c] = "grade"
    /\ Answer(c, "rejected", "live", "guard")
    /\ UNCHANGED <<now, globals, logs>>

\* SQLite fails.  answer_with_receipt catches sqlite3.Error and returns the
\* receipt; pysqlite3's Error is another class, which passes it by, and _ask
\* answers the exception without one.
QueryFails(c) ==
    /\ pc[c] = "grade"
    /\ Sends(c, "error", "live", "sqlite", ~Pysqlite)
    /\ Returns(c)
    /\ UNCHANGED <<now, globals, logs>>

Graded(c) ==
    /\ pc[c] = "grade"
    /\ \E v \in {"correct", "wrong"} : Sends(c, v, "live", "graded", TRUE)
    /\ Returns(c)
    /\ UNCHANGED <<now, globals, logs>>

\* execute_sql has no timeout: a query may never end, and the function timeout
\* then takes the container, with the limits it has counted.  (It is counted as
\* discarded here; a container killed or lost for any other reason is Discard.)
QueryHangs(c) ==
    /\ pc[c] = "grade"
    /\ discards < MaxDiscards
    /\ discards' = discards + 1
    /\ pc' = [pc EXCEPT ![c] = "hung"]
    /\ UNCHANGED <<now, req, globals, sent, admits, counted, spent, generated>>

\* The next invocation cold-starts a container whose module globals are empty.
ColdStart(c) ==
    /\ Sends(c, "none", "none", "none", FALSE)
    /\ Returns(c)
    /\ hits' = [hits EXCEPT ![c] = [i \in Ip |-> <<>>]]
    /\ dayKey' = [dayKey EXCEPT ![c] = NoDay]
    /\ dayCount' = [dayCount EXCEPT ![c] = 0]
    /\ admits' = [admits EXCEPT ![c] = [i \in Ip |-> <<>>]]
    /\ counted' = [counted EXCEPT ![c] = [d \in Days |-> 0]]
    /\ spent' = [spent EXCEPT ![c] = [d \in Days |-> 0]]
    /\ UNCHANGED <<now, generated>>

\* The container is discarded between invocations, or dies within one: the
\* function timeout ends whatever takes too long, recall and model included.
Discard(c) ==
    /\ pc[c] # "hung"
    /\ discards < MaxDiscards
    /\ discards' = discards + 1
    /\ ColdStart(c)

\* "timeout 25s" (lambda/demo_ask/README.md).
FunctionTimeout(c) ==
    /\ pc[c] = "hung"
    /\ ColdStart(c)
    /\ UNCHANGED discards

Tick ==
    /\ now < MaxNow
    /\ now' = now + 1
    /\ UNCHANGED <<pc, req, globals, sent, logs>>

Handle(c) == \/ RateOk(c) \/ DailyOk(c) \/ ParseBody(c) \/ AskRefuses(c)
             \/ Generate(c) \/ AskFails(c) \/ GuardRefuses(c) \/ QueryFails(c)
             \/ Graded(c) \/ QueryHangs(c) \/ FunctionTimeout(c)

Next == Tick \/ \E c \in Container : Invoke(c) \/ NotPost(c) \/ Handle(c) \/ Discard(c)

Spec == Init /\ [][Next]_vars

-----------------------------------------------------------------------------
TypeOK ==
    /\ now \in 0 .. MaxNow
    /\ pc \in [Container -> {"idle", "rate", "daily", "parse", "ask", "grade", "hung"}]
    /\ \A c \in Container : req[c].ip \in Ip /\ (req[c].body \in Body \/ req[c] = NoRequest)
    /\ \A c \in Container, i \in Ip : hits[c][i] \in Seq(0 .. now) /\ Len(hits[c][i]) <= RateMax
    /\ dayKey \in [Container -> Days \cup {NoDay}]
    /\ dayCount \in [Container -> 0 .. DailyCap]
    /\ sent \in [Container -> Response]

\* "20 requests / 10 min": however an address spaces its requests, a container
\* lets no RateMax + 1 of them through within one window, pruning and refusals
\* in between notwithstanding.
WindowHolds ==
    \A c \in Container, i \in Ip :
        \A n \in 1 .. Len(admits[c][i]) - RateMax :
            admits[c][i][n + RateMax] - admits[c][i][n] >= Window

\* No container pays for more generations on a day than the cap, plus the one
\* request that was let in just before midnight.
DailySpend ==
    \A c \in Container, d \in Days : spent[c][d] <= DailyCap + 1

\* What the daily cap amounts to: all containers together pay for no more
\* generations on a day than the cap and one for each that was ever started,
\* those discarded with their counts included.
SpendPerStart ==
    \A d \in Days : generated[d] <= (Cardinality(Container) + discards) * (DailyCap + 1)

Refuses(c, why) == pc[c] \in {"rate", "daily"} /\ pc'[c] = "idle" /\ sent'[c].why = why

\* A refusal is deserved: "rate limit" only for an address that was let through
\* RateMax times within the window (insisting does not prolong it), "cap" only
\* after DailyCap requests were let in today, however yesterday went.
RefusalsAreEarned ==
    [][\A c \in Container :
         /\ Refuses(c, "rate") =>
               Cardinality({n \in DOMAIN admits[c][req[c].ip] :
                              now - admits[c][req[c].ip][n] < Window}) >= RateMax
         /\ Refuses(c, "cap") => counted[c][Today] >= DailyCap]_vars

\* "SQLite is the execution grader; failures stay visible." (agent.py): a query
\* that fails is answered with the query.
FailuresStayVisible == \A c \in Container : sent[c].why = "sqlite" => sent[c].sql

\* "Global daily cap | 500 generations" (docs/CURSOR-LIVE-DEMO-SPEC.md).
GlobalCap == \A d \in Days : generated[d] <= DailyCap
=============================================================================
