----------------------------- MODULE MemoryStore -----------------------------
(***************************************************************************)
(* The agent's brain: tables episodic_events and semantic_rules of         *)
(* sql/001_memory.sql, the transactions memory.py runs against them, and   *)
(* the two clients that string these transactions together: a teach        *)
(* (educate.teach_correction, then cli.cmd_teach's receipt) and a reset    *)
(* (cli.cmd_reset_memory, the head of educate.run_education).              *)
(*                                                                         *)
(* CockroachDB is external.  What memory.py relies on is modelled: commits *)
(* are totally ordered by their HLC timestamp, a SERIALIZABLE transaction  *)
(* commits only if what it read is still what it would read, a foreign key *)
(* is checked in the same transaction, and a read AS OF SYSTEM TIME ts     *)
(* sees exactly the commits up to ts.  The UUID a row draws is modelled by *)
(* the timestamp of the commit that inserts it: no transaction of          *)
(* memory.py inserts two rows, so both are unique.                         *)
(***************************************************************************)
EXTENDS Naturals, Sequences

CONSTANTS
    Key,          \* rule keys a distilled rule can carry
    Teacher,      \* invocations of teach_correction, possibly concurrent
    Lesson,       \* the key sequences distill can return for a correction
    MaxWipes      \* bound: resets of the memory in one behaviour

ASSUME LessonAssumption == Lesson \subseteq Seq(Key)
ASSUME MaxWipesAssumption == MaxWipes \in Nat

Null == 0         \* SQL NULL, and no timestamp: every commit is at 1 or later

VARIABLES
    rules,        \* semantic_rules: row id -> [key, sup, ev]
    episodes,     \* episodic_events: the ids on record
    hlc,          \* timestamp of the last commit
    hist,         \* hist[ts]: semantic_rules AS OF SYSTEM TIME ts
    pc,           \* pc[t]: where teach t stands
    todo,         \* todo[t]: keys of the candidates still to upsert
    ep,           \* ep[t]: the id record_episode returned
    seen,         \* seen[t]: ids of the live rows upsert_rule's SELECT matched
    made,         \* made[t]: rule ids committed, the "rules" of t's report
    asOf,         \* asOf[t]: "as_of" of t's report
    rpc,          \* where the reset stands
    wipedAt,      \* timestamp of the last reset_memory commit
    zeroAt,       \* "memory_zero_as_of", the stamp taken after it
    wipes         \* resets so far (bound only)

storeVars == <<rules, episodes, hlc, hist>>
teachVars == <<pc, todo, ep, seen, made, asOf>>
resetVars == <<rpc, wipedAt, zeroAt, wipes>>
vars == <<storeVars, teachVars, resetVars>>

-----------------------------------------------------------------------------
(* Tables *)

Row == [key : Key, sup : Nat, ev : Nat]

\* The table with no row.
Empty == [r \in {} |-> Null]

\* Mutation of LiveRows: the SELECT forgets `superseded_by IS NULL`.
LiveRowsAnyRow(tbl, k) == {r \in DOMAIN tbl : tbl[r].key = k}

\* Rows of tbl that `rule_key = k AND superseded_by IS NULL` matches.
LiveRows(tbl, k) == {r \in DOMAIN tbl : tbl[r].key = k /\ tbl[r].sup = Null}

\* Mutation of Supersede: UPDATE ... WHERE rule_key = k, not WHERE id = v.
SupersedeWholeKey(tbl, id, k, e, v) ==
    [r \in DOMAIN tbl \cup {id} |->
        IF r = id THEN [key |-> k, sup |-> Null, ev |-> e]
        ELSE IF v # Null /\ tbl[r].key = k THEN [tbl[r] EXCEPT !.sup = id]
        ELSE tbl[r]]

\* tbl after inserting row id for key k and pointing row v, if any, at it.
Supersede(tbl, id, k, e, v) ==
    [r \in DOMAIN tbl \cup {id} |->
        IF r = id THEN [key |-> k, sup |-> Null, ev |-> e]
        ELSE IF r = v THEN [tbl[r] EXCEPT !.sup = id]
        ELSE tbl[r]]

\* Commit at the next timestamp: the rules become tbl, the episodes eps.
Commit(tbl, eps) ==
    /\ rules' = tbl
    /\ episodes' = eps
    /\ hlc' = hlc + 1
    /\ hist' = [ts \in 0 .. hlc + 1 |-> IF ts = hlc + 1 THEN tbl ELSE hist[ts]]

\* Mutations of ClusterNow: a stamp ahead of the commits, or just behind them.
ClusterSoon == hlc + 1
ClusterJustNow == hlc - 1

\* cluster_now(): the timestamp a read-only transaction gets.
ClusterNow == hlc

\* Mutation of EvidenceOnRecord: the column is not a foreign key.
EvidenceUnchecked(t) == TRUE

\* evidence_episode_id REFERENCES episodic_events, checked at INSERT.
EvidenceOnRecord(t) == ep[t] \in episodes

\* Mutation of ReadIsCurrent: READ COMMITTED, the row read need only exist.
ReadStillExists(t) == seen[t] \subseteq DOMAIN rules

\* What SERIALIZABLE asks of a COMMIT: the SELECT would still answer the same.
ReadIsCurrent(t) == seen[t] = LiveRows(rules, Head(todo[t]))

-----------------------------------------------------------------------------
Init ==
    /\ rules = Empty
    /\ episodes = {}
    /\ hlc = 0
    /\ hist = [ts \in {0} |-> Empty]
    /\ pc = [t \in Teacher |-> "distill"]
    /\ todo = [t \in Teacher |-> <<>>]
    /\ ep = [t \in Teacher |-> Null]
    /\ seen = [t \in Teacher |-> {}]
    /\ made = [t \in Teacher |-> {}]
    /\ asOf = [t \in Teacher |-> Null]
    /\ rpc = "idle"
    /\ wipedAt = Null
    /\ zeroAt = Null
    /\ wipes = 0

\* distill(...) yields the candidates, record_episode commits the episode.
RecordEpisode(t) ==
    /\ pc[t] = "distill"
    /\ \E lesson \in Lesson : todo' = [todo EXCEPT ![t] = lesson]
    /\ Commit(rules, episodes \cup {hlc + 1})
    /\ ep' = [ep EXCEPT ![t] = hlc + 1]
    /\ pc' = [pc EXCEPT ![t] = "select"]
    /\ UNCHANGED <<seen, made, asOf, resetVars>>

\* upsert_rule of the next candidate opens its transaction and runs its SELECT.
SelectLive(t) ==
    /\ pc[t] = "select"
    /\ todo[t] # <<>>
    /\ seen' = [seen EXCEPT ![t] = LiveRows(rules, Head(todo[t]))]
    /\ pc' = [pc EXCEPT ![t] = "commit"]
    /\ UNCHANGED <<storeVars, todo, ep, made, asOf, resetVars>>

\* INSERT, UPDATE of one row the SELECT matched (fetchone), COMMIT.  The
\* foreign key needs the evidence episode on record, SERIALIZABLE needs the
\* SELECT's answer to be current; otherwise the only way on is Raise(t).
CommitUpsert(t) ==
    LET k == Head(todo[t])
    IN  /\ pc[t] = "commit"
        /\ EvidenceOnRecord(t)
        /\ ReadIsCurrent(t)
        /\ \E v \in IF seen[t] = {} THEN {Null} ELSE seen[t] :
               Commit(Supersede(rules, hlc + 1, k, ep[t], v), episodes)
        /\ made' = [made EXCEPT ![t] = @ \cup {hlc + 1}]
        /\ todo' = [todo EXCEPT ![t] = Tail(@)]
        /\ pc' = [pc EXCEPT ![t] = "select"]
        /\ UNCHANGED <<ep, seen, asOf, resetVars>>

\* Every candidate is in: cmd_teach stamps its report with cluster_now().
Report(t) ==
    /\ pc[t] = "select"
    /\ todo[t] = <<>>
    /\ asOf' = [asOf EXCEPT ![t] = ClusterNow]
    /\ pc' = [pc EXCEPT ![t] = "done"]
    /\ UNCHANGED <<storeVars, todo, ep, seen, made, resetVars>>

\* Any exception ends the teach where it stands (nothing in teach_correction
\* catches one): embedder down, 40001, foreign key, lost connection, kill.
\* What was committed stays; an open transaction leaves no trace.
Raise(t) ==
    /\ pc[t] \in {"distill", "select", "commit"}
    /\ pc' = [pc EXCEPT ![t] = "failed"]
    /\ UNCHANGED <<storeVars, todo, ep, seen, made, asOf, resetVars>>

\* reset_memory: both DELETEs in one transaction.  A reset may be killed before
\* its stamp, so the next one does not wait for it.
WipeMemory ==
    /\ wipes < MaxWipes
    /\ Commit(Empty, {})
    /\ wipedAt' = hlc + 1
    /\ wipes' = wipes + 1
    /\ rpc' = "wiped"
    /\ UNCHANGED <<teachVars, zeroAt>>

\* The stamp is a transaction of its own, on a connection of its own.
StampZero ==
    /\ rpc = "wiped"
    /\ zeroAt' = ClusterNow
    /\ rpc' = "stamped"
    /\ UNCHANGED <<storeVars, teachVars, wipedAt, wipes>>

Teach(t) == \/ RecordEpisode(t) \/ SelectLive(t) \/ CommitUpsert(t)
            \/ Report(t) \/ Raise(t)

Next == WipeMemory \/ StampZero \/ \E t \in Teacher : Teach(t)

Spec == Init /\ [][Next]_vars

-----------------------------------------------------------------------------
(* Invariants *)

TypeOK ==
    /\ hlc \in Nat
    /\ DOMAIN rules \subseteq 1 .. hlc
    /\ rules \in [DOMAIN rules -> Row]
    /\ episodes \subseteq 1 .. hlc
    /\ DOMAIN hist = 0 .. hlc
    /\ pc \in [Teacher -> {"distill", "select", "commit", "done", "failed"}]
    /\ todo \in [Teacher -> Seq(Key)]
    /\ ep \in [Teacher -> 0 .. hlc]
    /\ seen \in [Teacher -> SUBSET (1 .. hlc)]
    /\ made \in [Teacher -> SUBSET (1 .. hlc)]
    /\ asOf \in [Teacher -> 0 .. hlc]
    /\ rpc \in {"idle", "wiped", "stamped"}
    /\ wipedAt \in 0 .. hlc
    /\ zeroAt \in 0 .. hlc
    /\ wipes \in 0 .. MaxWipes

OneLive(tbl) ==
    \A r \in DOMAIN tbl : \E l \in DOMAIN tbl : LiveRows(tbl, tbl[r].key) = {l}

Chained(tbl) ==
    \A r \in DOMAIN tbl : tbl[r].sup # Null =>
        /\ tbl[r].sup \in DOMAIN tbl
        /\ tbl[r].sup > r
        /\ tbl[tbl[r].sup].key = tbl[r].key
        /\ \A q \in DOMAIN tbl : tbl[q].sup = tbl[r].sup => q = r

\* Whatever instant a recall is pinned to, a key that has any row there has
\* exactly one live row (upsert_rule's "One live rule per key").
ExactlyOneLive == \A ts \in DOMAIN hist : OneLive(hist[ts])

\* At every instant superseded_by links the rows of a key into one line: each
\* superseded row points to a later row of the same key, and no two rows to
\* the same one (the audit trail 001_memory.sql calls explicit supersession).
LinearSupersession == \A ts \in DOMAIN hist : Chained(hist[ts])

\* The report of a teach is all or nothing as of its own stamp: a recall
\* pinned there finds every rule the report lists, or a reset removed all.
ReceiptWhole ==
    \A t \in Teacher : pc[t] = "done" =>
        \/ made[t] \subseteq DOMAIN hist[asOf[t]]
        \/ made[t] \cap DOMAIN hist[asOf[t]] = {}

\* Rules and their evidence share one fate: as long as a teach's episode is on
\* record every rule it committed is in the table, and once a reset has
\* removed the episode none is, even if the reset ran in mid-teach.
NoLessonCrossesAReset ==
    \A t \in Teacher : IF ep[t] \in episodes
                       THEN made[t] \subseteq DOMAIN rules
                       ELSE made[t] \cap DOMAIN rules = {}

\* memory_zero_as_of shows nothing older than the reset it belongs to.
ZeroForgetsThePast ==
    rpc = "stamped" => \A r \in DOMAIN hist[zeroAt] : r > wipedAt

-----------------------------------------------------------------------------
(* Action properties and refinement *)

\* Unless the memory is wiped every row stays, keeps its key and its evidence,
\* and a superseded_by once set is not redirected.
KeepsTrail ==
    \/ rules' = Empty
    \/ \A r \in DOMAIN rules :
          /\ r \in DOMAIN rules'
          /\ rules'[r].key = rules[r].key
          /\ rules'[r].ev = rules[r].ev
          /\ rules[r].sup # Null => rules'[r].sup = rules[r].sup

\* No step of any client destroys the trail of what was believed before:
\* rules are superseded, never edited or deleted, except by reset_memory.
AuditTrail == [][KeepsTrail]_vars

\* The current rule of k in tbl: its one live row, Null if there is none or more.
Current(tbl, k) ==
    LET live == LiveRows(tbl, k)
    IN  IF \E r \in live : live = {r} THEN CHOOSE r \in live : TRUE ELSE Null

PageOf(tbl) == [k \in Key |-> Current(tbl, k)]

Book == INSTANCE RuleBook WITH
            now <- hlc,
            book <- PageOf(rules),
            past <- [ts \in 0 .. hlc |-> PageOf(hist[ts])]

\* Concurrent teaches and resets look like a book written one entry at a time,
\* whose old pages never change.
ImplementsRuleBook == Book!Spec
=============================================================================
