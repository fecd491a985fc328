-------------------------------- MODULE Migrate --------------------------------
(***************************************************************************)
(* memory.migrate: bring semantic_rules.embedding to VECTOR(DIM) on a      *)
(* cluster in whatever state earlier versions, earlier migrations that     *)
(* died half way, or nothing at all have left it.  Every statement commits *)
(* on its own; most failures are noted and the function goes on.  Programs *)
(* of the old and of the new width write rules meanwhile.                  *)
(*                                                                         *)
(* CockroachDB is external: it refuses a vector of another width than the  *)
(* column's, and refuses to change the column's type while a vector index  *)
(* or a vector of the old width is there (migrate's docstring); it may     *)
(* refuse anything else for reasons of its own (tier, timeout, connection).*)
(***************************************************************************)
EXTENDS Naturals

CONSTANTS
    Rule,             \* rows of semantic_rules
    MaxMigrations     \* bound: calls of migrate in one behaviour

ASSUME MaxMigrationsAssumption == MaxMigrations \in Nat

VARIABLES
    column,           \* declared width of embedding: "none" (no table), "old", "new"
    index,            \* semantic_embedding_idx exists
    vector,           \* vector[r]: "absent" (no row), "null", or the width of its embedding
    pc,               \* the statement migrate runs next
    tryIndex,         \* try_vector_index
    before,           \* embedding_column_type() at the start
    aborted,          \* migrate's open transaction has failed
    result,           \* of the last migrate: "none", "ok", "blocking"
    clean,            \* nothing failed and nobody wrote since this migrate began
    calls             \* migrations so far (bound only)

cluster == <<column, index, vector>>
vars == <<cluster, pc, tryIndex, before, aborted, result, clean, calls>>

Init ==
    /\ column \in {"none", "old", "new"}
    /\ index \in (IF column = "none" THEN {FALSE} ELSE BOOLEAN)
    /\ vector \in [Rule -> IF column = "none" THEN {"absent"} ELSE {"absent", "null", column}]
    /\ pc = "idle"
    /\ tryIndex = FALSE
    /\ before = "unknown"
    /\ aborted = FALSE
    /\ result = "none"
    /\ clean = FALSE
    /\ calls = 0

-----------------------------------------------------------------------------
\* upsert_rule of a program whose embedder has the column's width.
WriteRule(r) ==
    /\ column # "none"
    /\ vector[r] = "absent"
    /\ vector' = [vector EXCEPT ![r] = column]
    /\ clean' = FALSE
    /\ UNCHANGED <<column, index, pc, tryIndex, before, aborted, result, calls>>

\* reset_memory of some client, as far as it matters here.
WipeRules ==
    /\ column # "none"
    /\ vector' = [r \in Rule |-> "absent"]
    /\ clean' = FALSE
    /\ UNCHANGED <<column, index, pc, tryIndex, before, aborted, result, calls>>

Start ==
    /\ pc = "idle"
    /\ calls < MaxMigrations
    /\ calls' = calls + 1
    /\ tryIndex' \in BOOLEAN
    /\ pc' = "schema"
    /\ before' = "unknown"
    /\ aborted' = FALSE
    /\ result' = "none"
    /\ clean' = TRUE
    /\ UNCHANGED cluster

Local(next) ==
    /\ pc' = next
    /\ UNCHANGED <<tryIndex, result, calls>>

\* CREATE TABLE IF NOT EXISTS ...: no effect on a table that exists.
ApplySchema ==
    /\ pc = "schema"
    /\ column' = IF column = "none" THEN "new" ELSE column
    /\ Local("before")
    /\ UNCHANGED <<index, vector, before, aborted, clean>>

\* Mutation of Widens: an unknown width counts as a wrong one.
WidensRash(width) == width # "new"

Widens(width) == width = "old"

\* before = embedding_column_type(conn).  A failed probe is swallowed there and
\* leaves the transaction failed; the widening is then skipped.
ProbeBefore ==
    /\ pc = "before"
    /\ \/ before' = column /\ UNCHANGED <<aborted, clean>>
       \/ before' = "unknown" /\ aborted' = TRUE /\ clean' = FALSE
    /\ Local(IF Widens(before') THEN "drop" ELSE IF tryIndex THEN "index" ELSE "after")
    /\ UNCHANGED cluster

\* The except branches: rollback, a note, and on to the next statement.
Skip(at, next) ==
    /\ pc = at
    /\ aborted' = FALSE
    /\ clean' = FALSE
    /\ Local(next)
    /\ UNCHANGED <<cluster, before>>

\* Mutation of IndexAfterDrop: IF EXISTS hides that the name is wrong.
IndexMissed == index

IndexAfterDrop == FALSE

\* DROP INDEX IF EXISTS semantic_embedding_idx
DropIndex ==
    /\ pc = "drop"
    /\ ~aborted
    /\ index' = IndexAfterDrop
    /\ Local("clear")
    /\ UNCHANGED <<column, vector, before, aborted, clean>>

DropFails == Skip("drop", "clear")

\* UPDATE ... SET embedding = NULL WHERE embedding IS NOT NULL
ClearStale ==
    /\ pc = "clear"
    /\ vector' = [r \in Rule |-> IF vector[r] \in {"old", "new"} THEN "null" ELSE vector[r]]
    /\ Local("alter")
    /\ UNCHANGED <<column, index, before, aborted, clean>>

ClearFails == Skip("clear", "alter")

AfterWiden == IF tryIndex THEN "index" ELSE "after"

\* ALTER COLUMN embedding SET DATA TYPE VECTOR(DIM)
Widen ==
    /\ pc = "alter"
    /\ ~index
    /\ \A r \in Rule : vector[r] # "old"
    /\ column' = "new"
    /\ Local(AfterWiden)
    /\ UNCHANGED <<index, vector, before, aborted, clean>>

\* The cluster refuses, of necessity if an index or an old vector is there.
WidenFails ==
    /\ pc = "alter"
    /\ aborted' = FALSE
    /\ clean' = (clean /\ (index \/ \E r \in Rule : vector[r] = "old"))
    /\ Local(AfterWiden)
    /\ UNCHANGED <<cluster, before>>

\* CREATE VECTOR INDEX IF NOT EXISTS
CreateIndex ==
    /\ pc = "index"
    /\ ~aborted
    /\ index' = TRUE
    /\ Local("after")
    /\ UNCHANGED <<column, vector, before, aborted, clean>>

CreateIndexFails == Skip("index", "after")

\* Mutation of Verdict: ok if the column has any width.
VerdictHopeful(after) == IF after = "unknown" THEN "blocking" ELSE "ok"

\* Mutation of Verdict: the probe's answer is returned for ok.
VerdictIsWidth(after) == after

Verdict(after) == IF after = "new" THEN "ok" ELSE "blocking"

\* after = embedding_column_type(conn); ok says what the column really is.
Finish ==
    /\ pc = "after"
    /\ \E after \in IF aborted THEN {"unknown"} ELSE {column, "unknown"} :
          /\ result' = Verdict(after)
          /\ clean' = (clean /\ after # "unknown")
    /\ pc' = "idle"
    /\ UNCHANGED <<cluster, tryIndex, before, aborted, calls>>

\* The process dies, or a statement outside a try raises.
Dies ==
    /\ pc # "idle"
    /\ pc' = "idle"
    /\ clean' = FALSE
    /\ UNCHANGED <<cluster, tryIndex, before, aborted, result, calls>>

Next ==
    \/ WipeRules \/ \E r \in Rule : WriteRule(r)
    \/ Start \/ ApplySchema \/ ProbeBefore
    \/ DropIndex \/ DropFails \/ ClearStale \/ ClearFails \/ Widen \/ WidenFails
    \/ CreateIndex \/ CreateIndexFails \/ Finish \/ Dies

Spec == Init /\ [][Next]_vars

-----------------------------------------------------------------------------
TypeOK ==
    /\ column \in {"none", "old", "new"}
    /\ index \in BOOLEAN /\ (index => column # "none")
    /\ vector \in [Rule -> {"absent", "null", "old", "new"}]
    /\ pc \in {"idle", "schema", "before", "drop", "clear", "alter", "index", "after"}
    /\ tryIndex \in BOOLEAN /\ aborted \in BOOLEAN /\ clean \in BOOLEAN
    /\ before \in {"unknown", "old", "new"}
    /\ result \in {"none", "ok", "blocking"}
    /\ calls \in 0 .. MaxMigrations

\* "ok reflects the column's real width afterwards": after a migrate that says
\* ok the column is wide, stays so, and no vector of the old width is left.
OkMeansWide == result = "ok" => column = "new" /\ \A r \in Rule : vector[r] # "old"

\* Migrate can be repeated: one that nothing disturbs succeeds, index included
\* if asked for, whatever an earlier one that failed or died left behind.
UndisturbedSucceeds ==
    pc = "idle" /\ clean => result = "ok" /\ (tryIndex => index)

\* Only stale vectors are cleared: no step of a migrate takes away a vector
\* that already has the new width.
FreshVectorsSurvive ==
    [][~WipeRules => \A r \in Rule : vector[r] = "new" => vector'[r] = "new"]_vars
=============================================================================
