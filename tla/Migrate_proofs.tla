---------------------------- MODULE Migrate_proofs ----------------------------
(***************************************************************************)
(* Theorems about Migrate, for any set of rows and any number of           *)
(* migrations.  The invariant says what a migrate relies on at each of its *)
(* statements: that every vector has the column's width, that a column     *)
(* about to be widened is of the old width, and, while nothing has         *)
(* disturbed it, that what its earlier statements did is still so.         *)
(***************************************************************************)
EXTENDS Migrate, TLAPS

\* Every vector has the column's width.
WidthsAgree ==
    /\ column = "none" => ~index
    /\ \A r \in Rule : vector[r] \in (IF column = "none" THEN {"absent"} ELSE {"absent", "null", column})

\* Where migrate stands, and what it knows of the column there.
StandsWhere ==
    /\ pc \notin {"idle", "schema"} => column # "none"
    /\ pc \in {"drop", "clear", "alter"} => column = "old"
    /\ result = "ok" => column = "new"

\* What the statements so far have achieved if nothing disturbed them.
CleanSoFar ==
    clean =>
        /\ pc # "idle" => ~aborted
        /\ pc \in {"clear", "alter"} => ~index
        /\ pc = "alter" => \A r \in Rule : vector[r] # "old"
        /\ pc \in {"index", "after"} => column = "new"
        /\ pc = "index" => tryIndex
        /\ pc = "after" => (tryIndex => index)
        /\ pc = "idle" => result = "ok" /\ (tryIndex => index)

MigrateInv == TypeOK /\ WidthsAgree /\ StandsWhere /\ CleanSoFar

-----------------------------------------------------------------------------
\* Whatever schema a first migrate finds is well formed.
LEMMA MigrateInvInitially == Init => MigrateInv
<1> SUFFICES ASSUME Init PROVE MigrateInv
  OBVIOUS
<1>1. calls \in 0 .. MaxMigrations
  BY MaxMigrationsAssumption DEF Init
<1>2. TypeOK
  BY <1>1, Zenon DEF Init, TypeOK
<1>3. WidthsAgree /\ StandsWhere /\ CleanSoFar
  BY DEF Init, WidthsAgree, StandsWhere, CleanSoFar
<1> QED
  BY <1>2, <1>3 DEF MigrateInv

\* Every statement, failure and rival write keeps the invariant.
LEMMA MigrateInvInductive == MigrateInv /\ [Next]_vars => MigrateInv'
<1> SUFFICES ASSUME MigrateInv, [Next]_vars PROVE MigrateInv'
  OBVIOUS
<1> USE DEF MigrateInv, TypeOK, WidthsAgree, StandsWhere, CleanSoFar
<1>1. CASE WipeRules
  BY <1>1 DEF WipeRules
<1>2. ASSUME NEW r \in Rule, WriteRule(r) PROVE MigrateInv'
  BY <1>2 DEF WriteRule
<1>3. CASE Start
  <2>1. /\ pc = "idle" /\ pc' = "schema" /\ before' = "unknown" /\ result' = "none"
        /\ aborted' = FALSE /\ clean' = TRUE /\ tryIndex' \in BOOLEAN
        /\ UNCHANGED <<column, index, vector>>
    BY <1>3 DEF Start, cluster
  <2>2. calls' \in 0 .. MaxMigrations
    BY <1>3, MaxMigrationsAssumption DEF Start
  <2>3. TypeOK'
    BY <2>1, <2>2, Zenon
  <2>4. WidthsAgree' /\ StandsWhere'
    BY <2>1
  <2>5. CleanSoFar'
    BY <2>1
  <2> QED
    BY <2>3, <2>4, <2>5
<1>4. CASE ApplySchema
  BY <1>4 DEF ApplySchema, Local
<1>5. CASE ProbeBefore
  <2>1. /\ pc = "before" /\ UNCHANGED <<column, index, vector, tryIndex, result, calls>>
        /\ pc' = IF before' = "old" THEN "drop" ELSE IF tryIndex THEN "index" ELSE "after"
    BY <1>5 DEF ProbeBefore, Local, cluster, Widens
  <2>2. CASE before' = column /\ UNCHANGED <<aborted, clean>>
    BY <2>1, <2>2
  <2>3. CASE before' = "unknown" /\ aborted' = TRUE /\ clean' = FALSE
    BY <2>1, <2>3
  <2> QED
    BY <1>5, <2>2, <2>3 DEF ProbeBefore
<1>6. CASE DropIndex
  BY <1>6 DEF DropIndex, Local, IndexAfterDrop
<1>7. CASE DropFails
  BY <1>7 DEF DropFails, Skip, Local, cluster
<1>8. CASE ClearStale
  BY <1>8 DEF ClearStale, Local
<1>9. CASE ClearFails
  BY <1>9 DEF ClearFails, Skip, Local, cluster
<1>10. CASE Widen
  BY <1>10 DEF Widen, Local, AfterWiden
<1>11. CASE WidenFails
  BY <1>11 DEF WidenFails, Local, AfterWiden, cluster
<1>12. CASE CreateIndex
  BY <1>12 DEF CreateIndex, Local
<1>13. CASE CreateIndexFails
  BY <1>13 DEF CreateIndexFails, Skip, Local, cluster
<1>14. CASE Finish
  BY <1>14 DEF Finish, Verdict, cluster
<1>15. CASE Dies
  BY <1>15 DEF Dies, cluster
<1>16. CASE UNCHANGED vars
  BY <1>16 DEF vars, cluster
<1> QED
  BY <1>1, <1>2, <1>3, <1>4, <1>5, <1>6, <1>7, <1>8, <1>9, <1>10, <1>11, <1>12, <1>13,
     <1>14, <1>15, <1>16 DEF Next

\* So it holds throughout.
LEMMA MigrateInvariant == Spec => []MigrateInv
BY MigrateInvInitially, MigrateInvInductive, PTL DEF Spec

-----------------------------------------------------------------------------
\* The type invariant, for any rows and any number of migrations.
THEOREM TypeCorrect == Spec => []TypeOK
<1>1. MigrateInv => TypeOK
  BY DEF MigrateInv
<1> QED
  BY <1>1, MigrateInvariant, PTL

\* After a migrate that says ok the column is wide and stays so, and no vector
\* of the old width is left, whoever writes meanwhile.
THEOREM OkIsTrue == Spec => []OkMeansWide
<1>1. MigrateInv => OkMeansWide
  BY DEF MigrateInv, StandsWhere, WidthsAgree, OkMeansWide
<1> QED
  BY <1>1, MigrateInvariant, PTL

\* A migrate that nothing disturbs succeeds, whatever the ones before it left.
THEOREM MigrateCanBeRepeated == Spec => []UndisturbedSucceeds
<1>1. MigrateInv => UndisturbedSucceeds
  BY DEF MigrateInv, CleanSoFar, UndisturbedSucceeds
<1> QED
  BY <1>1, MigrateInvariant, PTL

\* No step but a reset takes away a vector of the new width.
THEOREM OnlyStaleVectorsAreCleared == Spec => FreshVectorsSurvive
<1>1. MigrateInv /\ [Next]_vars => [~WipeRules => \A r \in Rule : vector[r] = "new" => vector'[r] = "new"]_vars
  <2> SUFFICES ASSUME MigrateInv, Next, ~WipeRules, NEW r \in Rule, vector[r] = "new"
               PROVE  vector'[r] = "new"
    BY DEF vars
  <2>1. CASE ClearStale
    BY <2>1 DEF ClearStale, MigrateInv, StandsWhere, WidthsAgree
  <2>2. ASSUME NEW q \in Rule, WriteRule(q) PROVE vector'[r] = "new"
    BY <2>2 DEF WriteRule, MigrateInv, TypeOK
  <2>3. CASE UNCHANGED vector
    BY <2>3
  <2>4. ASSUME ~ClearStale, \A q \in Rule : ~WriteRule(q) PROVE UNCHANGED vector
    BY <2>4 DEF Next, Start, ApplySchema, ProbeBefore, DropIndex, DropFails, ClearFails, Widen,
                WidenFails, CreateIndex, CreateIndexFails, Finish, Dies, Skip, Local, cluster
  <2> QED
    BY <2>1, <2>2, <2>3, <2>4
<1> QED
  BY <1>1, MigrateInvariant, PTL DEF Spec, FreshVectorsSurvive
=============================================================================
