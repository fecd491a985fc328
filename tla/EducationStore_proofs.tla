------------------------ MODULE EducationStore_proofs ------------------------
(***************************************************************************)
(* The education run keeps what MemoryStore promises, although it is not   *)
(* one of its clients: StartRun takes up again the teaches of the last run *)
(* and ItemTaught ends one without a report.  Both leave the store alone,  *)
(* every other step of EduNext is a step of MemoryStore or none of its     *)
(* own (EduSteps), and so the invariants of the store carry over, with one *)
(* fact more: an item has no report (NoReceipt).                           *)
(***************************************************************************)
EXTENDS MemoryStore_proofs, Education_proofs

\* cmd_educate does not stamp the teach of an item with a report.
NoReceipt == \A t \in Item : asOf[t] = Null

SharedInv == IInv /\ ControlInv /\ NoReceipt

\* What the run does of its own to the teaches of its items.
OwnStep == StartRun \/ ItemTaught

\* A step under the run is one of the store's, or leaves the store alone.
LEMMA EduSteps ==
    ASSUME ControlInv, [EduNext]_eduVars, ~OwnStep
    PROVE  [Next]_vars
<1>1. stage = "teach" => Head(queue) \in Item /\ Item \subseteq Teacher
  BY LessonItems DEF ControlInv
<1>2. Visitor \subseteq Teacher
  BY TeachersAssumption
<1>3. CASE ResetMemory
  BY <1>3 DEF ResetMemory, Next
<1>4. CASE Stamp
  BY <1>4 DEF Stamp, Next
<1>5. CASE TeachItem
  <2>1. Teach(Head(queue)) /\ Head(queue) \in Teacher
    BY <1>1, <1>5 DEF TeachItem, Teach
  <2> QED
    BY <2>1 DEF Next
<1>6. CASE RunRaises
  <2>1. stage = "teach" => Teach(Head(queue)) /\ Head(queue) \in Teacher
    BY <1>1, <1>6 DEF RunRaises, Teach
  <2>2. stage # "teach" => UNCHANGED vars
    BY <1>6 DEF RunRaises
  <2> QED
    BY <2>1, <2>2 DEF Next
<1>7. CASE VisitorTeaches
  BY <1>2, <1>7 DEF VisitorTeaches, Next
<1>8. RecallEpoch \/ WriteAnswers \/ WriteAudit \/ WriteManifest \/ WriteCurve => UNCHANGED vars
  BY DEF RecallEpoch, WriteAnswers, WriteAudit, WriteManifest, WriteCurve
<1>9. UNCHANGED eduVars => UNCHANGED vars
  BY DEF eduVars
<1> QED
  BY <1>3, <1>4, <1>5, <1>6, <1>7, <1>8, <1>9 DEF OwnStep, EduNext, RunStep

\* A run that starts forgets what its items have made, and nothing else.
LEMMA StartKeepsStore == ASSUME IInv, StartRun PROVE IInv'
<1>1. /\ UNCHANGED <<rules, episodes, hlc, hist, asOf, rpc, wipedAt, zeroAt, wipes>>
      /\ pc' = [t \in Teacher |-> IF t \in Item THEN "distill" ELSE pc[t]]
      /\ todo' = [t \in Teacher |-> IF t \in Item THEN <<>> ELSE todo[t]]
      /\ ep' = [t \in Teacher |-> IF t \in Item THEN Null ELSE ep[t]]
      /\ seen' = [t \in Teacher |-> IF t \in Item THEN {} ELSE seen[t]]
      /\ made' = [t \in Teacher |-> IF t \in Item THEN {} ELSE made[t]]
  BY DEF StartRun, storeVars, resetVars
<1>2. TypeInv'
  BY <1>1 DEF IInv, TypeInv, TypeOK, Null
<1>3. StoreInv' /\ ZeroInv'
  BY <1>1 DEF IInv, StoreInv, ZeroInv, ZeroForgetsThePast
<1>4. LessonInv'
  <2>1. Null \notin episodes
    BY DEF IInv, TypeInv, TypeOK, Null
  <2> QED
    BY <1>1, <2>1 DEF IInv, LessonInv, NoLessonCrossesAReset
<1>5. ReceiptWhole'
  BY <1>1 DEF IInv, ReceiptWhole
<1> QED
  BY <1>2, <1>3, <1>4, <1>5 DEF IInv

\* An item that has been taught is done, without a report.
LEMMA TaughtKeepsStore ==
    ASSUME IInv, ControlInv, NoReceipt, ItemTaught PROVE IInv'
<1> DEFINE t == Head(queue)
<1>1. t \in Item /\ t \in Teacher
  BY LessonItems DEF ControlInv, ItemTaught
<1>2. /\ UNCHANGED <<rules, episodes, hlc, hist, todo, ep, seen, made, asOf, rpc, wipedAt, zeroAt, wipes>>
      /\ pc' = [pc EXCEPT ![t] = "done"]
  BY DEF ItemTaught, storeVars, resetVars
<1> HIDE DEF t
<1>3. pc \in [Teacher -> {"distill", "select", "commit", "done", "failed"}]
  BY DEF IInv, TypeInv, TypeOK
<1>4. TypeInv'
  BY <1>2, <1>3 DEF IInv, TypeInv, TypeOK
<1>5. StoreInv' /\ ZeroInv'
  BY <1>2 DEF IInv, StoreInv, ZeroInv, ZeroForgetsThePast
<1>6. LessonInv'
  BY <1>2, <1>3 DEF IInv, LessonInv, NoLessonCrossesAReset
<1>7. ReceiptWhole'
  <2>1. DOMAIN hist[Null] = {}
    <3>0. 0 \in 0 .. hlc
      <4>1. hlc \in Nat
        BY Zenon DEF IInv, TypeInv, TypeOK
      <4> QED
        BY <4>1
    <3>1. TableOK(hist[0], 0)
      BY <3>0, Zenon DEF IInv, StoreInv
    <3> QED
      BY <3>1 DEF TableOK, Null
  <2>2. asOf[t] = Null
    BY <1>1 DEF NoReceipt
  <2>3. ASSUME NEW u \in Teacher, u # t, pc'[u] = "done" PROVE pc[u] = "done"
    BY <1>2, <1>3, <2>3
  <2> QED
    BY <1>2, <2>1, <2>2, <2>3 DEF IInv, ReceiptWhole
<1> QED
  BY <1>4, <1>5, <1>6, <1>7 DEF IInv

\* No step stamps an item with a report.
LEMMA ItemsGetNoReceipt ==
    ASSUME IInv, ControlInv, NoReceipt, [EduNext]_eduVars PROVE NoReceipt'
<1>0. asOf \in [Teacher -> 0 .. hlc] /\ (stage = "teach" => Head(queue) \in Teacher)
  BY LessonItems DEF IInv, TypeInv, TypeOK, ControlInv
<1>1. ASSUME NEW u, RecordEpisode(u) \/ SelectLive(u) \/ CommitUpsert(u) \/ Raise(u)
      PROVE  asOf' = asOf
  BY <1>1 DEF RecordEpisode, SelectLive, CommitUpsert, EvidenceOnRecord, ReadIsCurrent, Raise
<1>2. CASE VisitorTeaches
  <2>1. PICK v \in Visitor : Teach(v)
    BY <1>2 DEF VisitorTeaches
  <2>2. v \notin Item
    BY TeachersAssumption
  <2>3. CASE Report(v)
    <3>1. \E n : asOf' = [asOf EXCEPT ![v] = n]
      BY <2>3 DEF Report
    <3> QED
      BY <1>0, <2>2, <3>1 DEF NoReceipt
  <2> QED
    BY <1>1, <2>1, <2>3 DEF Teach, NoReceipt
<1>3. StartRun \/ ItemTaught => asOf' = asOf
  BY DEF StartRun, ItemTaught
<1>4. TeachItem \/ RunRaises => asOf' = asOf
  BY <1>1 DEF TeachItem, RunRaises, vars, teachVars
<1>5. ResetMemory \/ Stamp => asOf' = asOf
  BY DEF ResetMemory, Stamp, WipeMemory, StampZero, vars, teachVars, ClusterNow
<1>6. RecallEpoch \/ WriteAnswers \/ WriteAudit \/ WriteManifest \/ WriteCurve => asOf' = asOf
  BY DEF RecallEpoch, WriteAnswers, WriteAudit, WriteManifest, WriteCurve, vars, teachVars
<1>7. UNCHANGED eduVars => asOf' = asOf
  BY DEF eduVars, vars, teachVars
<1>8. asOf' = asOf => NoReceipt'
  BY DEF NoReceipt
<1> QED
  BY <1>2, <1>3, <1>4, <1>5, <1>6, <1>7, <1>8 DEF EduNext, RunStep

\* The store's invariant holds whatever the run does.
LEMMA SharedCorrect == EduSpec => []SharedInv
<1>1. EduInit => SharedInv
  <2> SUFFICES ASSUME EduInit PROVE SharedInv
    OBVIOUS
  <2>1. IInv
    BY TypeInvInductive, StoreInvInductive, LessonInvInductive, ReceiptInductive,
       ZeroInvInductive DEF IInv, EduInit
  <2>2. NoReceipt
    BY LessonItems DEF EduInit, Init, NoReceipt
  <2> QED
    BY <2>1, <2>2, ControlInductive DEF SharedInv
<1>2. SharedInv /\ [EduNext]_eduVars => SharedInv'
  <2> SUFFICES ASSUME SharedInv, [EduNext]_eduVars PROVE SharedInv'
    OBVIOUS
  <2>1. IInv /\ ControlInv /\ NoReceipt /\ hlc \in Nat
    BY DEF SharedInv, IInv, TypeInv, TypeOK
  <2>2. ControlInv'
    BY <2>1, ControlInductive
  <2>3. NoReceipt'
    BY <2>1, ItemsGetNoReceipt
  <2>4. IInv'
    <3>1. CASE OwnStep
      BY <2>1, <3>1, StartKeepsStore, TaughtKeepsStore DEF OwnStep
    <3>2. CASE ~OwnStep
      <4>1. [Next]_vars
        BY <2>1, <3>2, EduSteps
      <4> QED
        BY <2>1, <4>1, TypeInvInductive, StoreInvInductive, LessonInvInductive,
           ReceiptInductive, ZeroInvInductive DEF IInv
    <3> QED
      BY <3>1, <3>2
  <2> QED
    BY <2>2, <2>3, <2>4 DEF SharedInv
<1> QED
  BY <1>1, <1>2, PTL DEF EduSpec

-----------------------------------------------------------------------------
(* What the store promises, under the run *)

\* However runs, their resets and visiting teaches interleave, a recall pinned
\* to any instant finds one live rule per key, superseded rows form one line,
\* rules stand and fall with their evidence, a receipt is whole, and
\* memory_zero shows nothing older than its reset.
THEOREM TheRunKeepsTheStoreInOrder ==
    EduSpec => [](/\ ExactlyOneLive /\ LinearSupersession
                  /\ NoLessonCrossesAReset /\ ReceiptWhole /\ ZeroForgetsThePast)
<1>1. SharedInv => /\ ExactlyOneLive /\ LinearSupersession
                   /\ NoLessonCrossesAReset /\ ReceiptWhole /\ ZeroForgetsThePast
  BY DEF SharedInv, IInv, TypeInv, TypeOK, StoreInv, TableOK, ExactlyOneLive,
         LinearSupersession, LessonInv, ZeroInv
<1> QED
  BY <1>1, SharedCorrect, PTL

\* A run, too, destroys no trail of what was believed but by reset_memory.
THEOREM TheRunKeepsTheTrail == EduSpec => AuditTrail
<1>1. SharedInv /\ [EduNext]_eduVars => [KeepsTrail]_vars
  <2> SUFFICES ASSUME SharedInv, [EduNext]_eduVars PROVE [KeepsTrail]_vars
    OBVIOUS
  <2>1. OwnStep => rules' = rules
    BY DEF OwnStep, StartRun, ItemTaught, storeVars
  <2>2. rules' = rules => KeepsTrail
    BY DEF KeepsTrail
  <2>3. ~OwnStep => [Next]_vars
    BY EduSteps DEF SharedInv
  <2> QED
    BY <2>1, <2>2, <2>3, StepsKeepTrail DEF SharedInv
<1> QED
  BY <1>1, SharedCorrect, PTL DEF EduSpec, AuditTrail

\* The education run, with all it shares the database with, implements the rule
\* book: whoever recalls from it cannot tell it from one writer.
THEOREM TheRunImplementsTheRuleBook == EduSpec => ImplementsRuleBook
<1>1. EduInit => Book!Init
  BY StoreStartsBlank DEF EduInit
<1>2. SharedInv /\ [EduNext]_eduVars => [Book!Next]_(Book!vars)
  <2> SUFFICES ASSUME SharedInv, [EduNext]_eduVars PROVE [Book!Next]_(Book!vars)
    OBVIOUS
  <2>1. OwnStep => UNCHANGED Book!vars
    BY DEF OwnStep, StartRun, ItemTaught, storeVars, Book!vars
  <2>2. ~OwnStep => [Next]_vars
    BY EduSteps DEF SharedInv
  <2> QED
    BY <2>1, <2>2, StepsTurnPages DEF SharedInv
<1> QED
  BY <1>1, <1>2, SharedCorrect, PTL DEF EduSpec, ImplementsRuleBook, Book!Spec
=============================================================================
