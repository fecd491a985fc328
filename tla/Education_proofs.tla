--------------------------- MODULE Education_proofs ---------------------------
(***************************************************************************)
(* Proofs about Education for every curriculum, any number of visitors,    *)
(* policies and runs.  First what the steps of the store do to the live    *)
(* keys and to history, then the control of the run, then its epochs, then *)
(* its files.                                                              *)
(***************************************************************************)
EXTENDS Education, SequenceTheorems, FiniteSetTheorems, TLAPS

-----------------------------------------------------------------------------
(* The store under the run *)

\* What the run relies on: the current table is the last page of history.
PageInv ==
    /\ hlc \in Nat
    /\ DOMAIN rules \subseteq 1 .. hlc
    /\ hist[hlc] = rules
    /\ pc \in [Teacher -> {"distill", "select", "commit", "done", "failed"}]
    /\ todo \in [Teacher -> Seq(Key)]
    /\ \A t \in Teacher : pc[t] = "commit" => todo[t] # <<>>

\* A step leaves the pages of history it finds.
KeepsPages ==
    /\ hlc' \in Nat /\ hlc <= hlc'
    /\ \A ts \in 0 .. hlc : hist'[ts] = hist[ts]

\* A step forgets no rule.
KeepsLive == LiveKeys(rules) \subseteq LiveKeys(rules')

\* A commit adds one page and leaves the others.
LEMMA CommitAddsPage ==
    ASSUME hlc \in Nat, NEW tbl, NEW eps, Commit(tbl, eps)
    PROVE  KeepsPages /\ hlc' = hlc + 1 /\ rules' = tbl /\ hist'[hlc'] = tbl
BY DEF Commit, KeepsPages

\* An upsert makes its key live and takes no other key's live row away.
LEMMA UpsertAddsKey ==
    ASSUME hlc \in Nat, NEW tbl, DOMAIN tbl \subseteq 1 .. hlc, NEW k \in Key, NEW e,
           NEW v \in IF LiveRows(tbl, k) = {} THEN {Null} ELSE LiveRows(tbl, k)
    PROVE  /\ DOMAIN Supersede(tbl, hlc + 1, k, e, v) \subseteq 1 .. hlc + 1
           /\ k \in LiveKeys(Supersede(tbl, hlc + 1, k, e, v))
           /\ LiveKeys(tbl) \subseteq LiveKeys(Supersede(tbl, hlc + 1, k, e, v))
<1> DEFINE new == Supersede(tbl, hlc + 1, k, e, v)
<1>1. DOMAIN new = DOMAIN tbl \cup {hlc + 1}
  BY DEF Supersede
<1>2. new[hlc + 1] = [key |-> k, sup |-> Null, ev |-> e]
  BY DEF Supersede
<1>3. \A r \in DOMAIN tbl : r # v => new[r] = tbl[r]
  BY DEF Supersede
<1>4. v \in DOMAIN tbl => tbl[v].key = k
  BY DEF LiveRows, Null
<1> HIDE DEF new
<1>5. hlc + 1 \in LiveRows(new, k)
  BY <1>1, <1>2 DEF LiveRows
<1>6. ASSUME NEW j \in LiveKeys(tbl), j # k
      PROVE  j \in LiveKeys(new)
  <2>1. PICK r \in DOMAIN tbl : tbl[r].key = j /\ tbl[r].sup = Null
    BY <1>6 DEF LiveKeys, LiveRows
  <2>2. new[r] = tbl[r]
    BY <1>3, <1>4, <1>6, <2>1
  <2> QED
    BY <1>1, <1>6, <2>1, <2>2 DEF LiveKeys, LiveRows
<1>7. k \in LiveKeys(new)
  BY <1>5 DEF LiveKeys
<1> QED
  BY <1>1, <1>6, <1>7 DEF new

\* What a step of teach t does to the store, to itself and to the others.
LEMMA TeachStep ==
    ASSUME PageInv, NEW t \in Teacher, Teach(t)
    PROVE  /\ PageInv' /\ KeepsPages /\ KeepsLive
           /\ \A u \in Teacher \ {t} : pc'[u] = pc[u] /\ todo'[u] = todo[u]
<1> USE DEF PageInv
<1>1. CASE RecordEpisode(t)
  <2>1. Commit(rules, episodes \cup {hlc + 1})
    BY <1>1 DEF RecordEpisode
  <2>2. PICK lesson \in Lesson : todo' = [todo EXCEPT ![t] = lesson]
    BY <1>1 DEF RecordEpisode
  <2>3. lesson \in Seq(Key) /\ pc' = [pc EXCEPT ![t] = "select"]
    BY <1>1, LessonAssumption DEF RecordEpisode
  <2> QED
    BY <2>1, <2>2, <2>3, CommitAddsPage DEF KeepsLive
<1>2. CASE SelectLive(t)
  <2>1. UNCHANGED <<rules, hlc, hist, todo>> /\ todo[t] # <<>>
    BY <1>2 DEF SelectLive, storeVars
  <2>2. pc' = [pc EXCEPT ![t] = "commit"]
    BY <1>2 DEF SelectLive
  <2> QED
    BY <2>1, <2>2 DEF KeepsLive, KeepsPages
<1>3. CASE CommitUpsert(t)
  <2> DEFINE k == Head(todo[t])
  <2>1. PICK v \in IF seen[t] = {} THEN {Null} ELSE seen[t] :
               Commit(Supersede(rules, hlc + 1, k, ep[t], v), episodes)
    BY <1>3 DEF CommitUpsert
  <2>2. seen[t] = LiveRows(rules, k)
    BY <1>3 DEF CommitUpsert, ReadIsCurrent
  <2>3. todo[t] \in Seq(Key) /\ todo[t] # <<>>
    BY <1>3 DEF CommitUpsert
  <2>4. k \in Key /\ Tail(todo[t]) \in Seq(Key)
    BY <2>3, HeadTailProperties
  <2> HIDE DEF k
  <2>5. /\ DOMAIN rules' \subseteq 1 .. hlc' /\ hist'[hlc'] = rules'
        /\ KeepsPages /\ KeepsLive
    <3> DEFINE new == Supersede(rules, hlc + 1, k, ep[t], v)
    <3>1. v \in IF LiveRows(rules, k) = {} THEN {Null} ELSE LiveRows(rules, k)
      BY <2>1, <2>2
    <3>2. DOMAIN new \subseteq 1 .. hlc + 1 /\ LiveKeys(rules) \subseteq LiveKeys(new)
      BY <2>4, <3>1, UpsertAddsKey
    <3>3. Commit(new, episodes)
      BY <2>1
    <3> HIDE DEF new
    <3>4. KeepsPages /\ hlc' = hlc + 1 /\ rules' = new /\ hist'[hlc'] = new
      BY <3>3, CommitAddsPage
    <3> QED
      BY <3>2, <3>4 DEF KeepsLive
  <2>6. /\ todo' = [todo EXCEPT ![t] = Tail(@)]
        /\ pc' = [pc EXCEPT ![t] = "select"]
    BY <1>3 DEF CommitUpsert
  <2>7. todo' \in [Teacher -> Seq(Key)] /\ pc' \in [Teacher -> {"distill", "select", "commit", "done", "failed"}]
    BY <2>4, <2>6
  <2>8. \A u \in Teacher \ {t} : pc'[u] = pc[u] /\ todo'[u] = todo[u]
    BY <2>6
  <2>9. pc'[t] = "select"
    BY <2>6
  <2>10. hlc' \in Nat
    BY <2>5 DEF KeepsPages
  <2> QED
    BY <2>5, <2>7, <2>8, <2>9, <2>10
<1>4. CASE Report(t) \/ Raise(t)
  <2>1. UNCHANGED <<rules, hlc, hist, todo>>
    BY <1>4 DEF Report, Raise, storeVars
  <2>2. PICK end \in {"done", "failed"} : pc' = [pc EXCEPT ![t] = end]
    BY <1>4 DEF Report, Raise
  <2> QED
    BY <2>1, <2>2 DEF KeepsLive, KeepsPages
<1> QED
  BY <1>1, <1>2, <1>3, <1>4 DEF Teach

-----------------------------------------------------------------------------
(* The control of the run *)

Learning == {"reset", "stamp", "recall", "teach"}
Writing == {"answers", "audit", "manifest", "curve", "done"}

\* Where the run stands decides how many epochs there are.
ControlInv ==
    /\ run \in 0 .. MaxRuns
    /\ stage \in Learning \cup Writing \cup {"idle", "failed"}
    /\ queue \in Seq(Item) /\ (stage = "teach" => queue # <<>>)
    /\ stampAt \in Nat
    /\ epochs \in Seq([asOf : Nat, live : SUBSET Key, taught : SUBSET Key])
    /\ Len(epochs) <= Len(Curriculum) + 1
    /\ stage \in Learning => Len(epochs) <= Len(Curriculum) /\ pol = 1 /\ epo = 1
    /\ stage = "reset" => epochs = <<>>
    /\ stage = "teach" => epochs # <<>>
    /\ stage \in Writing => Len(epochs) = Len(Curriculum) + 1
    /\ pol \in PolicyIndex /\ epo \in EpochIndex
    /\ stage = "manifest" => epo = 1
    /\ stage \in {"curve", "done"} => pol = Len(Policies)

\* The items of a lesson are items, and an item is one of the teachers.
LEMMA LessonItems ==
    /\ Item \subseteq Teacher
    /\ \A i \in 1 .. Len(Curriculum) : Curriculum[i] \in Seq(Item) /\ Curriculum[i] # <<>>
    /\ Len(Curriculum) \in Nat /\ Len(Policies) \in Nat \ {0}
<1>1. Len(Curriculum) \in Nat /\ DOMAIN Curriculum = 1 .. Len(Curriculum)
  BY CurriculumAssumption, LenProperties
<1>2. ASSUME NEW i \in 1 .. Len(Curriculum)
      PROVE  Curriculum[i] \in Seq(Item) /\ Curriculum[i] # <<>>
  <2>1. Curriculum[i] \in Seq(Teacher) /\ Curriculum[i] # <<>>
    BY <1>1, CurriculumAssumption, ElementOfSeq
  <2>2. DOMAIN Curriculum[i] = 1 .. Len(Curriculum[i]) /\ Len(Curriculum[i]) \in Nat
    BY <2>1, LenProperties
  <2>3. \A j \in 1 .. Len(Curriculum[i]) : Curriculum[i][j] \in Item
    BY <1>1, <2>2 DEF Item
  <2> QED
    BY <2>1, <2>2, <2>3
<1>3. Len(Policies) \in Nat \ {0}
  BY PoliciesAssumption, EmptySeq
<1> QED
  BY <1>1, <1>2, <1>3, TeachersAssumption

\* What a lesson teaches are keys.
LEMMA TaughtKeys ==
    ASSUME NEW i \in 1 .. Len(Curriculum) PROVE TaughtBy(i) \subseteq Key
<1>1. Curriculum[i] \in Seq(Item)
  BY LessonItems
<1>2. \A j \in DOMAIN Curriculum[i] : Curriculum[i][j] \in Item
  BY <1>1
<1>3. \A t \in Item : ItemLesson[t] \in Seq(Key)
  BY ItemLessonAssumption, LessonAssumption
<1>4. \A t \in Item : \A j \in DOMAIN ItemLesson[t] : ItemLesson[t][j] \in Key
  BY <1>3
<1> QED
  BY <1>2, <1>4 DEF TaughtBy

\* What a recall returns are live keys.
LEMMA RecallKeys ==
    ASSUME NEW tbl, NEW n, NEW s \in Recall(tbl, n)
    PROVE  s \subseteq LiveKeys(tbl) /\ LiveKeys(tbl) \subseteq Key
BY DEF Recall, LiveKeys

\* The run's statements follow each other as ControlInv says.
LEMMA ControlInductive ==
    /\ EduInit => ControlInv
    /\ ControlInv /\ hlc \in Nat /\ [EduNext]_eduVars => ControlInv'
<1> USE LessonItems DEF PolicyIndex, EpochIndex, Learning, Writing
<1>1. EduInit => ControlInv
  BY MaxRunsAssumption DEF EduInit, ControlInv, Null
<1>2. ControlInv /\ hlc \in Nat /\ [EduNext]_eduVars => ControlInv'
  <2> SUFFICES ASSUME ControlInv, hlc \in Nat, [EduNext]_eduVars PROVE ControlInv'
    OBVIOUS
  <2>1. CASE StartRun
    <3>1. run' \in 0 .. MaxRuns
      BY <2>1, MaxRunsAssumption DEF StartRun, ControlInv
    <3> QED
      BY <2>1, <3>1 DEF StartRun, ControlInv
  <2>2. CASE ResetMemory
    BY <2>2 DEF ResetMemory, ControlInv
  <2>3. CASE Stamp
    BY <2>3 DEF Stamp, ControlInv
  <2>4. CASE RecallEpoch
    <3>1. PICK live \in Recall(EpochTable, RecallLimit) :
             epochs' = Append(epochs, [asOf |-> stampAt, live |-> live,
                        taught |-> IF epochs = <<>> THEN {} ELSE TaughtBy(Len(epochs))])
      BY <2>4 DEF RecallEpoch
    <3>2. live \in SUBSET Key
      BY RecallKeys
    <3>3. (IF epochs = <<>> THEN {} ELSE TaughtBy(Len(epochs))) \in SUBSET Key
      <4>1. epochs # <<>> => Len(epochs) \in 1 .. Len(Curriculum)
        BY <2>4, EmptySeq DEF ControlInv, RecallEpoch
      <4> QED
        BY <4>1, TaughtKeys
    <3>4. /\ epochs' \in Seq([asOf : Nat, live : SUBSET Key, taught : SUBSET Key])
          /\ Len(epochs') = Len(epochs) + 1 /\ epochs' # <<>>
      BY <3>1, <3>2, <3>3 DEF ControlInv
    <3>5. /\ UNCHANGED <<run, stampAt, pol, epo>>
          /\ stage = "recall"
          /\ IF Len(epochs) < Len(Curriculum)
             THEN stage' = "teach" /\ queue' = Curriculum[Len(epochs) + 1]
             ELSE stage' = "answers" /\ queue' = <<>>
      BY <2>4 DEF RecallEpoch
    <3>6. Len(epochs) \in Nat /\ Len(epochs) <= Len(Curriculum)
      BY <3>5 DEF ControlInv
    <3>7. queue' \in Seq(Item) /\ (stage' = "teach" => queue' # <<>>)
      <4>1. CASE Len(epochs) < Len(Curriculum)
        <5>1. Len(epochs) + 1 \in 1 .. Len(Curriculum)
          BY <3>6, <4>1
        <5> QED
          BY <3>5, <4>1, <5>1
      <4>2. CASE ~(Len(epochs) < Len(Curriculum))
        BY <3>5, <4>2, EmptySeq
      <4> QED
        BY <4>1, <4>2
    <3> QED
      BY <3>4, <3>5, <3>6, <3>7 DEF ControlInv
  <2>5. CASE TeachItem \/ VisitorTeaches
    BY <2>5 DEF TeachItem, VisitorTeaches, runVars, ControlInv
  <2>6. CASE ItemTaught
    <3>1. Tail(queue) \in Seq(Item)
      BY <2>6, HeadTailProperties DEF ItemTaught, ControlInv
    <3> QED
      BY <2>6, <3>1 DEF ItemTaught, Rest, AfterItem, ControlInv
  <2>7. CASE WriteAnswers
    BY <2>7 DEF WriteAnswers, ControlInv
  <2>8. CASE WriteAudit
    BY <2>8 DEF WriteAudit, MoreEpochs, ControlInv
  <2>9. CASE WriteManifest
    BY <2>9 DEF WriteManifest, ControlInv
  <2>10. CASE WriteCurve
    BY <2>10 DEF WriteCurve, ControlInv
  <2>11. CASE RunRaises
    BY <2>11 DEF RunRaises, ControlInv
  <2>12. CASE UNCHANGED eduVars
    BY <2>12 DEF eduVars, runVars, ControlInv
  <2> QED
    BY <2>1, <2>2, <2>3, <2>4, <2>5, <2>6, <2>7, <2>8, <2>9, <2>10, <2>11, <2>12
       DEF EduNext, RunStep
<1> QED
  BY <1>1, <1>2

\* What a step of the whole system does to the store: only ResetMemory forgets.
LEMMA StoreStep ==
    ASSUME PageInv, ControlInv, [EduNext]_eduVars
    PROVE  PageInv' /\ KeepsPages /\ (KeepsLive \/ ResetMemory)
<1>1. CASE StartRun
  <2>1. UNCHANGED <<rules, hlc, hist>>
    BY <1>1 DEF StartRun, storeVars
  <2>2. /\ pc' = [t \in Teacher |-> IF t \in Item THEN "distill" ELSE pc[t]]
        /\ todo' = [t \in Teacher |-> IF t \in Item THEN <<>> ELSE todo[t]]
    BY <1>1 DEF StartRun
  <2> QED
    BY <2>1, <2>2 DEF PageInv, KeepsPages, KeepsLive
<1>2. CASE ResetMemory
  <2>1. Commit(Empty, {}) /\ UNCHANGED <<pc, todo>>
    BY <1>2 DEF ResetMemory, WipeMemory, teachVars
  <2>2. DOMAIN Empty = {}
    BY DEF Empty
  <2> QED
    BY <1>2, <2>1, <2>2, CommitAddsPage DEF PageInv, KeepsPages
<1>3. ASSUME NEW t \in Teacher, Teach(t)
      PROVE  PageInv' /\ KeepsPages /\ KeepsLive
  BY <1>3, TeachStep
<1>4. stage = "teach" => Head(queue) \in Teacher
  BY HeadTailProperties, LessonItems DEF ControlInv
<1>5. CASE TeachItem
  BY <1>3, <1>4, <1>5 DEF TeachItem, Teach
<1>6. CASE VisitorTeaches
  BY <1>3, <1>6, TeachersAssumption DEF VisitorTeaches
<1>7. CASE RunRaises /\ stage = "teach"
  BY <1>3, <1>4, <1>7 DEF RunRaises, Teach
<1>8. CASE ItemTaught
  <2>1. /\ UNCHANGED <<rules, hlc, hist, todo>>
        /\ pc' = [pc EXCEPT ![Head(queue)] = "done"]
    BY <1>8 DEF ItemTaught, storeVars
  <2>2. KeepsPages /\ KeepsLive
    BY <2>1 DEF PageInv, KeepsPages, KeepsLive
  <2>3. pc' \in [Teacher -> {"distill", "select", "commit", "done", "failed"}]
    BY <2>1 DEF PageInv
  <2>4. \A t \in Teacher : pc'[t] = "commit" => pc[t] = "commit"
    BY <2>1 DEF PageInv
  <2> QED
    BY <2>1, <2>2, <2>3, <2>4 DEF PageInv
<1>9. ASSUME UNCHANGED <<rules, hlc, hist, pc, todo>>
      PROVE  PageInv' /\ KeepsPages /\ KeepsLive
  BY <1>9 DEF PageInv, KeepsPages, KeepsLive
<1>10. CASE Stamp
  BY <1>9, <1>10 DEF Stamp, StampZero, vars, storeVars, teachVars
<1>11. CASE RecallEpoch \/ WriteAnswers \/ WriteAudit \/ WriteManifest \/ WriteCurve
  BY <1>9, <1>11 DEF RecallEpoch, WriteAnswers, WriteAudit, WriteManifest, WriteCurve,
                     vars, storeVars, teachVars
<1>12. CASE RunRaises /\ stage # "teach"
  BY <1>9, <1>12 DEF RunRaises, vars, storeVars, teachVars
<1>13. CASE UNCHANGED eduVars
  BY <1>9, <1>13 DEF eduVars, vars, storeVars, teachVars
<1>14. CASE RunStep
  BY <1>2, <1>5, <1>8, <1>10, <1>11, <1>14, Zenon DEF RunStep
<1>15. CASE RunRaises
  BY <1>7, <1>12, <1>15, Zenon
<1>16. CASE EduNext
  BY <1>1, <1>6, <1>14, <1>15, <1>16, Zenon DEF EduNext
<1> QED
  BY <1>13, <1>16

\* The two together hold of every behaviour.
LEMMA ControlCorrect == EduSpec => [](PageInv /\ ControlInv)
<1>1. EduInit => PageInv /\ ControlInv
  <2>1. EduInit => PageInv
    BY DEF EduInit, Init, PageInv, Empty
  <2> QED
    BY <2>1, ControlInductive
<1>2. PageInv /\ ControlInv /\ [EduNext]_eduVars => (PageInv /\ ControlInv)'
  <2>1. PageInv => hlc \in Nat
    BY DEF PageInv
  <2> QED
    BY <2>1, StoreStep, ControlInductive
<1> QED
  BY <1>1, <1>2, PTL DEF EduSpec

-----------------------------------------------------------------------------
(* What a lesson leaves in the memory *)

Keys(seq) == {seq[i] : i \in DOMAIN seq}

\* An item in mid-teach has made live what it has no longer to do.
ItemInv ==
    \A t \in Item :
        /\ stage = "reset" => pc[t] = "distill"
        /\ pc[t] \in {"select", "commit"} =>
              Keys(ItemLesson[t]) \subseteq LiveKeys(rules) \cup Keys(todo[t])

\* The elements of a sequence are its head and those of its tail.
LEMMA KeysHeadTail ==
    ASSUME NEW S, NEW seq \in Seq(S), seq # <<>>
    PROVE  Keys(seq) = {Head(seq)} \cup Keys(Tail(seq))
<1>1. /\ Len(seq) \in Nat \ {0} /\ DOMAIN seq = 1 .. Len(seq)
      /\ Tail(seq) \in Seq(S) /\ Len(Tail(seq)) = Len(seq) - 1
      /\ \A i \in 1 .. Len(Tail(seq)) : Tail(seq)[i] = seq[i + 1]
      /\ Head(seq) = seq[1]
  BY EmptySeq, LenProperties, HeadTailProperties
<1>2. DOMAIN Tail(seq) = 1 .. Len(seq) - 1
  BY <1>1, LenProperties
<1>3. ASSUME NEW i \in 1 .. Len(seq), i # 1
      PROVE  seq[i] \in Keys(Tail(seq))
  <2>1. i - 1 \in DOMAIN Tail(seq) /\ Tail(seq)[i - 1] = seq[i]
    BY <1>1, <1>2, <1>3
  <2> QED
    BY <2>1 DEF Keys
<1>4. ASSUME NEW i \in DOMAIN Tail(seq)
      PROVE  Tail(seq)[i] \in Keys(seq)
  <2>1. i + 1 \in DOMAIN seq /\ Tail(seq)[i] = seq[i + 1]
    BY <1>1, <1>2
  <2> QED
    BY <2>1 DEF Keys
<1>5. seq[1] \in Keys(seq)
  BY <1>1 DEF Keys
<1>6. Keys(seq) \subseteq {seq[1]} \cup Keys(Tail(seq))
  BY <1>1, <1>3 DEF Keys
<1>7. Keys(Tail(seq)) \subseteq Keys(seq)
  BY <1>4 DEF Keys
<1> QED
  BY <1>1, <1>5, <1>6, <1>7

\* A committed upsert has made live the key it crosses off.
LEMMA UpsertTeaches ==
    ASSUME PageInv, NEW t \in Teacher, CommitUpsert(t)
    PROVE  Keys(todo[t]) \subseteq LiveKeys(rules') \cup Keys(todo'[t])
<1> DEFINE k == Head(todo[t])
<1>1. todo[t] \in Seq(Key) /\ todo[t] # <<>> /\ hlc \in Nat /\ DOMAIN rules \subseteq 1 .. hlc
  BY DEF PageInv, CommitUpsert
<1>2. Keys(todo[t]) = {k} \cup Keys(Tail(todo[t]))
  BY <1>1, KeysHeadTail
<1>3. k \in Key
  BY <1>1, HeadTailProperties
<1>4. PICK v \in IF seen[t] = {} THEN {Null} ELSE seen[t] :
             Commit(Supersede(rules, hlc + 1, k, ep[t], v), episodes)
  BY DEF CommitUpsert
<1>5. seen[t] = LiveRows(rules, k)
  BY DEF CommitUpsert, ReadIsCurrent
<1>6. todo'[t] = Tail(todo[t])
  BY DEF CommitUpsert, PageInv
<1> HIDE DEF k
<1>7. v \in IF LiveRows(rules, k) = {} THEN {Null} ELSE LiveRows(rules, k)
  BY <1>4, <1>5
<1>8. k \in LiveKeys(Supersede(rules, hlc + 1, k, ep[t], v))
  BY <1>1, <1>3, <1>7, UpsertAddsKey
<1>9. rules' = Supersede(rules, hlc + 1, k, ep[t], v)
  BY <1>4 DEF Commit
<1> QED
  BY <1>2, <1>6, <1>8, <1>9

\* No step loses sight of what an item still has to teach.
LEMMA ItemInductive ==
    ASSUME PageInv, ControlInv, ItemInv, [EduNext]_eduVars
    PROVE  ItemInv'
<1> SUFFICES ASSUME NEW t \in Item
             PROVE  /\ stage' = "reset" => pc'[t] = "distill"
                    /\ pc'[t] \in {"select", "commit"} =>
                          Keys(ItemLesson[t]) \subseteq LiveKeys(rules') \cup Keys(todo'[t])
  BY DEF ItemInv
<1>1. t \in Teacher
  BY LessonItems
<1>2. ASSUME pc'[t] = pc[t], todo'[t] = todo[t], KeepsLive, stage' = "reset" => stage = "reset"
      PROVE  /\ stage' = "reset" => pc'[t] = "distill"
             /\ pc'[t] \in {"select", "commit"} =>
                   Keys(ItemLesson[t]) \subseteq LiveKeys(rules') \cup Keys(todo'[t])
  BY <1>2 DEF ItemInv, KeepsLive
<1>3. CASE StartRun
  BY <1>1, <1>3 DEF StartRun
<1>4. CASE ResetMemory
  BY <1>4 DEF ResetMemory, WipeMemory, teachVars, ItemInv
<1>5. stage = "teach" => Head(queue) \in Item
  BY HeadTailProperties DEF ControlInv
<1>6. CASE TeachItem /\ Head(queue) # t
  <2>1. stage = "teach" /\ Teach(Head(queue)) /\ stage' = stage
    BY <1>6 DEF TeachItem, Teach, runVars
  <2>2. Head(queue) \in Teacher
    BY <1>5, <2>1, LessonItems
  <2>3. KeepsLive /\ pc'[t] = pc[t] /\ todo'[t] = todo[t]
    BY <1>1, <1>6, <2>1, <2>2, TeachStep
  <2> QED
    BY <1>2, <2>1, <2>3
<1>7. CASE TeachItem /\ Head(queue) = t
  <2>1. stage' = "teach"
    BY <1>7 DEF TeachItem, runVars
  <2>2. CASE RecordEpisode(t) /\ todo'[t] = ItemLesson[t]
    BY <2>1, <2>2
  <2>3. CASE SelectLive(t)
    <3>1. pc[t] = "select" /\ UNCHANGED <<rules, todo>>
      BY <2>3 DEF SelectLive, storeVars
    <3> QED
      BY <2>1, <3>1 DEF ItemInv
  <2>4. CASE CommitUpsert(t)
    <3>1. pc[t] = "commit"
      BY <2>4 DEF CommitUpsert
    <3>2. Keys(ItemLesson[t]) \subseteq LiveKeys(rules) \cup Keys(todo[t])
      BY <3>1 DEF ItemInv
    <3>3. LiveKeys(rules) \subseteq LiveKeys(rules')
      BY <1>1, <2>4, TeachStep DEF Teach, KeepsLive
    <3>4. Keys(todo[t]) \subseteq LiveKeys(rules') \cup Keys(todo'[t])
      BY <1>1, <2>4, UpsertTeaches
    <3> QED
      BY <2>1, <3>2, <3>3, <3>4
  <2> QED
    BY <1>7, <2>2, <2>3, <2>4 DEF TeachItem
<1>8. CASE VisitorTeaches
  <2>1. PICK v \in Visitor : Teach(v)
    BY <1>8 DEF VisitorTeaches
  <2>2. v \in Teacher /\ v # t
    BY TeachersAssumption
  <2>3. KeepsLive /\ pc'[t] = pc[t] /\ todo'[t] = todo[t]
    BY <1>1, <2>1, <2>2, TeachStep
  <2>4. stage' = stage
    BY <1>8 DEF VisitorTeaches, runVars
  <2> QED
    BY <1>2, <2>3, <2>4
<1>9. CASE ItemTaught
  <2>1. /\ UNCHANGED <<rules, todo>> /\ pc' = [pc EXCEPT ![Head(queue)] = "done"]
        /\ stage' # "reset"
    BY <1>9 DEF ItemTaught, storeVars, AfterItem
  <2>2. pc'[t] \in {"select", "commit"} => pc'[t] = pc[t]
    BY <1>1, <2>1 DEF PageInv
  <2> QED
    BY <2>1, <2>2 DEF ItemInv
<1>10. CASE RunRaises /\ stage = "teach"
  <2>1. /\ UNCHANGED <<rules, todo>> /\ pc' = [pc EXCEPT ![Head(queue)] = "failed"]
        /\ stage' # "reset"
    BY <1>10 DEF RunRaises, Raise, storeVars
  <2>2. pc'[t] \in {"select", "commit"} => pc'[t] = pc[t]
    BY <1>1, <2>1 DEF PageInv
  <2> QED
    BY <2>1, <2>2 DEF ItemInv
<1>11. ASSUME UNCHANGED <<rules, pc, todo>>, stage' = "reset" => stage = "reset"
       PROVE  /\ stage' = "reset" => pc'[t] = "distill"
              /\ pc'[t] \in {"select", "commit"} =>
                    Keys(ItemLesson[t]) \subseteq LiveKeys(rules') \cup Keys(todo'[t])
  BY <1>11 DEF ItemInv
<1>12. CASE Stamp
  BY <1>11, <1>12 DEF Stamp, StampZero, vars, storeVars, teachVars
<1>13. CASE RecallEpoch \/ WriteAnswers \/ WriteAudit \/ WriteManifest \/ WriteCurve
  BY <1>11, <1>13 DEF RecallEpoch, WriteAnswers, WriteAudit, WriteManifest, WriteCurve,
                      vars, storeVars, teachVars
<1>14. CASE RunRaises /\ stage # "teach"
  BY <1>11, <1>14 DEF RunRaises, vars, storeVars, teachVars
<1>15. CASE UNCHANGED eduVars
  BY <1>11, <1>15 DEF eduVars, runVars, vars, storeVars, teachVars
<1>16. CASE RunStep
  BY <1>4, <1>6, <1>7, <1>9, <1>12, <1>13, <1>16, Zenon DEF RunStep
<1>17. CASE RunRaises
  BY <1>10, <1>14, <1>17, Zenon
<1>18. CASE EduNext
  BY <1>3, <1>8, <1>16, <1>17, <1>18, Zenon DEF EduNext
<1> QED
  BY <1>15, <1>18

-----------------------------------------------------------------------------
(* Stamps, lessons, epochs *)

TaughtOf(items) == UNION {Keys(ItemLesson[t]) : t \in items}

\* The stamp in hand is a page of history that shows no more than is live.
StampInv ==
    /\ stampAt <= hlc
    /\ stage \in {"stamp", "recall", "teach"} => hlc >= 1
    /\ stage = "recall" => stampAt >= 1 /\ LiveKeys(hist[stampAt]) \subseteq LiveKeys(rules)

\* What the lesson teaches is live, but for the items still in the queue; the
\* stamp after the lesson shows all of it.
LessonsInv ==
    /\ stage = "teach" =>
          TaughtBy(Len(epochs)) \subseteq LiveKeys(rules) \cup TaughtOf(Keys(queue))
    /\ stage = "stamp" /\ epochs # <<>> => TaughtBy(Len(epochs)) \subseteq LiveKeys(rules)
    /\ stage = "recall" /\ epochs # <<>> => TaughtBy(Len(epochs)) \subseteq LiveKeys(hist[stampAt])

\* An epoch is what its page of history shows, and none of it has gone.
EpochInv ==
    /\ \A e \in 1 .. Len(epochs) :
          /\ epochs[e].asOf \in 1 .. hlc
          /\ epochs[e].live = LiveKeys(hist[epochs[e].asOf])
          /\ epochs[e].live \subseteq LiveKeys(rules)
          /\ stage = "recall" => /\ epochs[e].asOf <= stampAt
                                 /\ epochs[e].live \subseteq LiveKeys(hist[stampAt])
    /\ EpochsCumulative

MemoryInv == PageInv /\ ControlInv /\ ItemInv /\ StampInv /\ LessonsInv /\ EpochInv

\* What a step other than the run's own does to stage, stamp and epochs.
RunAside ==
    /\ UNCHANGED <<queue, stampAt, epochs>>
    /\ stage' \in {"stamp", "recall", "teach"} => stage' = stage

\* With the epochs' limit a recall returns every live key.
LEMMA RecallIsWhole ==
    ASSUME NEW tbl, NEW s \in Recall(tbl, RecallLimit) PROVE s = LiveKeys(tbl)
<1> DEFINE all == LiveKeys(tbl)
<1>1. all \in SUBSET Key
  BY DEF LiveKeys
<1>2. IsFiniteSet(all) /\ Cardinality(all) <= Cardinality(Key)
  BY <1>1, RecallLimitAssumption, FS_Subset
<1>3. Cardinality(all) \in Nat /\ Cardinality(Key) \in Nat
  BY <1>2, RecallLimitAssumption, FS_CardinalityType
<1>4. Cardinality(all) <= RecallLimit
  BY <1>2, <1>3, RecallLimitAssumption
<1>5. s \in SUBSET all /\ Cardinality(s) = Cardinality(all)
  BY <1>4 DEF Recall
<1> QED
  BY <1>2, <1>5, FS_Subset

\* And returning every live key is what a recall may do.
LEMMA RecallReturnsAll ==
    ASSUME NEW tbl PROVE LiveKeys(tbl) \in Recall(tbl, RecallLimit)
<1> DEFINE all == LiveKeys(tbl)
<1>1. all \in SUBSET Key
  BY DEF LiveKeys
<1>2. IsFiniteSet(all) /\ Cardinality(all) <= Cardinality(Key)
  BY <1>1, RecallLimitAssumption, FS_Subset
<1>3. Cardinality(all) \in Nat /\ Cardinality(Key) \in Nat
  BY <1>2, RecallLimitAssumption, FS_CardinalityType
<1>4. Cardinality(all) <= RecallLimit
  BY <1>2, <1>3, RecallLimitAssumption
<1> QED
  BY <1>4 DEF Recall

\* Which steps are aside, which are not.
LEMMA OtherSteps ==
    ASSUME [EduNext]_eduVars, PageInv, ControlInv
    PROVE  \/ StartRun \/ ResetMemory \/ Stamp \/ RecallEpoch \/ ItemTaught
           \/ RunAside /\ KeepsLive
<1> USE DEF RunAside
<1>1. CASE TeachItem
  <2>1. stage = "teach" /\ RunAside /\ Teach(Head(queue))
    BY <1>1 DEF TeachItem, Teach, runVars
  <2>2. Head(queue) \in Teacher
    BY <2>1, HeadTailProperties, LessonItems DEF ControlInv
  <2> QED
    BY <2>1, <2>2, TeachStep
<1>2. CASE VisitorTeaches
  <2>1. RunAside /\ \E t \in Teacher : Teach(t)
    BY <1>2, TeachersAssumption DEF VisitorTeaches, runVars
  <2> QED
    BY <2>1, TeachStep
<1>3. CASE WriteAnswers \/ WriteAudit \/ WriteManifest \/ WriteCurve
  <2>1. rules' = rules /\ UNCHANGED <<queue, stampAt, epochs>>
    BY <1>3 DEF WriteAnswers, WriteAudit, WriteManifest, WriteCurve, vars, storeVars
  <2>2. stage' \notin {"stamp", "recall", "teach"}
    BY <1>3 DEF WriteAnswers, WriteAudit, WriteManifest, WriteCurve
  <2> QED
    BY <2>1, <2>2 DEF KeepsLive
<1>4. CASE RunRaises
  <2>1. rules' = rules /\ UNCHANGED <<queue, stampAt, epochs>> /\ stage' = "failed"
    BY <1>4 DEF RunRaises, Raise, vars, storeVars
  <2> QED
    BY <2>1 DEF KeepsLive
<1>5. CASE UNCHANGED eduVars
  BY <1>5 DEF eduVars, runVars, vars, storeVars, KeepsLive
<1>6. CASE EduNext
  BY <1>1, <1>2, <1>3, <1>4, <1>6, Zenon DEF EduNext, RunStep
<1> QED
  BY <1>5, <1>6

\* The stamp in hand stays a page of history that shows no more than is live.
LEMMA StampInductive ==
    ASSUME MemoryInv, [EduNext]_eduVars PROVE StampInv'
<1> USE DEF MemoryInv, StampInv
<1>1. PageInv' /\ KeepsPages
  BY StoreStep
<1>2. hlc \in Nat /\ stampAt \in Nat /\ hlc' \in Nat /\ hlc <= hlc'
      /\ (\A ts \in 0 .. hlc : hist'[ts] = hist[ts])
  BY <1>1 DEF PageInv, ControlInv, KeepsPages
<1>3. CASE StartRun
  BY <1>2, <1>3 DEF StartRun
<1>4. CASE ResetMemory
  BY <1>2, <1>4 DEF ResetMemory, WipeMemory, Commit
<1>5. CASE Stamp
  <2>1. stampAt' = hlc /\ stage = "stamp" /\ stage' = "recall" /\ UNCHANGED <<rules, hlc, hist>>
    BY <1>5 DEF Stamp, StampZero, vars, storeVars
  <2> QED
    BY <1>2, <2>1 DEF PageInv
<1>6. CASE RecallEpoch
  <2>1. stage = "recall" /\ UNCHANGED <<stampAt, hlc>> /\ stage' # "recall"
    BY <1>6 DEF RecallEpoch, vars, storeVars
  <2> QED
    BY <1>2, <2>1
<1>7. CASE ItemTaught
  <2>1. stage = "teach" /\ UNCHANGED <<stampAt, hlc>> /\ stage' # "recall"
    BY <1>7 DEF ItemTaught, AfterItem, storeVars
  <2> QED
    BY <1>2, <2>1
<1>8. CASE RunAside /\ KeepsLive
  <2>1. stage' = "recall" => hist'[stampAt'] = hist[stampAt]
    BY <1>2, <1>8 DEF RunAside
  <2> QED
    BY <1>2, <1>8, <2>1 DEF RunAside, KeepsLive
<1> QED
  BY <1>3, <1>4, <1>5, <1>6, <1>7, <1>8, OtherSteps

\* The lesson under way stays accounted for: taught, or in the queue.
LEMMA LessonInductive ==
    ASSUME MemoryInv, [EduNext]_eduVars PROVE LessonsInv'
<1> USE DEF MemoryInv, LessonsInv
<1>1. PageInv' /\ KeepsPages
  BY StoreStep
<1>2. CASE StartRun
  BY <1>2 DEF StartRun
<1>3. CASE ResetMemory
  BY <1>3 DEF ResetMemory, ControlInv
<1>4. CASE Stamp
  <2>1. /\ stampAt' = hlc /\ stage = "stamp" /\ stage' = "recall" /\ epochs' = epochs
        /\ UNCHANGED <<rules, hlc, hist>>
    BY <1>4 DEF Stamp, StampZero, vars, storeVars
  <2>2. hist'[stampAt'] = rules
    BY <2>1 DEF PageInv
  <2> QED
    BY <2>1, <2>2
<1>5. CASE RecallEpoch
  <2>1. Len(epochs') = Len(epochs) + 1 /\ Len(epochs) \in Nat
    BY <1>5 DEF RecallEpoch, ControlInv
  <2>2. stage' = "teach" => queue' = Curriculum[Len(epochs')]
    BY <1>5, <2>1 DEF RecallEpoch
  <2>3. stage' = "teach" => TaughtBy(Len(epochs')) = TaughtOf(Keys(queue'))
    BY <2>2 DEF TaughtBy, TaughtOf, Keys
  <2>4. stage' \in {"teach", "answers"}
    BY <1>5 DEF RecallEpoch
  <2> QED
    BY <2>3, <2>4
<1>6. CASE ItemTaught
  <2> DEFINE h == Head(queue)
  <2>1. /\ stage = "teach" /\ UNCHANGED <<rules, epochs>> /\ queue' = Tail(queue)
        /\ stage' = (IF queue' = <<>> THEN "stamp" ELSE "teach")
        /\ pc[h] = "select" /\ todo[h] = <<>>
    BY <1>6 DEF ItemTaught, LessonOver, Rest, AfterItem, storeVars
  <2>2. queue \in Seq(Item) /\ queue # <<>>
    BY <2>1 DEF ControlInv
  <2>3. h \in Item /\ Keys(queue) = {h} \cup Keys(queue')
    BY <2>1, <2>2, HeadTailProperties, KeysHeadTail
  <2>4. Keys(<<>>) = {}
    BY DEF Keys
  <2>5. Keys(ItemLesson[h]) \subseteq LiveKeys(rules)
    BY <2>1, <2>3, <2>4 DEF ItemInv
  <2> HIDE DEF h
  <2>6. TaughtOf(Keys(queue)) = Keys(ItemLesson[h]) \cup TaughtOf(Keys(queue'))
    BY <2>3 DEF TaughtOf
  <2>7. TaughtBy(Len(epochs)) \subseteq LiveKeys(rules) \cup TaughtOf(Keys(queue'))
    BY <2>1, <2>5, <2>6
  <2>8. queue' = <<>> => TaughtOf(Keys(queue')) = {}
    BY <2>4 DEF TaughtOf
  <2> QED
    BY <2>1, <2>7, <2>8
<1>7. CASE RunAside /\ KeepsLive
  <2>1. stage = "recall" => hist'[stampAt] = hist[stampAt]
    BY <1>1 DEF KeepsPages, StampInv, ControlInv, PageInv
  <2> QED
    BY <1>7, <2>1 DEF RunAside, KeepsLive
<1> QED
  BY <1>2, <1>3, <1>4, <1>5, <1>6, <1>7, OtherSteps

\* Epochs stay what their pages show and accumulate.
LEMMA EpochInductive ==
    ASSUME MemoryInv, [EduNext]_eduVars PROVE EpochInv'
<1> USE DEF MemoryInv
<1>1. KeepsPages
  BY StoreStep
<1>2. /\ hlc \in Nat /\ hlc' \in Nat /\ hlc <= hlc' /\ Len(epochs) \in Nat
      /\ \A ts \in 0 .. hlc : hist'[ts] = hist[ts]
      /\ stampAt \in Nat /\ stampAt <= hlc
  BY <1>1 DEF KeepsPages, ControlInv, PageInv, StampInv
<1>3. CASE epochs' = <<>>
  BY <1>3 DEF EpochInv, EpochsCumulative
<1>4. CASE epochs' = epochs /\ KeepsLive /\ (stage' = "recall" => stage = "recall" /\ stampAt' = stampAt)
  <2>1. ASSUME NEW e \in 1 .. Len(epochs)
        PROVE  /\ epochs[e].asOf \in 1 .. hlc'
               /\ epochs[e].live = LiveKeys(hist'[epochs[e].asOf])
               /\ epochs[e].live \subseteq LiveKeys(rules')
               /\ stage' = "recall" => /\ epochs[e].asOf <= stampAt'
                                       /\ epochs[e].live \subseteq LiveKeys(hist'[stampAt'])
    <3>1. epochs[e].asOf \in 1 .. hlc /\ hist'[epochs[e].asOf] = hist[epochs[e].asOf]
      BY <1>2 DEF EpochInv
    <3>2. stage' = "recall" => hist'[stampAt'] = hist[stampAt]
      BY <1>2, <1>4
    <3> QED
      BY <1>2, <1>4, <3>1, <3>2 DEF EpochInv, KeepsLive
  <2>2. EpochsCumulative'
    BY <1>4 DEF EpochInv, EpochsCumulative
  <2> QED
    BY <1>4, <2>1, <2>2 DEF EpochInv
<1>5. CASE Stamp
  <2>1. /\ stampAt' = hlc /\ epochs' = epochs
        /\ UNCHANGED <<rules, hlc, hist>>
    BY <1>5 DEF Stamp, StampZero, vars, storeVars
  <2>2. hist'[stampAt'] = rules
    BY <2>1 DEF PageInv
  <2> QED
    BY <1>2, <2>1, <2>2 DEF EpochInv, EpochsCumulative
<1>6. CASE RecallEpoch
  <2>1. PICK live \in Recall(hist[stampAt], RecallLimit) :
             epochs' = Append(epochs, [asOf |-> stampAt, live |-> live,
                        taught |-> IF epochs = <<>> THEN {} ELSE TaughtBy(Len(epochs))])
    BY <1>6 DEF RecallEpoch, EpochTable
  <2> DEFINE n == Len(epochs)
             taught == IF epochs = <<>> THEN {} ELSE TaughtBy(n)
             new == [asOf |-> stampAt, live |-> live, taught |-> taught]
  <2>2. live = LiveKeys(hist[stampAt])
    BY <2>1, RecallIsWhole
  <2>3. stage = "recall" /\ stage' # "recall" /\ UNCHANGED <<rules, hlc, hist>>
    BY <1>6 DEF RecallEpoch, vars, storeVars
  <2>4. taught \subseteq live
    BY <2>2, <2>3 DEF LessonsInv
  <2>5. stampAt \in 1 .. hlc /\ live \subseteq LiveKeys(rules)
    BY <1>2, <2>2, <2>3 DEF StampInv
  <2>6. /\ Len(epochs') = n + 1 /\ epochs'[n + 1] = new
        /\ \A e \in 1 .. n : epochs'[e] = epochs[e]
    <3> HIDE DEF new
    <3>1. epochs' = Append(epochs, new)
      BY <2>1 DEF new
    <3> QED
      BY <3>1 DEF ControlInv
  <2>7. new.asOf = stampAt /\ new.live = live /\ new.taught = taught
    OBVIOUS
  <2> HIDE DEF n, new, taught
  <2>8. n \in Nat
    BY <1>2 DEF n
  <2>9. \A e \in 1 .. n : /\ epochs[e].asOf \in 1 .. hlc
                          /\ epochs[e].live = LiveKeys(hist[epochs[e].asOf])
                          /\ epochs[e].live \subseteq LiveKeys(rules)
                          /\ epochs[e].asOf <= stampAt
                          /\ epochs[e].live \subseteq live
    BY <2>2, <2>3 DEF EpochInv, n
  <2>10. \A e \in 1 .. n + 1 : e \in 1 .. n \/ e = n + 1
    BY <2>8
  <2>11. \A e \in 1 .. Len(epochs') :
            /\ epochs'[e].asOf \in 1 .. hlc'
            /\ epochs'[e].live = LiveKeys(hist'[epochs'[e].asOf])
            /\ epochs'[e].live \subseteq LiveKeys(rules')
    BY <2>2, <2>3, <2>5, <2>6, <2>7, <2>9, <2>10
  <2>12. ASSUME NEW i \in 1 .. n, NEW j \in i .. n
         PROVE  /\ epochs[i].taught \subseteq epochs[j].live
                /\ epochs[i].live \subseteq epochs[j].live
                /\ epochs[i].asOf <= epochs[j].asOf
    BY DEF EpochInv, EpochsCumulative, n
  <2>13. ASSUME NEW i \in 1 .. n + 1, NEW j \in i .. n + 1
         PROVE  /\ epochs'[i].taught \subseteq epochs'[j].live
                /\ epochs'[i].live \subseteq epochs'[j].live
                /\ epochs'[i].asOf <= epochs'[j].asOf
    <3>1. CASE j # n + 1
      <4>1. i \in 1 .. n /\ j \in i .. n /\ j \in 1 .. n
        BY <2>8, <3>1
      <4> QED
        BY <2>6, <2>12, <4>1
    <3>2. CASE j = n + 1 /\ i # n + 1
      <4>1. i \in 1 .. n /\ i \in i .. n
        BY <2>8, <3>2
      <4>2. epochs[i].taught \subseteq epochs[i].live
        BY <2>12, <4>1
      <4> QED
        BY <2>6, <2>7, <2>9, <3>2, <4>1, <4>2
    <3>3. CASE j = n + 1 /\ i = n + 1
      BY <2>4, <2>5, <2>6, <2>7, <3>3
    <3> QED
      BY <3>1, <3>2, <3>3
  <2>14. EpochsCumulative'
    BY <2>6, <2>13 DEF EpochsCumulative
  <2> QED
    BY <2>3, <2>11, <2>14 DEF EpochInv
<1>7. CASE ItemTaught
  BY <1>4, <1>7 DEF ItemTaught, AfterItem, storeVars, KeepsLive
<1>8. CASE StartRun \/ ResetMemory
  BY <1>3, <1>8 DEF StartRun, ResetMemory, ControlInv
<1>9. CASE RunAside /\ KeepsLive
  BY <1>4, <1>9 DEF RunAside
<1> QED
  BY <1>5, <1>6, <1>7, <1>8, <1>9, OtherSteps

\* All that holds of the run, its epochs and the memory.
LEMMA MemoryCorrect == EduSpec => []MemoryInv
<1>1. EduInit => MemoryInv
  <2> SUFFICES ASSUME EduInit PROVE MemoryInv
    OBVIOUS
  <2>1. PageInv
    BY DEF EduInit, Init, PageInv, Empty
  <2>2. ControlInv
    BY ControlInductive
  <2>3. ItemInv
    BY LessonItems DEF EduInit, Init, ItemInv
  <2>4. StampInv /\ LessonsInv
    BY DEF EduInit, Init, StampInv, LessonsInv, Null
  <2>5. EpochInv
    BY DEF EduInit, EpochInv, EpochsCumulative
  <2> QED
    BY <2>1, <2>2, <2>3, <2>4, <2>5 DEF MemoryInv
<1>2. MemoryInv /\ [EduNext]_eduVars => MemoryInv'
  <2> SUFFICES ASSUME MemoryInv, [EduNext]_eduVars PROVE MemoryInv'
    OBVIOUS
  <2>1. PageInv /\ ControlInv /\ ItemInv /\ hlc \in Nat
    BY DEF MemoryInv, PageInv
  <2>2. PageInv' /\ ControlInv' /\ ItemInv'
    BY <2>1, StoreStep, ControlInductive, ItemInductive
  <2> QED
    BY <2>2, StampInductive, LessonInductive, EpochInductive DEF MemoryInv
<1> QED
  BY <1>1, <1>2, PTL DEF EduSpec

\* Everything taught so far is live at each epoch and nothing once live is
\* gone: EpochsCumulative, for any curriculum and any visitors.
THEOREM EpochsAreCumulative == EduSpec => []EpochsCumulative
<1>1. MemoryInv => EpochsCumulative
  BY DEF MemoryInv, EpochInv
<1> QED
  BY <1>1, MemoryCorrect, PTL

-----------------------------------------------------------------------------
(* Files *)

\* The files that the run has written when it stands at its current statement.
AnswersWritten(p, e) ==
    \/ stage \in {"curve", "done"}
    \/ stage \in {"answers", "audit", "manifest"} /\ p < pol
    \/ stage = "manifest" /\ p = pol
    \/ stage = "answers" /\ p = pol /\ e < epo
    \/ stage = "audit" /\ p = pol /\ e <= epo

AuditWritten(p, e) ==
    \/ stage \in {"curve", "done"}
    \/ stage \in {"answers", "audit", "manifest"} /\ p < pol
    \/ stage = "manifest" /\ p = pol
    \/ stage \in {"answers", "audit"} /\ p = pol /\ e < epo

FileTypes ==
    /\ answers \in [PolicyIndex -> [EpochIndex -> [run : 0 .. run, saw : SUBSET Key]]]
    /\ audit \in [PolicyIndex -> [EpochIndex -> 0 .. run]]
    /\ manifest \in [PolicyIndex -> [run : 0 .. run, stamps : Seq(Nat)]]
    /\ curve.run \in 0 .. run

\* A file carries the number of the run from when the run has written it, and
\* not before.
ProgressInv ==
    \A p \in PolicyIndex, e \in EpochIndex :
        /\ stage \in Learning => answers[p][e].run < run
        /\ AnswersWritten(p, e) => answers[p][e].run = run
        /\ AuditWritten(p, e) => audit[p][e] = run

\* CurveIsEarned with the pages it speaks of in history.
CurveInv ==
    /\ CurveIsEarned
    /\ \A p \in DOMAIN curve.rows : \A e \in DOMAIN curve.rows[p] :
          curve.rows[p][e].asOf \in 0 .. hlc

FileInv == FileTypes /\ ProgressInv /\ ArmsShareMemory /\ ManifestSeals /\ CurveInv

\* Steps that leave files, run and the cursor over the files alone.
FilesAside ==
    /\ UNCHANGED <<run, fileVars, pol, epo>>
    /\ stage' \in Learning => stage \in Learning
    /\ stage' = stage \/ stage' = "failed" \/ stage \in Learning
    /\ stage' \in Learning \cup {"answers", "failed"} \/ stage' = stage

\* Which steps they are.
LEMMA FileSteps ==
    ASSUME ControlInv, [EduNext]_eduVars
    PROVE  \/ StartRun \/ WriteAnswers \/ WriteAudit \/ WriteManifest \/ WriteCurve
           \/ FilesAside /\ (epochs' = epochs \/ RecallEpoch)
<1> USE DEF FilesAside, Learning
<1>1. CASE ResetMemory \/ Stamp \/ RecallEpoch \/ ItemTaught
  BY <1>1 DEF ResetMemory, Stamp, RecallEpoch, ItemTaught, AfterItem
<1>2. CASE TeachItem \/ VisitorTeaches
  BY <1>2 DEF TeachItem, VisitorTeaches, runVars
<1>3. CASE RunRaises
  BY <1>3 DEF RunRaises
<1>4. CASE UNCHANGED eduVars
  BY <1>4 DEF eduVars, runVars
<1>5. CASE EduNext
  BY <1>1, <1>2, <1>3, <1>5, Zenon DEF EduNext, RunStep
<1> QED
  BY <1>4, <1>5

\* The answers that WriteAnswers writes come from the epoch's memory.
LEMMA AnswersFromEpoch ==
    ASSUME MemoryInv, FileInv, WriteAnswers
    PROVE  \E saw \in SUBSET Key :
              /\ answers' = [answers EXCEPT ![pol][epo] = [run |-> run, saw |-> saw]]
              /\ saw \subseteq epochs[epo].live
              /\ Cardinality(epochs[epo].live) <= RecallK => saw = epochs[epo].live
<1> DEFINE live == epochs[epo].live
           tbl == hist[epochs[epo].asOf]
<1>1. epo \in 1 .. Len(epochs)
  BY DEF WriteAnswers, MemoryInv, ControlInv, EpochIndex, Writing
<1>2. live = LiveKeys(tbl) /\ live \subseteq Key
  BY <1>1 DEF MemoryInv, EpochInv, LiveKeys
<1>3. PICK saw \in IF Policies[pol] = "oracle" THEN {live} ELSE Recall(tbl, RecallK) :
         answers' = [answers EXCEPT ![pol][epo] = [run |-> run, saw |-> saw]]
  BY DEF WriteAnswers, AnswersFile
<1> HIDE DEF live, tbl
<1>4. CASE Policies[pol] = "oracle"
  <2>1. saw = live
    BY <1>3, <1>4
  <2> QED
    BY <1>2, <1>3, <2>1 DEF live
<1>5. CASE Policies[pol] # "oracle"
  <2>1. saw \in Recall(tbl, RecallK)
    BY <1>3, <1>5
  <2>2. saw \in SUBSET live
    BY <1>2, <2>1 DEF Recall
  <2>3. IsFiniteSet(live)
    BY <1>2, RecallLimitAssumption, FS_Subset
  <2>4. Cardinality(live) <= RecallK => Cardinality(saw) = Cardinality(live)
    BY <1>2, <2>1 DEF Recall
  <2>5. Cardinality(live) <= RecallK => saw = live
    BY <2>2, <2>3, <2>4, FS_Subset
  <2> QED
    BY <1>2, <1>3, <2>2, <2>5 DEF live
<1> QED
  BY <1>4, <1>5

\* Every write of a file keeps its type.
LEMMA TypesInductive ==
    ASSUME MemoryInv, FileInv, [EduNext]_eduVars PROVE FileTypes'
<1> USE DEF FileInv, FileTypes
<1>1. ControlInv /\ run \in Nat
  BY MaxRunsAssumption DEF MemoryInv, ControlInv
<1>2. CASE StartRun
  <2>1. run' = run + 1 /\ UNCHANGED fileVars
    BY <1>2 DEF StartRun
  <2>2. 0 .. run \subseteq 0 .. run'
    BY <1>1, <2>1
  <2>3. answers \in [PolicyIndex -> [EpochIndex -> [run : 0 .. run', saw : SUBSET Key]]]
    <3>1. [run : 0 .. run, saw : SUBSET Key] \subseteq [run : 0 .. run', saw : SUBSET Key]
      BY <2>2
    <3> QED
      BY <3>1
  <2>4. manifest \in [PolicyIndex -> [run : 0 .. run', stamps : Seq(Nat)]]
    <3>1. [run : 0 .. run, stamps : Seq(Nat)] \subseteq [run : 0 .. run', stamps : Seq(Nat)]
      BY <2>2
    <3> QED
      BY <3>1
  <2> QED
    BY <2>1, <2>2, <2>3, <2>4 DEF fileVars
<1>3. CASE WriteAnswers
  <2>1. PICK saw \in SUBSET Key :
           answers' = [answers EXCEPT ![pol][epo] = [run |-> run, saw |-> saw]]
    BY <1>3, AnswersFromEpoch
  <2>2. [run |-> run, saw |-> saw] \in [run : 0 .. run, saw : SUBSET Key]
    BY <1>1
  <2>3. answers' \in [PolicyIndex -> [EpochIndex -> [run : 0 .. run, saw : SUBSET Key]]]
    BY <2>1, <2>2
  <2>4. UNCHANGED <<run, audit, manifest, curve>>
    BY <1>3 DEF WriteAnswers
  <2> QED
    BY <2>3, <2>4
<1>4. CASE WriteAudit
  <2>1. audit' = [audit EXCEPT ![pol][epo] = run] /\ UNCHANGED <<run, answers, manifest, curve>>
    BY <1>4 DEF WriteAudit
  <2>2. run \in 0 .. run
    BY <1>1
  <2>3. audit' \in [PolicyIndex -> [EpochIndex -> 0 .. run]]
    BY <2>1, <2>2
  <2> QED
    BY <2>1, <2>3
<1>5. CASE WriteManifest
  <2> DEFINE new == [run |-> run, stamps |-> [i \in DOMAIN epochs |-> epochs[i].asOf]]
  <2>1. manifest' = [manifest EXCEPT ![pol] = new] /\ UNCHANGED <<run, answers, audit, curve>>
    BY <1>5 DEF WriteManifest
  <2>2. [i \in DOMAIN epochs |-> epochs[i].asOf] \in Seq(Nat)
    <3>1. Len(epochs) \in Nat /\ DOMAIN epochs = 1 .. Len(epochs)
      BY <1>1 DEF ControlInv
    <3>2. \A i \in 1 .. Len(epochs) : epochs[i].asOf \in Nat
      BY DEF MemoryInv, EpochInv, PageInv
    <3> DEFINE stamps == [i \in 1 .. Len(epochs) |-> epochs[i].asOf]
    <3>3. stamps \in [1 .. Len(epochs) -> Nat]
      BY <3>2
    <3>4. stamps \in Seq(Nat)
      <4> HIDE DEF stamps
      <4> QED
        BY <3>1, <3>3
    <3> QED
      BY <3>1, <3>4
  <2>3. new \in [run : 0 .. run, stamps : Seq(Nat)]
    BY <1>1, <2>2
  <2> HIDE DEF new
  <2>4. manifest' \in [PolicyIndex -> [run : 0 .. run, stamps : Seq(Nat)]]
    BY <2>1, <2>3
  <2> QED
    BY <2>1, <2>4
<1>6. CASE WriteCurve
  <2>1. curve'.run = run /\ UNCHANGED <<run, answers, audit, manifest>>
    BY <1>6 DEF WriteCurve
  <2> QED
    BY <1>1, <2>1
<1>7. CASE FilesAside
  BY <1>7 DEF FilesAside, fileVars
<1> QED
  BY <1>1, <1>2, <1>3, <1>4, <1>5, <1>6, <1>7, FileSteps

\* The cursor over policies and epochs says which files are of this run.
LEMMA ProgressInductive ==
    ASSUME MemoryInv, FileInv, [EduNext]_eduVars PROVE ProgressInv'
<1>1. ControlInv /\ run \in Nat /\ pol \in Nat /\ epo \in Nat /\ pol \in PolicyIndex /\ epo \in EpochIndex
  BY MaxRunsAssumption, LessonItems DEF MemoryInv, ControlInv, PolicyIndex, EpochIndex
<1> SUFFICES ASSUME NEW p \in PolicyIndex, NEW e \in EpochIndex
             PROVE  /\ stage' \in Learning => answers'[p][e].run < run'
                    /\ AnswersWritten(p, e)' => answers'[p][e].run = run'
                    /\ AuditWritten(p, e)' => audit'[p][e] = run'
  BY DEF ProgressInv
<1>9. /\ stage \in Learning => answers[p][e].run < run
      /\ AnswersWritten(p, e) => answers[p][e].run = run
      /\ AuditWritten(p, e) => audit[p][e] = run
  BY Zenon DEF FileInv, ProgressInv
<1>10. answers[p][e].run \in 0 .. run
  BY DEF FileInv, FileTypes
<1>2. /\ stage \in Learning => answers[p][e].run < run
      /\ AnswersWritten(p, e) => answers[p][e].run = run
      /\ AuditWritten(p, e) => audit[p][e] = run
      /\ answers[p][e].run \in 0 .. run
      /\ p \in Nat /\ e \in Nat /\ p <= Len(Policies) /\ e <= Len(Curriculum) + 1 /\ e >= 1 /\ p >= 1
      /\ Len(Curriculum) \in Nat /\ Len(Policies) \in Nat
  BY <1>9, <1>10, LessonItems DEF PolicyIndex, EpochIndex
<1> USE DEF AnswersWritten, AuditWritten, Learning
<1>3. CASE StartRun
  <2>1. stage' = "reset" /\ run' = run + 1 /\ answers' = answers
    BY <1>3 DEF StartRun, fileVars
  <2> QED
    BY <1>1, <1>2, <2>1
<1>4. CASE WriteAnswers
  <2>1. PICK saw \in SUBSET Key :
           answers' = [answers EXCEPT ![pol][epo] = [run |-> run, saw |-> saw]]
    BY <1>4, AnswersFromEpoch
  <2>2. answers'[p][e] = IF p = pol /\ e = epo THEN [run |-> run, saw |-> saw] ELSE answers[p][e]
    BY <1>1, <2>1 DEF FileInv, FileTypes
  <2>3. stage = "answers" /\ stage' = "audit" /\ UNCHANGED <<run, pol, epo, audit>>
    BY <1>4 DEF WriteAnswers
  <2>4. AnswersWritten(p, e)' => answers'[p][e].run = run
    BY <1>1, <1>2, <2>2, <2>3
  <2>5. AuditWritten(p, e)' => audit[p][e] = run
    BY <1>1, <1>2, <2>3
  <2> QED
    BY <2>3, <2>4, <2>5
<1>5. CASE WriteAudit
  <2>1. /\ stage = "audit" /\ UNCHANGED <<run, pol, answers>>
        /\ audit' = [audit EXCEPT ![pol][epo] = run]
        /\ IF epo < Len(epochs)
           THEN stage' = "answers" /\ epo' = epo + 1
           ELSE stage' = "manifest" /\ epo' = 1
    BY <1>5 DEF WriteAudit, MoreEpochs
  <2>2. audit'[p][e] = IF p = pol /\ e = epo THEN run ELSE audit[p][e]
    BY <1>1, <2>1 DEF FileInv, FileTypes
  <2>3. Len(epochs) = Len(Curriculum) + 1
    BY <1>1, <2>1 DEF ControlInv, Writing
  <2>4. AnswersWritten(p, e)' => AnswersWritten(p, e)
    BY <1>1, <1>2, <2>1, <2>3
  <2>5. AuditWritten(p, e)' => AuditWritten(p, e) \/ (p = pol /\ e = epo)
    BY <1>1, <1>2, <2>1, <2>3
  <2>6. stage' \notin Learning
    BY <2>1
  <2> QED
    BY <1>2, <2>1, <2>2, <2>4, <2>5, <2>6
<1>6. CASE WriteManifest
  <2>1. /\ stage = "manifest" /\ UNCHANGED <<run, epo, answers, audit>>
        /\ IF pol < Len(Policies)
           THEN stage' = "answers" /\ pol' = pol + 1
           ELSE stage' = "curve" /\ pol' = pol
    BY <1>6 DEF WriteManifest
  <2>2. epo = 1
    BY <1>1, <2>1 DEF ControlInv
  <2> QED
    BY <1>1, <1>2, <2>1, <2>2
<1>7. CASE WriteCurve
  BY <1>2, <1>7 DEF WriteCurve
<1>8. CASE FilesAside
  <2>1. UNCHANGED <<run, answers, audit, pol, epo>>
    BY <1>8 DEF FilesAside, fileVars
  <2>2. CASE stage' = "answers" /\ stage \in Learning
    <3>1. pol = 1 /\ epo = 1
      BY <1>1, <2>2 DEF ControlInv
    <3> QED
      BY <1>2, <2>1, <2>2, <3>1
  <2>3. CASE stage' = stage
    BY <1>2, <2>1, <2>3
  <2>4. CASE stage' = "failed"
    BY <2>4
  <2>5. CASE stage' \in Learning
    BY <1>2, <1>8, <2>1, <2>5 DEF FilesAside
  <2> QED
    BY <1>8, <2>2, <2>3, <2>4, <2>5 DEF FilesAside
<1> QED
  BY <1>1, <1>3, <1>4, <1>5, <1>6, <1>7, <1>8, FileSteps

\* No step parts a run's answers from the memory of their epoch.
LEMMA ArmsInductive ==
    ASSUME MemoryInv, FileInv, [EduNext]_eduVars PROVE ArmsShareMemory'
<1>1. /\ ControlInv /\ run \in Nat /\ Len(epochs) \in Nat
      /\ pol \in PolicyIndex /\ epo \in EpochIndex
  BY MaxRunsAssumption DEF MemoryInv, ControlInv
<1>2. 1 .. Len(epochs) \subseteq EpochIndex
  BY <1>1, LessonItems DEF ControlInv, EpochIndex
<1>3. \A p \in PolicyIndex, e \in EpochIndex : answers[p][e].run \in 0 .. run
  BY DEF FileInv, FileTypes
<1>4. CASE StartRun
  <2>1. run' = run + 1 /\ answers' = answers /\ epochs' = <<>>
    BY <1>4 DEF StartRun, fileVars
  <2> QED
    BY <2>1 DEF ArmsShareMemory
<1>5. CASE RecallEpoch
  <2>1. stage = "recall" /\ UNCHANGED <<run, answers>>
    BY <1>5 DEF RecallEpoch, fileVars
  <2>2. \A p \in PolicyIndex, e \in EpochIndex : answers[p][e].run < run
    BY <2>1 DEF FileInv, ProgressInv, Learning
  <2>3. 1 .. Len(epochs') \subseteq EpochIndex
    <3>1. Len(epochs') = Len(epochs) + 1 /\ Len(epochs) <= Len(Curriculum)
      BY <1>1, <1>5, <2>1 DEF RecallEpoch, ControlInv, Learning
    <3> QED
      BY <1>1, <3>1, LessonItems DEF EpochIndex
  <2>4. \A p \in PolicyIndex, e \in 1 .. Len(epochs') : answers'[p][e].run # run'
    BY <1>1, <1>3, <2>1, <2>2, <2>3
  <2> QED
    BY <2>4 DEF ArmsShareMemory
<1>6. CASE WriteAnswers
  <2>1. PICK saw \in SUBSET Key :
              /\ answers' = [answers EXCEPT ![pol][epo] = [run |-> run, saw |-> saw]]
              /\ saw \subseteq epochs[epo].live
              /\ Cardinality(epochs[epo].live) <= RecallK => saw = epochs[epo].live
    BY <1>6, AnswersFromEpoch
  <2>2. UNCHANGED <<run, epochs>>
    BY <1>6 DEF WriteAnswers
  <2>3. ASSUME NEW p \in PolicyIndex, NEW e \in 1 .. Len(epochs), answers'[p][e].run = run
        PROVE  /\ answers'[p][e].saw \subseteq epochs[e].live
               /\ Cardinality(epochs[e].live) <= RecallK => answers'[p][e].saw = epochs[e].live
    <3>1. CASE p = pol /\ e = epo
      <4>1. answers'[p][e] = [run |-> run, saw |-> saw]
        BY <1>2, <2>1, <3>1 DEF FileInv, FileTypes
      <4> QED
        BY <2>1, <3>1, <4>1
    <3>2. CASE ~(p = pol /\ e = epo)
      <4>1. answers'[p][e] = answers[p][e]
        BY <1>2, <2>1, <3>2 DEF FileInv, FileTypes
      <4> QED
        BY <2>3, <4>1 DEF FileInv, ArmsShareMemory
    <3> QED
      BY <3>1, <3>2
  <2> QED
    BY <2>2, <2>3 DEF ArmsShareMemory
<1>7. ASSUME UNCHANGED <<run, answers, epochs>> PROVE ArmsShareMemory'
  BY <1>7 DEF FileInv, ArmsShareMemory
<1>8. CASE WriteAudit \/ WriteManifest \/ WriteCurve
  BY <1>7, <1>8 DEF WriteAudit, WriteManifest, WriteCurve
<1>9. CASE FilesAside /\ epochs' = epochs
  BY <1>7, <1>9 DEF FilesAside, fileVars
<1> QED
  BY <1>1, <1>4, <1>5, <1>6, <1>8, <1>9, FileSteps

\* No step opens a sealed manifest.
LEMMA ManifestInductive ==
    ASSUME MemoryInv, FileInv, [EduNext]_eduVars PROVE ManifestSeals'
<1>1. /\ ControlInv /\ run \in Nat /\ pol \in PolicyIndex /\ epo \in EpochIndex
  BY MaxRunsAssumption DEF MemoryInv, ControlInv
<1>2. CASE StartRun
  <2>1. run' = run + 1 /\ UNCHANGED <<manifest, answers, audit>>
    BY <1>2 DEF StartRun, fileVars
  <2>2. \A p \in PolicyIndex : manifest[p].run \in 0 .. run
    BY DEF FileInv, FileTypes
  <2>3. \A p \in PolicyIndex : manifest'[p].run # run'
    BY <1>1, <2>1, <2>2
  <2> QED
    BY <2>3 DEF ManifestSeals
<1>3. CASE WriteAnswers
  <2>1. PICK saw : answers' = [answers EXCEPT ![pol][epo] = [run |-> run, saw |-> saw]]
    BY <1>3, AnswersFromEpoch
  <2>2. UNCHANGED <<run, audit, manifest>>
    BY <1>3 DEF WriteAnswers
  <2>3. \A p \in PolicyIndex, e \in EpochIndex :
           answers[p][e].run = run => answers'[p][e].run = run
    BY <2>1 DEF FileInv, FileTypes
  <2> QED
    BY <2>2, <2>3 DEF FileInv, ManifestSeals
<1>4. CASE WriteAudit
  <2>1. audit' = [audit EXCEPT ![pol][epo] = run] /\ UNCHANGED <<run, answers, manifest>>
    BY <1>4 DEF WriteAudit
  <2>2. \A p \in PolicyIndex, e \in EpochIndex : audit[p][e] = run => audit'[p][e] = run
    BY <2>1 DEF FileInv, FileTypes
  <2> QED
    BY <2>1, <2>2 DEF FileInv, ManifestSeals
<1>5. CASE WriteManifest
  <2> DEFINE new == [run |-> run, stamps |-> [i \in DOMAIN epochs |-> epochs[i].asOf]]
  <2>1. /\ manifest' = [manifest EXCEPT ![pol] = new] /\ UNCHANGED <<run, answers, audit>>
        /\ stage = "manifest"
    BY <1>5 DEF WriteManifest
  <2>2. \A e \in EpochIndex : answers[pol][e].run = run /\ audit[pol][e] = run
    BY <1>1, <2>1 DEF FileInv, ProgressInv, AnswersWritten, AuditWritten
  <2>3. Len(new.stamps) = Len(Curriculum) + 1
    <3>1. DOMAIN epochs = 1 .. Len(Curriculum) + 1 /\ Len(Curriculum) + 1 \in Nat
      BY <1>1, <2>1, LessonItems DEF ControlInv, Writing
    <3> QED
      BY <3>1
  <2> HIDE DEF new
  <2>4. \A p \in PolicyIndex : manifest'[p] = IF p = pol THEN new ELSE manifest[p]
    BY <2>1 DEF FileInv, FileTypes
  <2>5. ASSUME NEW p \in PolicyIndex, run > 0, manifest'[p].run = run
        PROVE  /\ Len(manifest'[p].stamps) = Len(Curriculum) + 1
               /\ \A e \in EpochIndex : answers[p][e].run = run /\ audit[p][e] = run
    <3>1. CASE p = pol
      BY <2>2, <2>3, <2>4, <3>1
    <3>2. CASE p # pol
      BY <2>4, <2>5, <3>2 DEF FileInv, ManifestSeals
    <3> QED
      BY <3>1, <3>2
  <2> QED
    BY <2>1, <2>5 DEF ManifestSeals
<1>6. ASSUME UNCHANGED <<run, answers, audit, manifest>> PROVE ManifestSeals'
  BY <1>6 DEF FileInv, ManifestSeals
<1>7. CASE WriteCurve
  BY <1>6, <1>7 DEF WriteCurve
<1>8. CASE FilesAside
  BY <1>6, <1>8 DEF FilesAside, fileVars
<1> QED
  BY <1>1, <1>2, <1>3, <1>4, <1>5, <1>7, <1>8, FileSteps

\* No step takes from a row of the curve what it was graded on.
LEMMA CurveInductive ==
    ASSUME MemoryInv, FileInv, [EduNext]_eduVars PROVE CurveInv'
<1>1. ControlInv /\ KeepsPages /\ hlc \in Nat
  BY StoreStep DEF MemoryInv, PageInv
<1>2. CASE curve' = curve
  <2>1. ASSUME NEW p \in DOMAIN curve.rows, NEW e \in DOMAIN curve.rows[p]
        PROVE  /\ curve.rows[p][e].asOf \in 0 .. hlc'
               /\ hist'[curve.rows[p][e].asOf] = hist[curve.rows[p][e].asOf]
    BY <1>1 DEF FileInv, CurveInv, KeepsPages
  <2>2. CurveIsEarned'
    BY <1>2, <2>1 DEF FileInv, CurveInv, CurveIsEarned
  <2> QED
    BY <1>2, <2>1, <2>2 DEF CurveInv
<1>3. CASE WriteCurve
  <2>1. /\ curve'.run = run
        /\ curve'.rows = [p \in PolicyIndex |-> [e \in DOMAIN epochs |->
                             [asOf |-> epochs[e].asOf, live |-> epochs[e].live,
                              graded |-> answers[p][e]]]]
        /\ stage = "curve" /\ UNCHANGED <<hlc, hist>>
    BY <1>3 DEF WriteCurve, vars, storeVars
  <2>2. DOMAIN epochs = EpochIndex /\ DOMAIN epochs = 1 .. Len(epochs)
    BY <1>1, <2>1 DEF ControlInv, Writing, EpochIndex
  <2>3. ASSUME NEW p \in PolicyIndex, NEW e \in DOMAIN epochs
        PROVE  /\ epochs[e].asOf \in 0 .. hlc
               /\ answers[p][e].run = run
               /\ answers[p][e].saw \subseteq epochs[e].live
               /\ epochs[e].live \in Recall(hist[epochs[e].asOf], RecallLimit)
    <3>1. epochs[e].asOf \in 1 .. hlc /\ epochs[e].live = LiveKeys(hist[epochs[e].asOf])
      BY <2>2 DEF MemoryInv, EpochInv
    <3>2. answers[p][e].run = run
      BY <2>1, <2>2 DEF FileInv, ProgressInv, AnswersWritten
    <3>3. answers[p][e].saw \subseteq epochs[e].live
      BY <2>2, <3>2 DEF FileInv, ArmsShareMemory
    <3>4. LiveKeys(hist[epochs[e].asOf]) \in Recall(hist[epochs[e].asOf], RecallLimit)
      BY RecallReturnsAll
    <3> QED
      BY <1>1, <3>1, <3>2, <3>3, <3>4
  <2>4. ASSUME NEW p \in DOMAIN curve'.rows, NEW e \in DOMAIN curve'.rows[p]
        PROVE  /\ p \in PolicyIndex /\ e \in DOMAIN epochs
               /\ curve'.rows[p][e] = [asOf |-> epochs[e].asOf, live |-> epochs[e].live,
                                       graded |-> answers[p][e]]
    BY <2>1
  <2>5. ASSUME NEW p \in DOMAIN curve'.rows, NEW e \in DOMAIN curve'.rows[p]
        PROVE  /\ curve'.rows[p][e].asOf \in 0 .. hlc'
               /\ curve'.rows[p][e].graded.run = curve'.run
               /\ curve'.rows[p][e].graded.saw \subseteq curve'.rows[p][e].live
               /\ curve'.rows[p][e].live \in Recall(hist'[curve'.rows[p][e].asOf], RecallLimit)
    BY <2>1, <2>3, <2>4
  <2> QED
    BY <2>5 DEF CurveInv, CurveIsEarned, Recall, LiveKeys, LiveRows
<1>4. CASE StartRun \/ WriteAnswers \/ WriteAudit \/ WriteManifest \/ FilesAside
  BY <1>2, <1>4 DEF StartRun, WriteAnswers, WriteAudit, WriteManifest, FilesAside, fileVars
<1> QED
  BY <1>1, <1>3, <1>4, FileSteps

\* All that holds of the files.
LEMMA FilesCorrect == EduSpec => []FileInv
<1>1. EduInit => FileInv
  <2> SUFFICES ASSUME EduInit PROVE FileInv
    OBVIOUS
  <2>1. run = 0 /\ stage = "idle" /\ epochs = <<>>
    BY DEF EduInit
  <2>2. FileTypes
    BY EmptySeq DEF EduInit, FileTypes
  <2>3. ProgressInv
    BY <2>1 DEF ProgressInv, AnswersWritten, AuditWritten, Learning
  <2>4. ArmsShareMemory /\ ManifestSeals
    BY <2>1 DEF ArmsShareMemory, ManifestSeals
  <2>5. CurveInv
    BY DEF EduInit, CurveInv, CurveIsEarned
  <2> QED
    BY <2>2, <2>3, <2>4, <2>5 DEF FileInv
<1>2. MemoryInv /\ FileInv /\ [EduNext]_eduVars => FileInv'
  BY TypesInductive, ProgressInductive, ArmsInductive, ManifestInductive, CurveInductive
     DEF FileInv
<1> QED
  BY <1>1, <1>2, MemoryCorrect, PTL DEF EduSpec

\* Both arms of the exam sit on the same memory, for any number of policies.
THEOREM ArmsShareOneMemory == EduSpec => []ArmsShareMemory
<1>1. FileInv => ArmsShareMemory
  BY DEF FileInv
<1> QED
  BY <1>1, FilesCorrect, PTL

\* A manifest of the current run means that all its files are of that run,
\* wherever earlier runs died.
THEOREM ManifestsSeal == EduSpec => []ManifestSeals
<1>1. FileInv => ManifestSeals
  BY DEF FileInv
<1> QED
  BY <1>1, FilesCorrect, PTL

\* Every accuracy in eval/curve.json is the grade of answers that its own run
\* produced on the memory its row names.
THEOREM CurvesAreEarned == EduSpec => []CurveIsEarned
<1>1. FileInv => CurveIsEarned
  BY DEF FileInv, CurveInv
<1> QED
  BY <1>1, FilesCorrect, PTL

\* The type invariant of the run and its files.
THEOREM EducationTyped == EduSpec => []EduTypeOK
<1>1. MemoryInv /\ FileInv => EduTypeOK
  <2> SUFFICES ASSUME MemoryInv, FileInv PROVE EduTypeOK
    OBVIOUS
  <2>1. ControlInv /\ FileTypes /\ StampInv /\ hlc \in Nat
    BY DEF MemoryInv, FileInv, PageInv
  <2>2. epochs \in Seq([asOf : 1 .. hlc, live : SUBSET Key, taught : SUBSET Key])
    <3>1. /\ epochs \in Seq([asOf : Nat, live : SUBSET Key, taught : SUBSET Key])
          /\ Len(epochs) \in Nat /\ DOMAIN epochs = 1 .. Len(epochs)
      BY <2>1 DEF ControlInv
    <3>2. ASSUME NEW e \in 1 .. Len(epochs)
          PROVE  epochs[e] \in [asOf : 1 .. hlc, live : SUBSET Key, taught : SUBSET Key]
      <4>1. epochs[e] \in [asOf : Nat, live : SUBSET Key, taught : SUBSET Key]
        BY <3>1, ElementOfSeq
      <4>2. epochs[e].asOf \in 1 .. hlc
        BY DEF MemoryInv, EpochInv
      <4> QED
        BY <4>1, <4>2
    <3>3. epochs \in [1 .. Len(epochs) -> [asOf : 1 .. hlc, live : SUBSET Key, taught : SUBSET Key]]
      BY <3>1, <3>2
    <3> DEFINE record == [asOf : 1 .. hlc, live : SUBSET Key, taught : SUBSET Key]
    <3>4. epochs \in [1 .. Len(epochs) -> record]
      BY <3>3
    <3> HIDE DEF record
    <3>5. epochs \in Seq(record)
      BY <3>1, <3>4
    <3> QED
      BY <3>5 DEF record
  <2>3. stampAt \in 0 .. hlc
    BY <2>1 DEF ControlInv, StampInv
  <2>4. stage \in {"idle", "reset", "stamp", "recall", "teach", "answers", "audit",
                   "manifest", "curve", "done", "failed"}
    BY <2>1 DEF ControlInv, Learning, Writing
  <2>5. \A p \in PolicyIndex : manifest[p].run \in 0 .. run
    BY <2>1 DEF FileTypes
  <2> QED
    BY <2>1, <2>2, <2>3, <2>4, <2>5 DEF EduTypeOK, ControlInv, FileTypes
<1> QED
  BY <1>1, MemoryCorrect, FilesCorrect, PTL
=============================================================================
