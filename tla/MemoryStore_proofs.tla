------------------------- MODULE MemoryStore_proofs -------------------------
(***************************************************************************)
(* Proofs about MemoryStore for every set of keys, teaches and lessons and *)
(* every number of resets.  First the tables (what Supersede does to one), *)
(* then the types, then the invariants in the order they build on each     *)
(* other, then the action property and the refinement of RuleBook.         *)
(***************************************************************************)
EXTENDS MemoryStore, SequenceTheorems, TLAPS

-----------------------------------------------------------------------------
(* Tables *)

\* What holds of the rules table at instant ts, whatever happened before.
TableOK(tbl, ts) ==
    /\ DOMAIN tbl \subseteq 1 .. ts
    /\ tbl \in [DOMAIN tbl -> Row]
    /\ OneLive(tbl)
    /\ Chained(tbl)

\* What a SELECT of key k can hand to the UPDATE: its live row, or no row.
Victim(tbl, k) == IF LiveRows(tbl, k) = {} THEN {Null} ELSE LiveRows(tbl, k)

\* The table reset_memory leaves is in order.
LEMMA EmptyTable == ASSUME NEW ts \in Nat PROVE TableOK(Empty, ts)
BY DEF TableOK, Empty, OneLive, Chained

\* The table upsert_rule leaves has one row more, and holds rows.
LEMMA SupersedeTypes ==
    ASSUME NEW n \in Nat, NEW tbl, DOMAIN tbl \subseteq 1 .. n,
           tbl \in [DOMAIN tbl -> Row],
           NEW k \in Key, NEW e \in Nat, NEW v \in Nat
    PROVE  /\ DOMAIN Supersede(tbl, n + 1, k, e, v) = DOMAIN tbl \cup {n + 1}
           /\ Supersede(tbl, n + 1, k, e, v) \in [DOMAIN tbl \cup {n + 1} -> Row]
<1> DEFINE new == Supersede(tbl, n + 1, k, e, v)
<1>1. new[n + 1] \in Row
  BY DEF Supersede, Row, Null
<1>2. ASSUME NEW r \in DOMAIN tbl
      PROVE  new[r] \in Row
  BY DEF Supersede, Row
<1>3. DOMAIN new = DOMAIN tbl \cup {n + 1} /\ new = [r \in DOMAIN new |-> new[r]]
  BY DEF Supersede
<1> QED
  BY <1>1, <1>2, <1>3

\* Its new row: live, with the key and the evidence the upsert was called with.
LEMMA SupersedeNewRow ==
    ASSUME NEW n, NEW tbl, NEW k, NEW e, NEW v
    PROVE  /\ Supersede(tbl, n + 1, k, e, v)[n + 1].key = k
           /\ Supersede(tbl, n + 1, k, e, v)[n + 1].ev = e
           /\ Supersede(tbl, n + 1, k, e, v)[n + 1].sup = Null
BY DEF Supersede

\* Its old rows: unchanged but for the superseded_by of the victim.
LEMMA SupersedeOldRows ==
    ASSUME NEW n \in Nat, NEW tbl, DOMAIN tbl \subseteq 1 .. n,
           tbl \in [DOMAIN tbl -> Row],
           NEW k, NEW e, NEW v, NEW r \in DOMAIN tbl
    PROVE  /\ Supersede(tbl, n + 1, k, e, v)[r].key = tbl[r].key
           /\ Supersede(tbl, n + 1, k, e, v)[r].ev = tbl[r].ev
           /\ r # v => Supersede(tbl, n + 1, k, e, v)[r].sup = tbl[r].sup
           /\ r = v => Supersede(tbl, n + 1, k, e, v)[r].sup = n + 1
<1>1. r # n + 1 /\ tbl[r] \in Row
  BY SMT
<1>2. Supersede(tbl, n + 1, k, e, v)[r] =
          IF r = v THEN [tbl[r] EXCEPT !.sup = n + 1] ELSE tbl[r]
  BY <1>1 DEF Supersede
<1> QED
  BY <1>1, <1>2 DEF Row

\* After an upsert for k the new row alone is live for k; other keys keep theirs.
LEMMA SupersedeLive ==
    ASSUME NEW n \in Nat, NEW tbl, TableOK(tbl, n),
           NEW k \in Key, NEW e \in Nat, NEW v \in Victim(tbl, k)
    PROVE  /\ LiveRows(Supersede(tbl, n + 1, k, e, v), k) = {n + 1}
           /\ \A j : j # k =>
                 LiveRows(Supersede(tbl, n + 1, k, e, v), j) = LiveRows(tbl, j)
<1> DEFINE new == Supersede(tbl, n + 1, k, e, v)
<1>0. v \in Nat
  BY DEF Victim, LiveRows, TableOK, Null
<1>1. /\ DOMAIN new = DOMAIN tbl \cup {n + 1}
      /\ new[n + 1].key = k /\ new[n + 1].ev = e /\ new[n + 1].sup = Null
      /\ \A r \in DOMAIN tbl : /\ new[r].key = tbl[r].key
                               /\ new[r].ev = tbl[r].ev
                               /\ new[r].sup = IF r = v THEN n + 1 ELSE tbl[r].sup
      /\ new \in [DOMAIN tbl \cup {n + 1} -> Row]
  <2>1. n \in Nat /\ DOMAIN tbl \subseteq 1 .. n /\ tbl \in [DOMAIN tbl -> Row]
    BY DEF TableOK
  <2>2. /\ DOMAIN new = DOMAIN tbl \cup {n + 1}
        /\ new \in [DOMAIN tbl \cup {n + 1} -> Row]
    BY <1>0, <2>1, SupersedeTypes
  <2>3. new[n + 1].key = k /\ new[n + 1].ev = e /\ new[n + 1].sup = Null
    BY SupersedeNewRow
  <2>4. \A r \in DOMAIN tbl : /\ new[r].key = tbl[r].key
                              /\ new[r].ev = tbl[r].ev
                              /\ new[r].sup = IF r = v THEN n + 1 ELSE tbl[r].sup
    BY <2>1, SupersedeOldRows
  <2> QED
    BY <2>2, <2>3, <2>4
<1>2. /\ DOMAIN tbl \subseteq 1 .. n
      /\ tbl \in [DOMAIN tbl -> Row]
      /\ n + 1 \notin DOMAIN tbl
      /\ OneLive(tbl)
      /\ Chained(tbl)
  BY DEF TableOK
<1> HIDE DEF new
<1>3. LiveRows(new, k) = {n + 1}
  <2>1. ASSUME NEW r \in DOMAIN tbl, tbl[r].key = k, tbl[r].sup = Null
        PROVE  r = v
    <3>1. PICK l \in DOMAIN tbl : LiveRows(tbl, k) = {l}
      BY <1>2, <2>1 DEF OneLive
    <3>2. r \in LiveRows(tbl, k)
      BY <2>1 DEF LiveRows
    <3> QED
      BY <3>1, <3>2 DEF Victim
  <2>2. \A r \in DOMAIN tbl : ~(new[r].key = k /\ new[r].sup = Null)
    BY <1>1, <2>1 DEF Null
  <2> QED
    BY <1>1, <2>2 DEF LiveRows
<1>4. ASSUME NEW j, j # k
      PROVE  LiveRows(new, j) = LiveRows(tbl, j)
  <2>1. v \in DOMAIN tbl => tbl[v].key = k
    BY <1>2 DEF Victim, LiveRows, Null
  <2> QED
    BY <1>1, <1>2, <1>4, <2>1 DEF LiveRows
<1> QED
  BY <1>3, <1>4 DEF new

\* upsert_rule's transaction keeps a table in order, whichever key it is for.
LEMMA SupersedeKeepsTable ==
    ASSUME NEW n \in Nat, NEW tbl, TableOK(tbl, n),
           NEW k \in Key, NEW e \in Nat, NEW v \in Victim(tbl, k)
    PROVE  TableOK(Supersede(tbl, n + 1, k, e, v), n + 1)
<1> DEFINE new == Supersede(tbl, n + 1, k, e, v)
<1>0. v \in Nat
  BY DEF Victim, LiveRows, TableOK, Null
<1>1. /\ DOMAIN new = DOMAIN tbl \cup {n + 1}
      /\ new[n + 1].key = k /\ new[n + 1].ev = e /\ new[n + 1].sup = Null
      /\ \A r \in DOMAIN tbl : /\ new[r].key = tbl[r].key
                               /\ new[r].ev = tbl[r].ev
                               /\ new[r].sup = IF r = v THEN n + 1 ELSE tbl[r].sup
      /\ new \in [DOMAIN tbl \cup {n + 1} -> Row]
  <2>1. n \in Nat /\ DOMAIN tbl \subseteq 1 .. n /\ tbl \in [DOMAIN tbl -> Row]
    BY DEF TableOK
  <2>2. /\ DOMAIN new = DOMAIN tbl \cup {n + 1}
        /\ new \in [DOMAIN tbl \cup {n + 1} -> Row]
    BY <1>0, <2>1, SupersedeTypes
  <2>3. new[n + 1].key = k /\ new[n + 1].ev = e /\ new[n + 1].sup = Null
    BY SupersedeNewRow
  <2>4. \A r \in DOMAIN tbl : /\ new[r].key = tbl[r].key
                              /\ new[r].ev = tbl[r].ev
                              /\ new[r].sup = IF r = v THEN n + 1 ELSE tbl[r].sup
    BY <2>1, SupersedeOldRows
  <2> QED
    BY <2>2, <2>3, <2>4
<1>2. /\ DOMAIN tbl \subseteq 1 .. n
      /\ tbl \in [DOMAIN tbl -> Row]
      /\ n + 1 \notin DOMAIN tbl
      /\ OneLive(tbl)
      /\ Chained(tbl)
  BY DEF TableOK
<1> HIDE DEF new
<1>3. LiveRows(new, k) = {n + 1} /\ \A j : j # k => LiveRows(new, j) = LiveRows(tbl, j)
  BY SupersedeLive DEF new
<1>5. OneLive(new)
  <2> SUFFICES ASSUME NEW r \in DOMAIN new
               PROVE  \E l \in DOMAIN new : LiveRows(new, new[r].key) = {l}
    BY DEF OneLive
  <2>1. CASE new[r].key = k
    BY <2>1, <1>1, <1>3
  <2>2. CASE new[r].key # k
    <3>1. r \in DOMAIN tbl /\ new[r].key = tbl[r].key
      BY <1>1, <2>2
    <3> QED
      BY <3>1, <2>2, <1>1, <1>2, <1>3 DEF OneLive
  <2> QED
    BY <2>1, <2>2
<1>6. Chained(new)
  <2> SUFFICES ASSUME NEW r \in DOMAIN new, new[r].sup # Null
               PROVE  /\ new[r].sup \in DOMAIN new
                      /\ new[r].sup > r
                      /\ new[new[r].sup].key = new[r].key
                      /\ \A q \in DOMAIN new : new[q].sup = new[r].sup => q = r
    BY DEF Chained
  <2>1. r \in DOMAIN tbl
    BY <1>1
  <2>2. CASE r = v
    <3>1. tbl[r].key = k
      BY <2>1, <2>2, <1>2 DEF Victim, LiveRows, Null
    <3>2. new[r].sup = n + 1 /\ n + 1 > r
      BY <1>1, <1>2, <2>1, <2>2
    <3>3. ASSUME NEW q \in DOMAIN new, new[q].sup = n + 1
          PROVE  q = r
      <4>1. q \in DOMAIN tbl
        BY <3>3, <1>1 DEF Null
      <4>2. CASE q # v
        <5>1. tbl[q].sup = n + 1
          BY <4>1, <4>2, <3>3, <1>1
        <5> QED
          BY <5>1, <4>1, <1>2 DEF Chained, Null
      <4> QED
        BY <4>2, <2>2
    <3> QED
      BY <3>1, <3>2, <3>3, <1>1, <2>1
  <2>3. CASE r # v
    <3>1. new[r].sup = tbl[r].sup /\ tbl[r].sup \in DOMAIN tbl
      BY <1>1, <1>2, <2>1, <2>3 DEF Chained
    <3>2. /\ tbl[r].sup > r
          /\ tbl[tbl[r].sup].key = tbl[r].key
      BY <1>2, <3>1, <2>1 DEF Chained
    <3>3. ASSUME NEW q \in DOMAIN new, new[q].sup = tbl[r].sup
          PROVE  q = r
      <4>1. q \in DOMAIN tbl /\ q # v
        BY <3>3, <3>1, <1>1, <1>2
      <4> QED
        BY <4>1, <3>3, <3>1, <2>1, <1>1, <1>2 DEF Chained
    <3> QED
      BY <3>1, <3>2, <3>3, <1>1, <2>1
  <2> QED
    BY <2>2, <2>3
<1>7. DOMAIN new \subseteq 1 .. n + 1
  BY <1>1, <1>2
<1> QED
  BY <1>1, <1>5, <1>6, <1>7 DEF TableOK, new

-----------------------------------------------------------------------------
(* Types *)

\* A commit keeps the types of the store, whichever table it leaves.
LEMMA CommitTypes ==
    ASSUME TypeOK, NEW tbl, NEW eps, Commit(tbl, eps),
           DOMAIN tbl \subseteq 1 .. hlc + 1, tbl \in [DOMAIN tbl -> Row],
           eps \subseteq 1 .. hlc + 1
    PROVE  /\ hlc' = hlc + 1
           /\ hlc' \in Nat
           /\ DOMAIN rules' \subseteq 1 .. hlc'
           /\ rules' \in [DOMAIN rules' -> Row]
           /\ episodes' \subseteq 1 .. hlc'
           /\ DOMAIN hist' = 0 .. hlc'
BY DEF TypeOK, Commit

\* TypeOK is not inductive alone: the key an upsert commits is the head of a
\* sequence that must not be empty.
TypeInv ==
    /\ TypeOK
    /\ \A t \in Teacher : pc[t] = "commit" => todo[t] # <<>>

\* What a teach's transaction commits, and that it is for a key.
LEMMA UpsertCommits ==
    ASSUME TypeInv, NEW t \in Teacher, CommitUpsert(t)
    PROVE  /\ Head(todo[t]) \in Key
           /\ ep[t] \in Nat
           /\ \E v \in Victim(rules, Head(todo[t])) :
                 /\ v \in Nat
                 /\ Commit(Supersede(rules, hlc + 1, Head(todo[t]), ep[t], v), episodes)
<1>1. todo[t] \in Seq(Key) /\ todo[t] # <<>>
  BY DEF TypeInv, TypeOK, CommitUpsert, EvidenceOnRecord, ReadIsCurrent
<1>2. Head(todo[t]) \in Key
  BY <1>1, HeadTailProperties
<1>3. ep[t] \in Nat
  BY DEF TypeInv, TypeOK
<1>4. seen[t] \in SUBSET (1 .. hlc) /\ hlc \in Nat
  BY DEF TypeInv, TypeOK
<1>5. PICK v \in IF seen[t] = {} THEN {Null} ELSE seen[t] :
            Commit(Supersede(rules, hlc + 1, Head(todo[t]), ep[t], v), episodes)
  BY DEF CommitUpsert, EvidenceOnRecord, ReadIsCurrent
<1>6. v \in Victim(rules, Head(todo[t]))
  BY <1>5 DEF CommitUpsert, EvidenceOnRecord, ReadIsCurrent, Victim
<1>7. v \in Nat
  BY <1>4, <1>5 DEF Null
<1> QED
  BY <1>2, <1>3, <1>5, <1>6, <1>7

\* The initial state and every action keep the types.
LEMMA TypeInvInductive ==
    /\ Init => TypeInv
    /\ TypeInv /\ [Next]_vars => TypeInv'
<1>1. Init => TypeInv
  <2> SUFFICES ASSUME Init PROVE TypeInv
    OBVIOUS
  <2> QED
    BY MaxWipesAssumption DEF Init, TypeInv, TypeOK, Empty, Null
<1>2. TypeInv /\ [Next]_vars => TypeInv'
  <2> SUFFICES ASSUME TypeInv, [Next]_vars PROVE TypeInv'
    OBVIOUS
  <2> USE DEF TypeInv, teachVars, resetVars, storeVars
  <2>1. ASSUME NEW t \in Teacher, RecordEpisode(t) PROVE TypeInv'
    <3>1. Commit(rules, episodes \cup {hlc + 1})
      BY <2>1 DEF RecordEpisode
    <3>2. /\ hlc' = hlc + 1 /\ hlc' \in Nat
          /\ DOMAIN rules' \subseteq 1 .. hlc'
          /\ rules' \in [DOMAIN rules' -> Row]
          /\ episodes' \subseteq 1 .. hlc'
          /\ DOMAIN hist' = 0 .. hlc'
      <4>1. /\ DOMAIN rules \subseteq 1 .. hlc + 1
            /\ episodes \cup {hlc + 1} \subseteq 1 .. hlc + 1
            /\ rules \in [DOMAIN rules -> Row]
        BY DEF TypeOK
      <4> QED
        BY <3>1, <4>1, CommitTypes
    <3>3. todo' \in [Teacher -> Seq(Key)]
      BY <2>1, LessonAssumption DEF RecordEpisode, TypeOK
    <3>4. /\ pc' \in [Teacher -> {"distill", "select", "commit", "done", "failed"}]
          /\ \A u \in Teacher : pc'[u] = "commit" => todo'[u] # <<>>
      BY <2>1 DEF RecordEpisode, TypeOK
    <3>5. ep' \in [Teacher -> 0 .. hlc']
      BY <2>1, <3>2 DEF RecordEpisode, TypeOK
    <3> QED
      BY <2>1, <3>2, <3>3, <3>4, <3>5 DEF RecordEpisode, TypeOK
  <2>2. ASSUME NEW t \in Teacher, SelectLive(t) PROVE TypeInv'
    <3>1. seen' \in [Teacher -> SUBSET (1 .. hlc)]
      BY <2>2 DEF SelectLive, TypeOK, LiveRows
    <3> QED
      BY <2>2, <3>1 DEF SelectLive, TypeOK
  <2>3. ASSUME NEW t \in Teacher, CommitUpsert(t) PROVE TypeInv'
    <3>1. /\ Head(todo[t]) \in Key
          /\ ep[t] \in Nat
      BY <2>3, UpsertCommits
    <3>2. PICK v \in Nat : Commit(Supersede(rules, hlc + 1, Head(todo[t]), ep[t], v), episodes)
      BY <2>3, UpsertCommits
    <3>3. LET tbl == Supersede(rules, hlc + 1, Head(todo[t]), ep[t], v)
          IN  /\ DOMAIN tbl \subseteq 1 .. hlc + 1
              /\ tbl \in [DOMAIN tbl -> Row]
      <4>1. hlc \in Nat /\ DOMAIN rules \subseteq 1 .. hlc /\ rules \in [DOMAIN rules -> Row]
        BY DEF TypeOK
      <4> DEFINE tbl == Supersede(rules, hlc + 1, Head(todo[t]), ep[t], v)
      <4>2. /\ DOMAIN tbl = DOMAIN rules \cup {hlc + 1}
            /\ tbl \in [DOMAIN rules \cup {hlc + 1} -> Row]
        BY <3>1, <4>1, SupersedeTypes
      <4> HIDE DEF tbl
      <4>3. DOMAIN tbl \subseteq 1 .. hlc + 1 /\ tbl \in [DOMAIN tbl -> Row]
        BY <4>1, <4>2
      <4> QED
        BY <4>3 DEF tbl
    <3>4. /\ hlc' = hlc + 1 /\ hlc' \in Nat
          /\ DOMAIN rules' \subseteq 1 .. hlc'
          /\ rules' \in [DOMAIN rules' -> Row]
          /\ episodes' \subseteq 1 .. hlc'
          /\ DOMAIN hist' = 0 .. hlc'
      <4>1. episodes \subseteq 1 .. hlc + 1
        BY DEF TypeOK
      <4> QED
        BY <3>2, <3>3, <4>1, CommitTypes
    <3>5. todo' \in [Teacher -> Seq(Key)]
      <4>1. todo[t] \in Seq(Key) /\ todo[t] # <<>>
        BY <2>3 DEF CommitUpsert, EvidenceOnRecord, ReadIsCurrent, TypeOK
      <4>2. Tail(todo[t]) \in Seq(Key)
        BY <4>1, HeadTailProperties
      <4> QED
        BY <2>3, <4>2 DEF CommitUpsert, EvidenceOnRecord, ReadIsCurrent, TypeOK
    <3>6. /\ pc' \in [Teacher -> {"distill", "select", "commit", "done", "failed"}]
          /\ \A u \in Teacher : pc'[u] = "commit" => todo'[u] # <<>>
      BY <2>3 DEF CommitUpsert, EvidenceOnRecord, ReadIsCurrent, TypeOK
    <3>7. made' \in [Teacher -> SUBSET (1 .. hlc')]
      BY <2>3, <3>4 DEF CommitUpsert, EvidenceOnRecord, ReadIsCurrent, TypeOK
    <3> QED
      BY <2>3, <3>4, <3>5, <3>6, <3>7 DEF CommitUpsert, EvidenceOnRecord, ReadIsCurrent, TypeOK
  <2>4. ASSUME NEW t \in Teacher, Report(t) PROVE TypeInv'
    BY <2>4 DEF Report, TypeOK, ClusterNow
  <2>5. ASSUME NEW t \in Teacher, Raise(t) PROVE TypeInv'
    BY <2>5 DEF Raise, TypeOK
  <2>6. ASSUME WipeMemory PROVE TypeInv'
    <3>1. Commit(Empty, {})
      BY <2>6 DEF WipeMemory
    <3>2. /\ hlc' = hlc + 1 /\ hlc' \in Nat
          /\ DOMAIN rules' \subseteq 1 .. hlc'
          /\ rules' \in [DOMAIN rules' -> Row]
          /\ episodes' \subseteq 1 .. hlc'
          /\ DOMAIN hist' = 0 .. hlc'
      BY <3>1, CommitTypes DEF Empty
    <3>3. wipes' \in 0 .. MaxWipes /\ wipedAt' \in 0 .. hlc'
      BY <2>6, <3>2, MaxWipesAssumption DEF WipeMemory, TypeOK
    <3> QED
      BY <2>6, <3>2, <3>3 DEF WipeMemory, TypeOK
  <2>7. ASSUME StampZero PROVE TypeInv'
    BY <2>7 DEF StampZero, TypeOK, ClusterNow
  <2>8. CASE UNCHANGED vars
    BY <2>8 DEF vars, TypeOK
  <2> QED
    BY <2>1, <2>2, <2>3, <2>4, <2>5, <2>6, <2>7, <2>8 DEF Next, Teach
<1> QED
  BY <1>1, <1>2

\* Every variable of the store, the teaches and the reset keeps its type.
THEOREM TypeCorrect == Spec => []TypeOK
<1>1. TypeInv => TypeOK
  BY DEF TypeInv
<1> QED
  BY <1>1, TypeInvInductive, PTL DEF Spec

-----------------------------------------------------------------------------
(* Snapshots *)

\* The newest snapshot is the table, and every snapshot is in order.
StoreInv ==
    /\ hist[hlc] = rules
    /\ \A ts \in 0 .. hlc : TableOK(hist[ts], ts)

\* A commit adds one snapshot and leaves the others as they were.
LEMMA CommitAddsSnapshot ==
    ASSUME TypeInv, NEW tbl, NEW eps, Commit(tbl, eps)
    PROVE  /\ hlc' = hlc + 1
           /\ hist'[hlc'] = tbl
           /\ rules' = tbl
           /\ \A ts \in 0 .. hlc : hist'[ts] = hist[ts]
BY DEF TypeInv, TypeOK, Commit

\* A commit that leaves a table in order keeps the invariant.
LEMMA CommitKeepsStore ==
    ASSUME TypeInv, StoreInv, NEW tbl, NEW eps, Commit(tbl, eps), TableOK(tbl, hlc + 1)
    PROVE  StoreInv'
<1>1. /\ hlc' = hlc + 1
      /\ hist'[hlc'] = tbl
      /\ rules' = tbl
      /\ \A ts \in 0 .. hlc : hist'[ts] = hist[ts]
  BY CommitAddsSnapshot
<1>2. hlc \in Nat
  BY DEF TypeInv, TypeOK
<1>3. ASSUME NEW ts \in 0 .. hlc' PROVE TableOK(hist'[ts], ts)
  <2>1. CASE ts = hlc + 1
    BY <1>1, <2>1
  <2>2. CASE ts # hlc + 1
    <3>1. ts \in 0 .. hlc
      BY <1>1, <1>2, <2>2
    <3> QED
      BY <1>1, <3>1 DEF StoreInv
  <2> QED
    BY <2>1, <2>2
<1>4. hist'[hlc'] = rules'
  BY <1>1
<1> QED
  BY <1>3, <1>4 DEF StoreInv

\* What is in order at an instant is in order at the next one.
LEMMA TableLater == ASSUME NEW n \in Nat, NEW tbl, TableOK(tbl, n) PROVE TableOK(tbl, n + 1)
BY DEF TableOK

\* Every action keeps every snapshot in order.
LEMMA StoreInvInductive ==
    /\ Init => StoreInv
    /\ TypeInv /\ StoreInv /\ [Next]_vars => StoreInv'
<1>1. Init => StoreInv
  BY EmptyTable DEF Init, StoreInv
<1>2. TypeInv /\ StoreInv /\ [Next]_vars => StoreInv'
  <2> SUFFICES ASSUME TypeInv, StoreInv, [Next]_vars PROVE StoreInv'
    OBVIOUS
  <2>0. hlc \in Nat /\ TableOK(rules, hlc)
    BY DEF TypeInv, TypeOK, StoreInv
  <2>1. ASSUME NEW t \in Teacher, RecordEpisode(t) PROVE StoreInv'
    BY <2>0, <2>1, TableLater, CommitKeepsStore DEF RecordEpisode
  <2>2. ASSUME NEW t \in Teacher, CommitUpsert(t) PROVE StoreInv'
    <3>1. Head(todo[t]) \in Key /\ ep[t] \in Nat
      BY <2>2, UpsertCommits
    <3>2. PICK v \in Victim(rules, Head(todo[t])) :
              Commit(Supersede(rules, hlc + 1, Head(todo[t]), ep[t], v), episodes)
      BY <2>2, UpsertCommits
    <3>3. TableOK(Supersede(rules, hlc + 1, Head(todo[t]), ep[t], v), hlc + 1)
      BY <2>0, <3>1, <3>2, SupersedeKeepsTable
    <3> QED
      BY <3>2, <3>3, CommitKeepsStore
  <2>3. ASSUME WipeMemory PROVE StoreInv'
    <3>1. Commit(Empty, {}) /\ TableOK(Empty, hlc + 1)
      BY <2>0, <2>3, EmptyTable DEF WipeMemory
    <3> QED
      BY <3>1, CommitKeepsStore
  <2>4. ASSUME UNCHANGED storeVars PROVE StoreInv'
    BY <2>4 DEF storeVars, StoreInv
  <2>5. ASSUME NEW t \in Teacher, SelectLive(t) \/ Report(t) \/ Raise(t)
        PROVE  UNCHANGED storeVars
    BY <2>5 DEF SelectLive, Report, Raise, ClusterNow
  <2>6. (StampZero \/ UNCHANGED vars) => UNCHANGED storeVars
    BY DEF StampZero, vars, ClusterNow
  <2> QED
    BY <2>1, <2>2, <2>3, <2>4, <2>5, <2>6 DEF Next, Teach
<1> QED
  BY <1>1, <1>2

\* Types and snapshots are invariants of the specification.
LEMMA StoreCorrect == Spec => [](TypeInv /\ StoreInv)
<1>1. Init => TypeInv /\ StoreInv
  BY TypeInvInductive, StoreInvInductive
<1>2. (TypeInv /\ StoreInv) /\ [Next]_vars => (TypeInv /\ StoreInv)'
  BY TypeInvInductive, StoreInvInductive
<1> QED
  BY <1>1, <1>2, PTL DEF Spec

\* At every instant every key with a row has exactly one live row, for any
\* number of concurrent teaches, resets and failures.
THEOREM OneLiveRulePerKey == Spec => []ExactlyOneLive
<1>1. TypeInv /\ StoreInv => ExactlyOneLive
  BY DEF TypeInv, TypeOK, StoreInv, TableOK, ExactlyOneLive
<1> QED
  BY <1>1, StoreCorrect, PTL

\* At every instant superseded_by links the rows of a key into one line.
THEOREM SupersessionIsLinear == Spec => []LinearSupersession
<1>1. TypeInv /\ StoreInv => LinearSupersession
  BY DEF TypeInv, TypeOK, StoreInv, TableOK, LinearSupersession
<1> QED
  BY <1>1, StoreCorrect, PTL

-----------------------------------------------------------------------------
(* Lessons, receipts and resets *)

\* NoLessonCrossesAReset needs to know that a teach starts with no rule.
LessonInv ==
    /\ NoLessonCrossesAReset
    /\ \A t \in Teacher : pc[t] = "distill" => made[t] = {}

\* The rows upsert_rule leaves: those that were there, and its own.
LEMMA UpsertDomain ==
    ASSUME TypeInv, NEW t \in Teacher, CommitUpsert(t)
    PROVE  /\ DOMAIN rules' = DOMAIN rules \cup {hlc + 1}
           /\ episodes' = episodes
           /\ hlc' = hlc + 1
<1>1. PICK v : Commit(Supersede(rules, hlc + 1, Head(todo[t]), ep[t], v), episodes)
  BY DEF CommitUpsert, EvidenceOnRecord, ReadIsCurrent
<1>2. DOMAIN Supersede(rules, hlc + 1, Head(todo[t]), ep[t], v) = DOMAIN rules \cup {hlc + 1}
  BY DEF Supersede
<1> QED
  BY <1>1, <1>2 DEF Commit

\* Rules and their evidence share one fate in every action.
LEMMA LessonInvInductive ==
    /\ Init => LessonInv
    /\ TypeInv /\ LessonInv /\ [Next]_vars => LessonInv'
<1>1. Init => LessonInv
  BY DEF Init, LessonInv, NoLessonCrossesAReset
<1>2. TypeInv /\ LessonInv /\ [Next]_vars => LessonInv'
  <2> SUFFICES ASSUME TypeInv, LessonInv, [Next]_vars PROVE LessonInv'
    OBVIOUS
  <2>0. /\ hlc \in Nat
        /\ DOMAIN rules \subseteq 1 .. hlc
        /\ episodes \subseteq 1 .. hlc
        /\ ep \in [Teacher -> 0 .. hlc]
        /\ made \in [Teacher -> SUBSET (1 .. hlc)]
        /\ pc \in [Teacher -> {"distill", "select", "commit", "done", "failed"}]
    BY DEF TypeInv, TypeOK
  <2> USE DEF LessonInv, NoLessonCrossesAReset
  <2>1. ASSUME NEW t \in Teacher, RecordEpisode(t) PROVE LessonInv'
    <3>1. rules' = rules /\ episodes' = episodes \cup {hlc + 1}
      BY <2>1 DEF RecordEpisode, Commit
    <3>2. /\ ep' = [ep EXCEPT ![t] = hlc + 1] /\ made' = made
          /\ pc' = [pc EXCEPT ![t] = "select"] /\ pc[t] = "distill"
      BY <2>1 DEF RecordEpisode
    <3>3. ASSUME NEW u \in Teacher
          PROVE  IF ep'[u] \in episodes' THEN made'[u] \subseteq DOMAIN rules'
                                         ELSE made'[u] \cap DOMAIN rules' = {}
      <4>1. CASE u = t
        BY <2>0, <3>1, <3>2, <4>1
      <4>2. CASE u # t
        BY <2>0, <3>1, <3>2, <4>2
      <4> QED
        BY <4>1, <4>2
    <3> QED
      BY <2>0, <3>2, <3>3
  <2>2. ASSUME NEW t \in Teacher, CommitUpsert(t) PROVE LessonInv'
    <3>1. DOMAIN rules' = DOMAIN rules \cup {hlc + 1} /\ episodes' = episodes
      BY <2>2, UpsertDomain
    <3>2. /\ ep' = ep /\ ep[t] \in episodes
          /\ made' = [made EXCEPT ![t] = made[t] \cup {hlc + 1}]
          /\ pc' = [pc EXCEPT ![t] = "select"]
      BY <2>2 DEF CommitUpsert, EvidenceOnRecord, ReadIsCurrent
    <3>3. ASSUME NEW u \in Teacher
          PROVE  IF ep'[u] \in episodes' THEN made'[u] \subseteq DOMAIN rules'
                                         ELSE made'[u] \cap DOMAIN rules' = {}
      <4>1. CASE u = t
        BY <2>0, <3>1, <3>2, <4>1
      <4>2. CASE u # t
        BY <2>0, <3>1, <3>2, <4>2
      <4> QED
        BY <4>1, <4>2
    <3> QED
      BY <2>0, <3>2, <3>3
  <2>3. ASSUME WipeMemory PROVE LessonInv'
    BY <2>3 DEF WipeMemory, Commit, Empty, teachVars
  <2>4. ASSUME NEW t \in Teacher, SelectLive(t) \/ Report(t) \/ Raise(t) PROVE LessonInv'
    <3>1. UNCHANGED <<storeVars, ep, made>>
      BY <2>4 DEF SelectLive, Report, Raise, ClusterNow
    <3>2. \A u \in Teacher : pc'[u] = "distill" => pc[u] = "distill"
      BY <2>0, <2>4 DEF SelectLive, Report, Raise, ClusterNow
    <3> QED
      BY <3>1, <3>2 DEF storeVars
  <2>5. CASE StampZero \/ UNCHANGED vars
    BY <2>5 DEF StampZero, vars, storeVars, teachVars, ClusterNow
  <2> QED
    BY <2>1, <2>2, <2>3, <2>4, <2>5 DEF Next, Teach
<1> QED
  BY <1>1, <1>2

\* No action rewrites a snapshot: time only appends.
LEMMA PastIsFixed ==
    ASSUME TypeInv, [Next]_vars
    PROVE  \A ts \in 0 .. hlc : hist'[ts] = hist[ts]
<1>1. ASSUME NEW t \in Teacher, RecordEpisode(t) PROVE \A ts \in 0 .. hlc : hist'[ts] = hist[ts]
  BY <1>1, CommitAddsSnapshot DEF RecordEpisode
<1>2. ASSUME NEW t \in Teacher, CommitUpsert(t) PROVE \A ts \in 0 .. hlc : hist'[ts] = hist[ts]
  <2>1. PICK v : Commit(Supersede(rules, hlc + 1, Head(todo[t]), ep[t], v), episodes)
    BY <1>2 DEF CommitUpsert, EvidenceOnRecord, ReadIsCurrent
  <2> QED
    BY <2>1, CommitAddsSnapshot
<1>3. ASSUME WipeMemory PROVE \A ts \in 0 .. hlc : hist'[ts] = hist[ts]
  BY <1>3, CommitAddsSnapshot DEF WipeMemory
<1>4. ASSUME NEW t \in Teacher, SelectLive(t) \/ Report(t) \/ Raise(t) PROVE hist' = hist
  BY <1>4 DEF SelectLive, Report, Raise, storeVars, ClusterNow
<1>5. StampZero \/ UNCHANGED vars => hist' = hist
  BY DEF StampZero, vars, storeVars, ClusterNow
<1> QED
  BY <1>1, <1>2, <1>3, <1>4, <1>5 DEF Next, Teach

\* A report, once made, keeps showing what it showed.
LEMMA ReceiptInductive ==
    /\ Init => ReceiptWhole
    /\ TypeInv /\ StoreInv /\ LessonInv /\ ReceiptWhole /\ [Next]_vars => ReceiptWhole'
<1>1. Init => ReceiptWhole
  BY DEF Init, ReceiptWhole
<1>2. TypeInv /\ StoreInv /\ LessonInv /\ ReceiptWhole /\ [Next]_vars => ReceiptWhole'
  <2> SUFFICES ASSUME TypeInv, StoreInv, LessonInv, ReceiptWhole, [Next]_vars,
                      NEW u \in Teacher, pc'[u] = "done"
               PROVE  \/ made'[u] \subseteq DOMAIN hist'[asOf'[u]]
                      \/ made'[u] \cap DOMAIN hist'[asOf'[u]] = {}
    BY DEF ReceiptWhole
  <2>0. /\ hlc \in Nat
        /\ asOf \in [Teacher -> 0 .. hlc]
        /\ made \in [Teacher -> SUBSET (1 .. hlc)]
        /\ pc \in [Teacher -> {"distill", "select", "commit", "done", "failed"}]
    BY DEF TypeInv, TypeOK
  <2>1. CASE Report(u)
    <3>1. hist' = hist /\ made' = made /\ asOf'[u] = hlc
      BY <2>0, <2>1 DEF Report, storeVars, ClusterNow
    <3> QED
      BY <3>1 DEF StoreInv, LessonInv, NoLessonCrossesAReset
  <2>2. CASE ~Report(u)
    <3>1. pc[u] = "done" /\ made'[u] = made[u] /\ asOf'[u] = asOf[u]
      <4>1. ASSUME NEW t \in Teacher, t # u, Teach(t)
            PROVE  pc'[u] = pc[u] /\ made'[u] = made[u] /\ asOf'[u] = asOf[u]
        BY <2>0, <4>1 DEF Teach, RecordEpisode, SelectLive, CommitUpsert, EvidenceOnRecord, ReadIsCurrent, Report, Raise, ClusterNow
      <4>2. ASSUME RecordEpisode(u) \/ SelectLive(u) \/ CommitUpsert(u) \/ Raise(u)
            PROVE  FALSE
        BY <2>0, <4>2 DEF RecordEpisode, SelectLive, CommitUpsert, EvidenceOnRecord, ReadIsCurrent, Raise
      <4>3. ASSUME WipeMemory \/ StampZero \/ UNCHANGED vars
            PROVE  pc'[u] = pc[u] /\ made'[u] = made[u] /\ asOf'[u] = asOf[u]
        BY <4>3 DEF WipeMemory, StampZero, vars, teachVars, ClusterNow
      <4> QED
        BY <2>2, <4>1, <4>2, <4>3 DEF Next, Teach
    <3>2. hist'[asOf[u]] = hist[asOf[u]]
      BY <2>0, PastIsFixed
    <3> QED
      BY <3>1, <3>2 DEF ReceiptWhole
  <2> QED
    BY <2>1, <2>2
<1> QED
  BY <1>1, <1>2

\* While a reset is the last one, the table holds only rows younger than it.
ZeroInv ==
    /\ ZeroForgetsThePast
    /\ rpc # "idle" => \A r \in DOMAIN rules : r > wipedAt

\* The zero stamp never shows a row older than its reset.
LEMMA ZeroInvInductive ==
    /\ Init => ZeroInv
    /\ TypeInv /\ StoreInv /\ ZeroInv /\ [Next]_vars => ZeroInv'
<1>1. Init => ZeroInv
  BY DEF Init, ZeroInv, ZeroForgetsThePast
<1>2. TypeInv /\ StoreInv /\ ZeroInv /\ [Next]_vars => ZeroInv'
  <2> SUFFICES ASSUME TypeInv, StoreInv, ZeroInv, [Next]_vars PROVE ZeroInv'
    OBVIOUS
  <2>0. hlc \in Nat /\ wipedAt \in 0 .. hlc /\ zeroAt \in 0 .. hlc
    BY DEF TypeInv, TypeOK
  <2>1. hist'[zeroAt] = hist[zeroAt]
    BY <2>0, PastIsFixed
  <2>2. ASSUME NEW t \in Teacher, Teach(t) PROVE ZeroInv'
    <3>1. UNCHANGED resetVars
      BY <2>2 DEF Teach, RecordEpisode, SelectLive, CommitUpsert, EvidenceOnRecord, ReadIsCurrent, Report, Raise, ClusterNow
    <3>2. rules' = rules \/ DOMAIN rules' = DOMAIN rules \cup {hlc + 1}
      BY <2>2, UpsertDomain
         DEF Teach, RecordEpisode, SelectLive, Report, Raise, Commit, storeVars, ClusterNow
    <3> QED
      BY <2>0, <2>1, <3>1, <3>2 DEF ZeroInv, ZeroForgetsThePast, resetVars
  <2>3. ASSUME WipeMemory PROVE ZeroInv'
    BY <2>3 DEF WipeMemory, Commit, Empty, ZeroInv, ZeroForgetsThePast
  <2>4. ASSUME StampZero PROVE ZeroInv'
    BY <2>4 DEF StampZero, storeVars, StoreInv, ZeroInv, ZeroForgetsThePast, ClusterNow
  <2>5. CASE UNCHANGED vars
    BY <2>1, <2>5 DEF vars, storeVars, resetVars, ZeroInv, ZeroForgetsThePast
  <2> QED
    BY <2>2, <2>3, <2>4, <2>5 DEF Next
<1> QED
  BY <1>1, <1>2

\* The inductive invariant: each part is inductive relative to the earlier ones.
IInv == TypeInv /\ StoreInv /\ LessonInv /\ ReceiptWhole /\ ZeroInv

\* The whole invariant holds of every behaviour.
LEMMA IInvCorrect == Spec => []IInv
<1>1. Init => IInv
  BY TypeInvInductive, StoreInvInductive, LessonInvInductive, ReceiptInductive,
     ZeroInvInductive DEF IInv
<1>2. IInv /\ [Next]_vars => IInv'
  BY TypeInvInductive, StoreInvInductive, LessonInvInductive, ReceiptInductive,
     ZeroInvInductive DEF IInv
<1> QED
  BY <1>1, <1>2, PTL DEF Spec

\* Rules stand and fall with the episode they were distilled from.
THEOREM EvidenceAndRulesShareOneFate == Spec => []NoLessonCrossesAReset
<1>1. IInv => NoLessonCrossesAReset
  BY DEF IInv, LessonInv
<1> QED
  BY <1>1, IInvCorrect, PTL

\* A teach's report is all or nothing as of its own stamp.
THEOREM ReceiptsAreWhole == Spec => []ReceiptWhole
<1>1. IInv => ReceiptWhole
  BY DEF IInv
<1> QED
  BY <1>1, IInvCorrect, PTL

\* memory_zero_as_of shows nothing older than its reset.
THEOREM ResetForgetsThePast == Spec => []ZeroForgetsThePast
<1>1. IInv => ZeroForgetsThePast
  BY DEF IInv, ZeroInv
<1> QED
  BY <1>1, IInvCorrect, PTL

-----------------------------------------------------------------------------
(* The audit trail *)

\* What a committed upsert does to the row the UPDATE may hit: it was live.
LEMMA UpsertKeepsTrail ==
    ASSUME TypeInv, NEW t \in Teacher, CommitUpsert(t)
    PROVE  KeepsTrail
<1>1. PICK v \in Victim(rules, Head(todo[t])) :
            Commit(Supersede(rules, hlc + 1, Head(todo[t]), ep[t], v), episodes)
  BY UpsertCommits
<1>2. rules' = Supersede(rules, hlc + 1, Head(todo[t]), ep[t], v)
  BY <1>1 DEF Commit
<1>3. DOMAIN rules' = DOMAIN rules \cup {hlc + 1}
  BY UpsertDomain
<1>4. hlc \in Nat /\ DOMAIN rules \subseteq 1 .. hlc /\ rules \in [DOMAIN rules -> Row]
  BY DEF TypeInv, TypeOK
<1>5. ASSUME NEW r \in DOMAIN rules
      PROVE  /\ r \in DOMAIN rules'
             /\ rules'[r].key = rules[r].key
             /\ rules'[r].ev = rules[r].ev
             /\ rules[r].sup # Null => rules'[r].sup = rules[r].sup
  <2>1. /\ rules'[r].key = rules[r].key
        /\ rules'[r].ev = rules[r].ev
        /\ r # v => rules'[r].sup = rules[r].sup
    BY <1>2, <1>4, SupersedeOldRows
  <2>2. r = v => rules[r].sup = Null
    BY <1>1, <1>4 DEF Victim, LiveRows, Null
  <2> QED
    BY <1>3, <2>1, <2>2
<1> QED
  BY <1>5 DEF KeepsTrail

\* No step of a client destroys the trail.
LEMMA StepsKeepTrail == IInv /\ [Next]_vars => [KeepsTrail]_vars
<1> SUFFICES ASSUME IInv, Next PROVE KeepsTrail
  OBVIOUS
<1>1. ASSUME NEW t \in Teacher, CommitUpsert(t) PROVE KeepsTrail
  BY <1>1, UpsertKeepsTrail DEF IInv
<1>2. ASSUME WipeMemory PROVE KeepsTrail
  BY <1>2 DEF WipeMemory, Commit, KeepsTrail
<1>3. ASSUME rules' = rules PROVE KeepsTrail
  BY <1>3 DEF KeepsTrail
<1>4. ASSUME NEW t \in Teacher, RecordEpisode(t) \/ SelectLive(t) \/ Report(t) \/ Raise(t)
      PROVE  rules' = rules
  BY <1>4 DEF RecordEpisode, Commit, SelectLive, Report, Raise, storeVars, ClusterNow
<1>5. StampZero => rules' = rules
  BY DEF StampZero, storeVars, ClusterNow
<1> QED
  BY <1>1, <1>2, <1>3, <1>4, <1>5 DEF Next, Teach

\* Rules are superseded, never edited or deleted, except by reset_memory.
THEOREM TrailIsKept == Spec => AuditTrail
BY StepsKeepTrail, IInvCorrect, PTL DEF Spec, AuditTrail

-----------------------------------------------------------------------------
(* Refinement of RuleBook *)

\* An upsert for k changes the current rule of k and of no other key.
LEMMA SupersedePage ==
    ASSUME NEW n \in Nat, NEW tbl, TableOK(tbl, n),
           NEW k \in Key, NEW e \in Nat, NEW v \in Victim(tbl, k)
    PROVE  PageOf(Supersede(tbl, n + 1, k, e, v)) = [PageOf(tbl) EXCEPT ![k] = n + 1]
<1> DEFINE new == Supersede(tbl, n + 1, k, e, v)
<1>1. LiveRows(new, k) = {n + 1} /\ \A j \in Key \ {k} : LiveRows(new, j) = LiveRows(tbl, j)
  BY SupersedeLive
<1> HIDE DEF new
<1>2. Current(new, k) = n + 1
  BY <1>1 DEF Current
<1>3. ASSUME NEW j \in Key \ {k} PROVE Current(new, j) = Current(tbl, j)
  <2>1. LiveRows(new, j) = LiveRows(tbl, j)
    BY <1>1
  <2> QED
    BY <2>1 DEF Current
<1>4. PageOf(new) = [PageOf(tbl) EXCEPT ![k] = n + 1]
  BY <1>2, <1>3 DEF PageOf
<1> QED
  BY <1>4 DEF new

\* A wiped table is a blank book.
LEMMA EmptyPage == PageOf(Empty) = [k \in Key |-> 0]
<1>1. \A k : LiveRows(Empty, k) = {}
  BY DEF LiveRows, Empty
<1> QED
  BY <1>1 DEF PageOf, Current, Null

\* A commit turns one page of the book.
LEMMA CommitTurnsPage ==
    ASSUME TypeInv, NEW tbl, NEW eps, Commit(tbl, eps)
    PROVE  Book!TurnPage(PageOf(tbl))
<1>1. /\ hlc' = hlc + 1
      /\ hist'[hlc'] = tbl
      /\ rules' = tbl
      /\ \A ts \in 0 .. hlc : hist'[ts] = hist[ts]
  BY CommitAddsSnapshot
<1>2. hlc \in Nat
  BY DEF TypeInv, TypeOK
<1>3. [ts \in 0 .. hlc' |-> PageOf(hist'[ts])] =
         [i \in 0 .. hlc + 1 |-> IF i = hlc + 1 THEN PageOf(tbl)
                                 ELSE [ts \in 0 .. hlc |-> PageOf(hist[ts])][i]]
  <2>1. ASSUME NEW i \in 0 .. hlc + 1, i # hlc + 1 PROVE i \in 0 .. hlc
    BY <1>2, <2>1
  <2> QED
    BY <1>1, <2>1
<1> QED
  BY <1>1, <1>3 DEF Book!TurnPage

\* An empty store is a blank book.
LEMMA StoreStartsBlank == Init => Book!Init
<1> SUFFICES ASSUME Init PROVE Book!Init
  OBVIOUS
<1>1. PageOf(rules) = [k \in Key |-> 0]
  BY EmptyPage DEF Init
<1>2. [ts \in 0 .. hlc |-> PageOf(hist[ts])] = [i \in {0} |-> [k \in Key |-> 0]]
  <2>1. hlc = 0 /\ hist[0] = Empty /\ 0 .. 0 = {0}
    BY DEF Init
  <2> QED
    BY <2>1, EmptyPage
<1> QED
  BY <1>1, <1>2 DEF Init, Book!Init, Book!Blank

\* Every step of a client turns one page of the book or none.
LEMMA StepsTurnPages == IInv /\ [Next]_vars => [Book!Next]_(Book!vars)
<1> SUFFICES ASSUME IInv, [Next]_vars PROVE Book!Next \/ UNCHANGED Book!vars
  BY DEF Book!vars
<1>0. TypeInv /\ StoreInv /\ hlc \in Nat /\ TableOK(rules, hlc)
  BY DEF IInv, TypeInv, TypeOK, StoreInv
<1>1. ASSUME NEW t \in Teacher, RecordEpisode(t) PROVE Book!Next
  BY <1>0, <1>1, CommitTurnsPage DEF RecordEpisode, Book!Next, Book!Elapse
<1>2. ASSUME NEW t \in Teacher, CommitUpsert(t) PROVE Book!Next
  <2>1. Head(todo[t]) \in Key /\ ep[t] \in Nat
    BY <1>0, <1>2, UpsertCommits
  <2>2. PICK v \in Victim(rules, Head(todo[t])) :
            Commit(Supersede(rules, hlc + 1, Head(todo[t]), ep[t], v), episodes)
    BY <1>0, <1>2, UpsertCommits
  <2>3. PageOf(Supersede(rules, hlc + 1, Head(todo[t]), ep[t], v)) =
            [PageOf(rules) EXCEPT ![Head(todo[t])] = hlc + 1]
    BY <1>0, <2>1, <2>2, SupersedePage
  <2>4. Book!TurnPage(PageOf(Supersede(rules, hlc + 1, Head(todo[t]), ep[t], v)))
    BY <1>0, <2>2, CommitTurnsPage
  <2>5. Book!Learn(Head(todo[t]))
    BY <2>3, <2>4 DEF Book!Learn
  <2> QED
    BY <2>1, <2>5 DEF Book!Next
<1>3. ASSUME WipeMemory PROVE Book!Next
  BY <1>0, <1>3, CommitTurnsPage, EmptyPage DEF WipeMemory, Book!Next, Book!Clear, Book!Blank
<1>4. ASSUME UNCHANGED storeVars PROVE UNCHANGED Book!vars
  BY <1>4 DEF storeVars, Book!vars
<1>5. ASSUME NEW t \in Teacher, SelectLive(t) \/ Report(t) \/ Raise(t)
      PROVE  UNCHANGED storeVars
  BY <1>5 DEF SelectLive, Report, Raise, ClusterNow
<1>6. (StampZero \/ UNCHANGED vars) => UNCHANGED storeVars
  BY DEF StampZero, vars, ClusterNow
<1> QED
  BY <1>1, <1>2, <1>3, <1>4, <1>5, <1>6 DEF Next, Teach

\* Concurrent teaches, failures and resets implement the rule book.
THEOREM ImplementsTheRuleBook == Spec => ImplementsRuleBook
BY StoreStartsBlank, StepsTurnPages, IInvCorrect, PTL DEF Spec, ImplementsRuleBook, Book!Spec
=============================================================================
