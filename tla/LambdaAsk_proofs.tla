--------------------------- MODULE LambdaAsk_proofs ---------------------------
(***************************************************************************)
(* The limits of a container, for any limits, containers, addresses and    *)
(* lengths of a day.                                                       *)
(*                                                                         *)
(* The daily spend: _daily_ok resets its count at the first request of a   *)
(* day, and a request it counted may generate after midnight: so what is   *)
(* spent today and what may still be is at most one more than the count if *)
(* the count is today's, and at most one if it is an earlier day's.        *)
(*                                                                         *)
(* The rate: a bucket is in order of arrival, so filtering it drops its    *)
(* first entries, and it always is the end of the log of what was let in,  *)
(* of which everything before it has expired.                              *)
(***************************************************************************)
EXTENDS LambdaAsk, FiniteSetTheorems, SequenceTheorems, WellFoundedInduction, TLAPS

\* A request that has been counted and may still generate.
Pending(at) == IF at \in {"parse", "ask"} THEN 1 ELSE 0

\* A container at statement `at` with this key and count, on day t, after spend.
Within(t, key, count, at, spend) ==
    /\ \A d \in Days : spend[d] <= DailyCap + 1
    /\ \A d \in Days : t < d => spend[d] = 0
    /\ key = NoDay \/ key <= t
    /\ key = t => count <= DailyCap /\ spend[t] + Pending(at) <= count + 1
    /\ key # t => spend[t] + Pending(at) <= 1

SpendTypes ==
    /\ now \in 0 .. MaxNow
    /\ pc \in [Container -> {"idle", "rate", "daily", "parse", "ask", "grade", "hung"}]
    /\ dayKey \in [Container -> Nat] /\ dayCount \in [Container -> Nat]
    /\ spent \in [Container -> [Days -> Nat]]

SpendInv ==
    /\ SpendTypes
    /\ \A c \in Container : Within(Today, dayKey[c], dayCount[c], pc[c], spent[c])

-----------------------------------------------------------------------------
(* Days *)

\* Integer division leaves less than the divisor.
LEMMA DivBounds ==
    ASSUME NEW a \in Nat, NEW u \in Nat \ {0}
    PROVE  a \div u \in Nat /\ (a \div u) * u <= a /\ a < (a \div u) * u + u /\ a \div u <= a
OBVIOUS

\* Days do not run backwards.
LEMMA DivMonotone ==
    ASSUME NEW a \in Nat, NEW b \in Nat, NEW u \in Nat \ {0}, a <= b
    PROVE  a \div u <= b \div u
<1> DEFINE p == a \div u
           q == b \div u
<1> SUFFICES ASSUME q + 1 <= p PROVE FALSE
  BY DivBounds
<1>1. p \in Nat /\ q \in Nat /\ p * u <= a /\ b < q * u + u
  BY DivBounds
<1> HIDE DEF p, q
<1>2. (q + 1) * u <= p * u /\ (q + 1) * u = q * u + u
  BY <1>1
<1> QED
  BY <1>1, <1>2

\* Today is a day, and no day is the one of a container that has counted none.
LEMMA TodayIsADay ==
    ASSUME now \in 0 .. MaxNow
    PROVE  Today \in Days /\ Today \in Nat /\ Days \subseteq Nat /\ NoDay \in Nat /\ NoDay \notin Days
<1>1. now \in Nat /\ MaxNow \in Nat /\ now <= MaxNow /\ DayLength \in Nat \ {0}
  BY BoundsAssumption, DayAssumption
<1>2. Today \in Nat /\ MaxNow \div DayLength \in Nat /\ Today <= MaxNow \div DayLength
      /\ MaxNow \div DayLength <= MaxNow
  BY <1>1, DivBounds, DivMonotone DEF Today
<1> QED
  BY <1>1, <1>2 DEF Days, NoDay

-----------------------------------------------------------------------------
\* A container starts with nothing counted, pending or spent.
LEMMA SpendInitially == Init => SpendInv
<1> SUFFICES ASSUME Init PROVE SpendInv
  OBVIOUS
<1>1. now = 0 /\ MaxNow \in Nat /\ DailyCap \in Nat
  BY BoundsAssumption, LimitsAssumption DEF Init
<1>2. Today \in Days /\ Days \subseteq Nat /\ NoDay \in Nat /\ NoDay \notin Days
  BY <1>1, TodayIsADay
<1>3. SpendTypes
  BY <1>1, <1>2 DEF Init, SpendTypes
<1>4. ASSUME NEW c \in Container PROVE Within(Today, NoDay, 0, "idle", [d \in Days |-> 0])
  BY <1>1, <1>2 DEF Within, Pending
<1> QED
  BY <1>3, <1>4 DEF Init, SpendInv

\* What other containers do does not matter.
LEMMA OthersKeepSpend ==
    ASSUME SpendInv, SpendTypes', UNCHANGED now, NEW c \in Container,
           \A o \in Container \ {c} :
              /\ pc'[o] = pc[o] /\ dayKey'[o] = dayKey[o]
              /\ dayCount'[o] = dayCount[o] /\ spent'[o] = spent[o],
           Within(Today, dayKey'[c], dayCount'[c], pc'[c], spent'[c])
    PROVE  SpendInv'
<1>1. Today' = Today
  BY DEF Today
<1>2. ASSUME NEW o \in Container PROVE Within(Today, dayKey'[o], dayCount'[o], pc'[o], spent'[o])
  BY DEF SpendInv
<1>3. ASSUME NEW o \in Container PROVE Within(Today, dayKey[o], dayCount[o], pc[o], spent[o])'
  BY <1>1, <1>2 DEF Within, NoDay, Days
<1> QED
  BY <1>3 DEF SpendInv

\* A step that counts nothing and pays for nothing.
LEMMA IdleStepsKeepSpend ==
    ASSUME SpendInv, NEW c \in Container, UNCHANGED <<now, dayKey, dayCount, spent>>,
           \E at \in {"idle", "rate", "daily", "ask", "grade", "hung"} :
              pc' = [pc EXCEPT ![c] = at] /\ (at = "ask" => pc[c] = "parse")
    PROVE  SpendInv'
<1>1. SpendTypes'
  BY DEF SpendInv, SpendTypes
<1>2. Pending(pc'[c]) <= Pending(pc[c]) /\ Pending(pc'[c]) \in {0, 1} /\ Pending(pc[c]) \in {0, 1}
  BY DEF Pending, SpendInv, SpendTypes
<1>3. Today \in Days /\ Today \in Nat /\ DailyCap \in Nat
  BY TodayIsADay, LimitsAssumption DEF SpendInv, SpendTypes
<1>4. spent[c] \in [Days -> Nat] /\ dayCount[c] \in Nat
  BY DEF SpendInv, SpendTypes
<1>5. Within(Today, dayKey[c], dayCount[c], pc[c], spent[c])
  BY DEF SpendInv
<1>6. Within(Today, dayKey'[c], dayCount'[c], pc'[c], spent'[c])
  BY <1>2, <1>3, <1>4, <1>5 DEF Within
<1>7. \A o \in Container \ {c} :
         pc'[o] = pc[o] /\ dayKey'[o] = dayKey[o] /\ dayCount'[o] = dayCount[o] /\ spent'[o] = spent[o]
  BY DEF SpendInv, SpendTypes
<1> QED
  BY <1>1, <1>6, <1>7, OthersKeepSpend

\* A request that is let in is pending, and counted on the day it is let in.
LEMMA DailyOkKeepsSpend == ASSUME SpendInv, NEW c \in Container, DailyOk(c) PROVE SpendInv'
<1> DEFINE count == CountToday(c)
<1>1. /\ Today \in Days /\ Today \in Nat /\ DailyCap \in Nat
      /\ spent[c] \in [Days -> Nat] /\ dayCount[c] \in Nat /\ count \in Nat
  BY TodayIsADay, LimitsAssumption DEF SpendInv, SpendTypes, CountToday
<1>2. /\ pc[c] = "daily" /\ dayKey' = [dayKey EXCEPT ![c] = Today]
      /\ UNCHANGED <<now, spent>>
      /\ \/ /\ count >= DailyCap
            /\ dayCount' = [dayCount EXCEPT ![c] = count]
            /\ pc' = [pc EXCEPT ![c] = "idle"]
         \/ /\ count < DailyCap
            /\ dayCount' = [dayCount EXCEPT ![c] = count + 1]
            /\ pc' = [pc EXCEPT ![c] = "parse"]
  <2>1. pc[c] = "daily" /\ dayKey' = [dayKey EXCEPT ![c] = Today] /\ UNCHANGED <<now, spent>>
    BY DEF DailyOk
  <2>2. CASE Exhausted(count)
    <3>1. dayCount' = [dayCount EXCEPT ![c] = count] /\ Answer(c, "error", "recorded", "cap")
      BY <2>2 DEF DailyOk
    <3> QED
      BY <2>1, <2>2, <3>1 DEF Exhausted, Answer, Returns
  <2>3. CASE ~Exhausted(count)
    <3>1. dayCount' = [dayCount EXCEPT ![c] = count + 1] /\ pc' = [pc EXCEPT ![c] = "parse"]
      BY <2>3 DEF DailyOk
    <3>2. count < DailyCap
      BY <1>1, <2>3 DEF Exhausted
    <3> QED
      BY <2>1, <3>1, <3>2
  <2> QED
    BY <2>2, <2>3
<1>3. Within(Today, dayKey[c], dayCount[c], "daily", spent[c])
  BY <1>2 DEF SpendInv
<1>4. count <= DailyCap /\ spent[c][Today] <= count + 1
  BY <1>1, <1>3 DEF Within, Pending, CountToday
<1> HIDE DEF count
<1>5. SpendTypes'
  BY <1>1, <1>2 DEF SpendInv, SpendTypes
<1>6. Within(Today, dayKey'[c], dayCount'[c], pc'[c], spent'[c])
  <2>1. dayKey'[c] = Today /\ spent'[c] = spent[c]
    BY <1>2 DEF SpendInv, SpendTypes
  <2>2. \/ dayCount'[c] = count /\ pc'[c] = "idle"
        \/ count < DailyCap /\ dayCount'[c] = count + 1 /\ pc'[c] = "parse"
    BY <1>2 DEF SpendInv, SpendTypes
  <2> QED
    BY <1>1, <1>3, <1>4, <2>1, <2>2 DEF Within, Pending
<1>7. \A o \in Container \ {c} :
         pc'[o] = pc[o] /\ dayKey'[o] = dayKey[o] /\ dayCount'[o] = dayCount[o] /\ spent'[o] = spent[o]
  BY <1>2 DEF SpendInv, SpendTypes
<1> QED
  BY <1>2, <1>5, <1>6, <1>7, OthersKeepSpend

\* A generation is spent on the day it happens and no longer pending.
LEMMA GenerateKeepsSpend == ASSUME SpendInv, NEW c \in Container, Generate(c) PROVE SpendInv'
<1>1. /\ Today \in Days /\ Today \in Nat /\ DailyCap \in Nat /\ Days \subseteq Nat
      /\ spent[c] \in [Days -> Nat] /\ dayCount[c] \in Nat
  BY TodayIsADay, LimitsAssumption DEF SpendInv, SpendTypes
<1>2. /\ pc[c] = "ask" /\ pc' = [pc EXCEPT ![c] = "grade"]
      /\ spent' = [spent EXCEPT ![c][Today] = @ + 1]
      /\ UNCHANGED <<now, dayKey, dayCount>>
  BY DEF Generate, globals
<1>3. Within(Today, dayKey[c], dayCount[c], "ask", spent[c])
  BY <1>2 DEF SpendInv
<1>4. SpendTypes'
  BY <1>1, <1>2 DEF SpendInv, SpendTypes
<1>5. /\ pc'[c] = "grade" /\ dayKey'[c] = dayKey[c] /\ dayCount'[c] = dayCount[c]
      /\ spent'[c] = [spent[c] EXCEPT ![Today] = @ + 1]
  BY <1>2 DEF SpendInv, SpendTypes
<1>6. spent[c][Today] <= DailyCap
  BY <1>1, <1>3 DEF Within, Pending
<1>7. Within(Today, dayKey'[c], dayCount'[c], pc'[c], spent'[c])
  BY <1>1, <1>3, <1>5, <1>6 DEF Within, Pending
<1>8. \A o \in Container \ {c} :
         pc'[o] = pc[o] /\ dayKey'[o] = dayKey[o] /\ dayCount'[o] = dayCount[o] /\ spent'[o] = spent[o]
  BY <1>2 DEF SpendInv, SpendTypes
<1> QED
  BY <1>2, <1>4, <1>7, <1>8, OthersKeepSpend

\* A cold start forgets the count along with what it counted.
LEMMA ColdStartKeepsSpend == ASSUME SpendInv, NEW c \in Container, ColdStart(c) PROVE SpendInv'
<1>1. /\ Today \in Days /\ Today \in Nat /\ DailyCap \in Nat /\ NoDay \in Nat /\ NoDay \notin Days
  BY TodayIsADay, LimitsAssumption DEF SpendInv, SpendTypes
<1>2. /\ pc' = [pc EXCEPT ![c] = "idle"] /\ dayKey' = [dayKey EXCEPT ![c] = NoDay]
      /\ dayCount' = [dayCount EXCEPT ![c] = 0]
      /\ spent' = [spent EXCEPT ![c] = [d \in Days |-> 0]]
      /\ UNCHANGED now
  BY DEF ColdStart, Returns
<1>3. SpendTypes'
  BY <1>1, <1>2 DEF SpendInv, SpendTypes
<1>4. /\ pc'[c] = "idle" /\ dayKey'[c] = NoDay /\ dayCount'[c] = 0
      /\ spent'[c] = [d \in Days |-> 0]
  BY <1>2 DEF SpendInv, SpendTypes
<1>5. Within(Today, dayKey'[c], dayCount'[c], pc'[c], spent'[c])
  BY <1>1, <1>4 DEF Within, Pending
<1>6. \A o \in Container \ {c} :
         pc'[o] = pc[o] /\ dayKey'[o] = dayKey[o] /\ dayCount'[o] = dayCount[o] /\ spent'[o] = spent[o]
  BY <1>2 DEF SpendInv, SpendTypes
<1> QED
  BY <1>2, <1>3, <1>5, <1>6, OthersKeepSpend

\* Midnight: nothing is spent on the new day, and at most one request is pending.
LEMMA TickKeepsSpend == ASSUME SpendInv, Tick PROVE SpendInv'
<1>1. now' \in 0 .. MaxNow /\ now <= now' /\ now \in Nat /\ now' \in Nat /\ DayLength \in Nat \ {0}
  BY BoundsAssumption, DayAssumption DEF Tick, SpendInv, SpendTypes
<1>2. UNCHANGED <<pc, dayKey, dayCount, spent>>
  BY DEF Tick, globals, logs
<1>3. SpendTypes'
  BY <1>1, <1>2 DEF SpendInv, SpendTypes
<1>4. /\ Today \in Days /\ Today \in Nat /\ DailyCap \in Nat /\ Days \subseteq Nat
      /\ NoDay \in Nat /\ NoDay \notin Days
  BY TodayIsADay, LimitsAssumption DEF SpendInv, SpendTypes
<1>5. Today' \in Days /\ Today' \in Nat /\ Today <= Today'
  <2>1. now' \div DayLength \in Days
    <3>1. MaxNow \in Nat /\ now' <= MaxNow
      BY <1>1, BoundsAssumption
    <3>2. now' \div DayLength \in Nat /\ MaxNow \div DayLength \in Nat
      BY <1>1, <3>1, DivBounds
    <3>3. now' \div DayLength <= MaxNow \div DayLength
      BY <1>1, <3>1, DivMonotone
    <3> QED
      BY <3>2, <3>3 DEF Days
  <2>2. now \div DayLength <= now' \div DayLength
    BY <1>1, DivMonotone
  <2> QED
    BY <1>4, <2>1, <2>2 DEF Today
<1>6. ASSUME NEW c \in Container PROVE Within(Today, dayKey[c], dayCount[c], pc[c], spent[c])'
  <2>1. Within(Today, dayKey[c], dayCount[c], pc[c], spent[c])
    BY DEF SpendInv
  <2>2. spent[c] \in [Days -> Nat] /\ dayCount[c] \in Nat /\ dayKey[c] \in Nat
    BY DEF SpendInv, SpendTypes
  <2> DEFINE t == Today
             u == Today'
  <2>3. t \in Days /\ t \in Nat /\ u \in Days /\ u \in Nat /\ t <= u
    BY <1>4, <1>5
  <2>4. Within(t, dayKey[c], dayCount[c], pc[c], spent[c])
    BY <2>1
  <2> HIDE DEF t, u
  <2>5. Within(u, dayKey[c], dayCount[c], pc[c], spent[c])
    BY <1>4, <2>2, <2>3, <2>4 DEF Within, Pending
  <2> QED
    BY <1>2, <2>5 DEF u, Within, Days, NoDay
<1> QED
  BY <1>3, <1>6 DEF SpendInv

\* Every step keeps what is spent and pending within the count.
LEMMA SpendInductive == SpendInv /\ [Next]_vars => SpendInv'
<1> SUFFICES ASSUME SpendInv, [Next]_vars PROVE SpendInv'
  OBVIOUS
<1>1. CASE Tick
  BY <1>1, TickKeepsSpend
<1>2. ASSUME NEW c \in Container, Invoke(c) \/ NotPost(c) \/ Handle(c) \/ Discard(c) PROVE SpendInv'
  <2>1. CASE DailyOk(c)
    BY <2>1, DailyOkKeepsSpend
  <2>2. CASE Generate(c)
    BY <2>2, GenerateKeepsSpend
  <2>3. CASE Discard(c) \/ FunctionTimeout(c)
    BY <2>3, ColdStartKeepsSpend DEF Discard, FunctionTimeout
  <2>4. CASE \/ Invoke(c) \/ NotPost(c) \/ RateOk(c) \/ ParseBody(c) \/ AskRefuses(c)
             \/ AskFails(c) \/ GuardRefuses(c) \/ QueryFails(c) \/ Graded(c) \/ QueryHangs(c)
    <3>1. UNCHANGED <<now, dayKey, dayCount, spent>>
      BY <2>4 DEF Invoke, NotPost, RateOk, ParseBody, AskRefuses, AskFails, GuardRefuses,
                  QueryFails, Graded, QueryHangs, globals, logs
    <3>2. \E at \in {"idle", "rate", "daily", "ask", "grade", "hung"} :
             pc' = [pc EXCEPT ![c] = at] /\ (at = "ask" => pc[c] = "parse")
      BY <2>4 DEF Invoke, NotPost, RateOk, ParseBody, AskRefuses, AskFails, GuardRefuses,
                  QueryFails, Graded, QueryHangs, Answer, Returns
    <3> QED
      BY <3>1, <3>2, IdleStepsKeepSpend
  <2> QED
    BY <1>2, <2>1, <2>2, <2>3, <2>4 DEF Handle
<1>3. CASE UNCHANGED vars
  BY <1>3 DEF vars, globals, logs, SpendInv, SpendTypes, Within, Today, Days, NoDay
<1> QED
  BY <1>1, <1>2, <1>3 DEF Next

\* No container pays for more generations on a day than the cap and one, for any
\* cap, any number of containers and however requests fall around midnight.
THEOREM SpendIsCapped == Spec => []DailySpend
<1>1. SpendInv => DailySpend
  BY DEF SpendInv, Within, DailySpend
<1> QED
  BY <1>1, SpendInitially, SpendInductive, PTL DEF Spec

-----------------------------------------------------------------------------
(* The spend of all containers *)

\* A container's most on a day: the cap and the request let in before midnight.
Most == DailyCap + 1

\* The generations of day d that a container which is not dying still counts.
Paid(d) == {g \in Container \X (1 .. Most) : pc[g[1]] # "hung" /\ g[2] <= spent[g[1]][d]}

TotalTypes == generated \in [Days -> Nat] /\ discards \in Nat

\* What no container counts any more is the spend of those discarded.
TotalInv ==
    /\ SpendInv
    /\ TotalTypes
    /\ \A d \in Days : generated[d] <= discards * Most + Cardinality(Paid(d))

\* One container has at most one entry for each generation it may pay for.
LEMMA EntriesOfOne ==
    ASSUME NEW c \in Container
    PROVE  /\ Most \in Nat
           /\ IsFiniteSet({c} \X (1 .. Most)) /\ Cardinality({c} \X (1 .. Most)) = Most
<1>1. Most \in Nat /\ Most >= 1
  BY LimitsAssumption DEF Most
<1>2. IsFiniteSet(1 .. Most) /\ Cardinality(1 .. Most) = Most
  BY <1>1, FS_Interval
<1>3. IsFiniteSet({c}) /\ Cardinality({c}) = 1
  BY FS_Singleton
<1> QED
  BY <1>1, <1>2, <1>3, FS_Product

\* All containers together have an entry for each of them and generation.
LEMMA EntriesOfAll ==
    /\ Most \in Nat /\ Cardinality(Container) \in Nat
    /\ IsFiniteSet(Container \X (1 .. Most))
    /\ Cardinality(Container \X (1 .. Most)) = Cardinality(Container) * Most
<1>1. Most \in Nat /\ Most >= 1
  BY LimitsAssumption DEF Most
<1>2. IsFiniteSet(1 .. Most) /\ Cardinality(1 .. Most) = Most
  BY <1>1, FS_Interval
<1>3. IsFiniteSet(Container) /\ Cardinality(Container) \in Nat
  BY ContainersAssumption, FS_CardinalityType
<1> QED
  BY <1>1, <1>2, <1>3, FS_Product

\* So what they count is finite and bounded.
LEMMA PaidIsBounded ==
    ASSUME NEW d \in Days
    PROVE  /\ IsFiniteSet(Paid(d)) /\ Cardinality(Paid(d)) \in Nat
           /\ Cardinality(Paid(d)) <= Cardinality(Container) * Most
<1>1. Paid(d) \in SUBSET (Container \X (1 .. Most))
  BY DEF Paid
<1> QED
  BY <1>1, EntriesOfAll, FS_Subset, FS_CardinalityType

\* It still is after a step.
LEMMA PaidStaysBounded ==
    ASSUME NEW d \in Days
    PROVE  /\ IsFiniteSet(Paid(d)') /\ Cardinality(Paid(d)') \in Nat
           /\ Cardinality(Paid(d)') <= Cardinality(Container) * Most
<1>1. Paid(d)' \in SUBSET (Container \X (1 .. Most))
  BY DEF Paid, Most
<1> QED
  BY <1>1, EntriesOfAll, FS_Subset, FS_CardinalityType

\* A step that pays for nothing and loses no count: the others, and the end of a
\* container whose count was given up when its query hung.
LEMMA NothingPaid ==
    ASSUME TotalInv, UNCHANGED <<generated, discards>>,
           \A d \in Days : Paid(d)' = Paid(d)
    PROVE  TotalTypes' /\ \A d \in Days : generated'[d] <= discards' * Most + Cardinality(Paid(d)')
BY DEF TotalInv, TotalTypes

\* A step of c that neither pays nor ends anything leaves every entry.
LEMMA EntriesKept ==
    ASSUME SpendInv, NEW c \in Container, spent' = spent, pc[c] # "hung",
           NEW at \in {"idle", "rate", "daily", "parse", "ask", "grade"},
           pc' = [pc EXCEPT ![c] = at], NEW d \in Days
    PROVE  Paid(d)' = Paid(d)
<1>1. \A o \in Container : (pc'[o] = "hung") <=> (pc[o] = "hung")
  BY DEF SpendInv, SpendTypes
<1> QED
  BY <1>1 DEF Paid, Most

\* The container that the function timeout kills had none.
LEMMA EntriesOfHung ==
    ASSUME SpendInv, NEW c \in Container, pc[c] = "hung",
           pc' = [pc EXCEPT ![c] = "idle"],
           spent' = [spent EXCEPT ![c] = [d \in Days |-> 0]], NEW d \in Days
    PROVE  Paid(d)' = Paid(d)
<1>1. pc'[c] # "hung" /\ spent'[c][d] = 0
  BY DEF SpendInv, SpendTypes
<1>2. \A o \in Container \ {c} : pc'[o] = pc[o] /\ spent'[o] = spent[o]
  BY DEF SpendInv, SpendTypes
<1>3. ASSUME NEW g \in Container \X (1 .. Most)
      PROVE  (pc'[g[1]] # "hung" /\ g[2] <= spent'[g[1]][d])
                <=> (pc[g[1]] # "hung" /\ g[2] <= spent[g[1]][d])
  <2>1. g[1] \in Container /\ g[2] \in 1 .. Most /\ Most \in Nat
    BY EntriesOfAll
  <2>2. CASE g[1] = c
    BY <1>1, <2>1, <2>2
  <2>3. CASE g[1] # c
    BY <1>2, <2>1, <2>3
  <2> QED
    BY <2>2, <2>3
<1> QED
  BY <1>3 DEF Paid, Most

\* A container that starts over, or whose query hangs, takes at most its own
\* entries with it, and counts as discarded.
LEMMA DiscardKeepsTotal ==
    ASSUME TotalInv, NEW c \in Container, UNCHANGED generated, discards' = discards + 1,
           \A o \in Container \ {c} : pc'[o] = pc[o] /\ spent'[o] = spent[o]
    PROVE  TotalTypes' /\ \A d \in Days : generated'[d] <= discards' * Most + Cardinality(Paid(d)')
<1>1. TotalTypes'
  BY DEF TotalInv, TotalTypes
<1>2. ASSUME NEW d \in Days
      PROVE  generated'[d] <= discards' * Most + Cardinality(Paid(d)')
  <2> DEFINE P == Paid(d)
             Q == Paid(d)'
             R == {c} \X (1 .. Most)
  <2>1. P \in SUBSET (Q \cup R)
    <3>1. ASSUME NEW g \in P, g \notin R PROVE g \in Q
      <4>1. /\ g \in Container \X (1 .. Most)
            /\ pc[g[1]] # "hung" /\ g[2] <= spent[g[1]][d]
        BY DEF Paid
      <4>2. g[1] \in Container \ {c}
        BY <3>1, <4>1
      <4> QED
        BY <4>1, <4>2 DEF Paid, Most
    <3> QED
      BY <3>1
  <2>2. IsFiniteSet(Q) /\ Cardinality(Q) \in Nat
    BY PaidStaysBounded
  <2>3. IsFiniteSet(R) /\ Cardinality(R) = Most /\ Most \in Nat
    BY EntriesOfOne
  <2>4. Cardinality(P) \in Nat /\ generated[d] <= discards * Most + Cardinality(P)
    BY PaidIsBounded DEF TotalInv
  <2>5. generated[d] \in Nat /\ discards \in Nat
    BY DEF TotalInv, TotalTypes
  <2> HIDE DEF P, Q, R
  <2>6. IsFiniteSet(Q \cup R)
        /\ Cardinality(Q \cup R) = Cardinality(Q) + Cardinality(R) - Cardinality(Q \cap R)
    BY <2>2, <2>3, FS_Union
  <2>7. Cardinality(Q \cap R) \in Nat
    BY <2>2, FS_Subset, FS_CardinalityType
  <2>8. Cardinality(P) <= Cardinality(Q \cup R)
    BY <2>1, <2>6, FS_Subset
  <2>9. Cardinality(P) <= Cardinality(Q) + Most
    BY <2>2, <2>3, <2>4, <2>6, <2>7, <2>8
  <2>10. (discards + 1) * Most = discards * Most + Most
         /\ discards * Most \in Nat
    BY <2>3, <2>5
  <2>11. generated[d] <= (discards + 1) * Most + Cardinality(Q)
    BY <2>2, <2>3, <2>4, <2>5, <2>9, <2>10
  <2> QED
    BY <2>11 DEF Q
<1> QED
  BY <1>1, <1>2

\* A generation is a new entry of the container that pays for it.
LEMMA GenerateKeepsTotal ==
    ASSUME TotalInv, SpendInv', NEW c \in Container, Generate(c)
    PROVE  TotalTypes' /\ \A d \in Days : generated'[d] <= discards' * Most + Cardinality(Paid(d)')
<1>1. /\ pc[c] = "ask" /\ pc' = [pc EXCEPT ![c] = "grade"]
      /\ spent' = [spent EXCEPT ![c][Today] = @ + 1]
      /\ generated' = [generated EXCEPT ![Today] = @ + 1]
      /\ UNCHANGED <<now, discards>>
  BY DEF Generate
<1>2. Today \in Days /\ spent \in [Container -> [Days -> Nat]]
      /\ generated \in [Days -> Nat] /\ discards \in Nat
  BY TodayIsADay DEF TotalInv, TotalTypes, SpendInv, SpendTypes
<1>3. TotalTypes'
  BY <1>1, <1>2 DEF TotalTypes
<1>4. pc'[c] = "grade" /\ \A o \in Container \ {c} : pc'[o] = pc[o]
  BY <1>1 DEF TotalInv, SpendInv, SpendTypes
<1>5. /\ spent'[c][Today] = spent[c][Today] + 1
      /\ \A d \in Days \ {Today} : spent'[c][d] = spent[c][d]
      /\ \A o \in Container \ {c} : spent'[o] = spent[o]
  BY <1>1, <1>2
<1>6. spent[c][Today] \in Nat /\ spent[c][Today] + 1 <= Most /\ Most \in Nat
  <2>1. Today' \in Days /\ \A d \in Days : spent'[c][d] <= DailyCap + 1
    BY <1>1, <1>2 DEF SpendInv, Within, Today, Days
  <2> QED
    BY <1>2, <1>5, <2>1, EntriesOfAll DEF Most
<1>7. ASSUME NEW d \in Days, d # Today
      PROVE  generated'[d] <= discards' * Most + Cardinality(Paid(d)')
  <2>1. \A o \in Container : spent'[o][d] = spent[o][d] /\ ((pc'[o] # "hung") <=> (pc[o] # "hung"))
    BY <1>1, <1>4, <1>5, <1>7
  <2>2. Paid(d)' = Paid(d)
    BY <2>1 DEF Paid, Most
  <2>3. generated'[d] = generated[d]
    BY <1>1, <1>2, <1>7
  <2> QED
    BY <1>1, <2>2, <2>3 DEF TotalInv
<1>8. ASSUME NEW d \in Days, d = Today
      PROVE  generated'[d] <= discards' * Most + Cardinality(Paid(d)')
  <2>0. spent'[c][d] = spent[c][d] + 1 /\ \A o \in Container \ {c} : spent'[o] = spent[o]
    BY <1>5, <1>8
  <2> DEFINE g == <<c, spent[c][d] + 1>>
             P == Paid(d)
             Q == {h \in Container \X (1 .. Most) :
                      pc'[h[1]] # "hung" /\ h[2] <= spent'[h[1]][d]}
  <2>1. g \in Container \X (1 .. Most) /\ g[1] = c /\ g[2] = spent[c][d] + 1
    BY <1>6, <1>8
  <2>2. g \notin P
    BY <1>6, <1>8, <2>1 DEF Paid
  <2>3. g \in Q
    BY <1>4, <2>0, <1>6, <1>8, <2>1
  <2>4. P \subseteq Q
    <3>1. ASSUME NEW h \in P PROVE h \in Q
      <4>1. /\ h \in Container \X (1 .. Most) /\ h[1] \in Container /\ h[2] \in Nat
            /\ pc[h[1]] # "hung" /\ h[2] <= spent[h[1]][d]
        BY <1>6 DEF Paid
      <4>2. CASE h[1] = c
        BY <1>4, <2>0, <1>6, <1>8, <4>1, <4>2
      <4>3. CASE h[1] # c
        BY <1>4, <2>0, <4>1, <4>3
      <4> QED
        BY <4>2, <4>3
    <3> QED
      BY <3>1
  <2>5. Q = Paid(d)'
    BY <1>1 DEF Paid, Most
  <2>6. IsFiniteSet(P) /\ Cardinality(P) \in Nat
    BY <1>2, PaidIsBounded
  <2>7. IsFiniteSet(Q) /\ Cardinality(Q) \in Nat
    <3>1. Q \in SUBSET (Container \X (1 .. Most))
      OBVIOUS
    <3> QED
      BY <3>1, EntriesOfAll, FS_Subset, FS_CardinalityType
  <2>8. generated[d] <= discards * Most + Cardinality(P)
    BY <1>2 DEF TotalInv
  <2> HIDE DEF P, Q, g
  <2>9. Cardinality(P \cup {g}) = Cardinality(P) + 1
    BY <2>2, <2>6, FS_AddElement
  <2>10. P \cup {g} \in SUBSET Q
    BY <2>3, <2>4
  <2>11. Cardinality(P) + 1 <= Cardinality(Q)
    BY <2>7, <2>9, <2>10, FS_Subset
  <2>12. generated'[d] = generated[d] + 1 /\ discards' = discards
         /\ generated[d] \in Nat /\ discards * Most \in Nat
    BY <1>1, <1>2, <1>6, <1>8
  <2>13. generated'[d] <= discards' * Most + Cardinality(Q)
    <3> DEFINE k == discards * Most
    <3>1. k \in Nat /\ generated[d] <= k + Cardinality(P)
      BY <2>8, <2>12
    <3> HIDE DEF k
    <3>2. generated[d] + 1 <= k + Cardinality(Q)
      BY <2>6, <2>7, <2>11, <2>12, <3>1
    <3> QED
      BY <2>12, <3>2 DEF k
  <2> QED
    BY <2>5, <2>13
<1>9. ASSUME NEW d \in Days PROVE generated'[d] <= discards' * Most + Cardinality(Paid(d)')
  BY <1>7, <1>8
<1> QED
  BY <1>3, <1>9

\* Nothing is paid for at the start.
LEMMA TotalInitially == Init => TotalInv
<1> SUFFICES ASSUME Init PROVE TotalInv
  OBVIOUS
<1>1. SpendInv
  BY SpendInitially
<1>2. TotalTypes /\ discards = 0 /\ \A d \in Days : generated[d] = 0
  BY DEF Init, TotalTypes
<1>3. ASSUME NEW d \in Days PROVE generated[d] <= discards * Most + Cardinality(Paid(d))
  BY <1>2, PaidIsBounded, EntriesOfAll
<1> QED
  BY <1>1, <1>2, <1>3 DEF TotalInv

\* What a step does to the spend.
LEMMA SpendSteps ==
    ASSUME SpendInv, NEW c \in Container, Invoke(c) \/ NotPost(c) \/ Handle(c) \/ Discard(c)
    PROVE  \/ Generate(c)
           \/ /\ UNCHANGED <<spent, generated, discards>> /\ pc[c] # "hung"
              /\ \E at \in {"idle", "rate", "daily", "parse", "ask", "grade"} :
                    pc' = [pc EXCEPT ![c] = at]
           \/ /\ pc[c] = "hung" /\ UNCHANGED <<generated, discards>>
              /\ pc' = [pc EXCEPT ![c] = "idle"]
              /\ spent' = [spent EXCEPT ![c] = [d \in Days |-> 0]]
           \/ /\ UNCHANGED generated /\ discards' = discards + 1
              /\ \A o \in Container \ {c} : pc'[o] = pc[o] /\ spent'[o] = spent[o]
<1>0. pc \in [Container -> {"idle", "rate", "daily", "parse", "ask", "grade", "hung"}]
      /\ spent \in [Container -> [Days -> Nat]]
  BY DEF SpendInv, SpendTypes
<1>1. CASE Invoke(c) \/ NotPost(c)
  BY <1>1 DEF Invoke, NotPost, Answer, Returns, logs
<1>2. CASE RateOk(c)
  <2>1. UNCHANGED <<spent, generated, discards>> /\ pc[c] = "rate"
    BY <1>2 DEF RateOk
  <2>2. pc' = [pc EXCEPT ![c] = "idle"] \/ pc' = [pc EXCEPT ![c] = "daily"]
    BY <1>2 DEF RateOk, Answer, Returns
  <2> QED
    BY <2>1, <2>2
<1>3. CASE DailyOk(c)
  <2>1. UNCHANGED <<spent, generated, discards>> /\ pc[c] = "daily"
    BY <1>3 DEF DailyOk
  <2>2. pc' = [pc EXCEPT ![c] = "idle"] \/ pc' = [pc EXCEPT ![c] = "parse"]
    BY <1>3 DEF DailyOk, Answer, Returns
  <2> QED
    BY <2>1, <2>2
<1>4. CASE ParseBody(c)
  <2>1. UNCHANGED <<spent, generated, discards>> /\ pc[c] = "parse"
    BY <1>4 DEF ParseBody, logs
  <2>2. pc' = [pc EXCEPT ![c] = "idle"] \/ pc' = [pc EXCEPT ![c] = "ask"]
    BY <1>4 DEF ParseBody, Answer, Returns
  <2> QED
    BY <2>1, <2>2
<1>5. CASE AskRefuses(c) \/ AskFails(c)
  BY <1>5 DEF AskRefuses, AskFails, Answer, Returns, logs
<1>6. CASE GuardRefuses(c) \/ QueryFails(c) \/ Graded(c)
  BY <1>6 DEF GuardRefuses, QueryFails, Graded, Answer, Returns, logs
<1>7. CASE QueryHangs(c)
  BY <1>0, <1>7 DEF QueryHangs
<1>8. CASE FunctionTimeout(c)
  BY <1>8 DEF FunctionTimeout, ColdStart, Returns
<1>9. CASE Discard(c)
  BY <1>0, <1>9 DEF Discard, ColdStart, Returns
<1> QED
  BY <1>1, <1>2, <1>3, <1>4, <1>5, <1>6, <1>7, <1>8, <1>9 DEF Handle

\* Every step keeps the balance.
LEMMA TotalInductive == TotalInv /\ [Next]_vars => TotalInv'
<1> SUFFICES ASSUME TotalInv, [Next]_vars PROVE TotalInv'
  OBVIOUS
<1> DEFINE Balance == TotalTypes' /\ \A d \in Days : generated'[d] <= discards' * Most + Cardinality(Paid(d)')
<1>1. SpendInv /\ SpendInv'
  BY SpendInductive DEF TotalInv
<1>2. ASSUME Tick \/ UNCHANGED vars PROVE Balance
  <2>1. UNCHANGED <<pc, spent, generated, discards>>
    BY <1>2 DEF Tick, vars, globals, logs
  <2>2. \A d \in Days : Paid(d)' = Paid(d)
    BY <2>1 DEF Paid, Most
  <2> QED
    BY <2>1, <2>2, NothingPaid
<1>3. ASSUME NEW c \in Container, Invoke(c) \/ NotPost(c) \/ Handle(c) \/ Discard(c) PROVE Balance
  <2>1. CASE Generate(c)
    BY <1>1, <2>1, GenerateKeepsTotal
  <2>2. CASE /\ UNCHANGED <<spent, generated, discards>> /\ pc[c] # "hung"
             /\ \E at \in {"idle", "rate", "daily", "parse", "ask", "grade"} :
                   pc' = [pc EXCEPT ![c] = at]
    <3>1. \A d \in Days : Paid(d)' = Paid(d)
      BY <1>1, <2>2, EntriesKept
    <3> QED
      BY <2>2, <3>1, NothingPaid
  <2>3. CASE /\ pc[c] = "hung" /\ UNCHANGED <<generated, discards>>
             /\ pc' = [pc EXCEPT ![c] = "idle"]
             /\ spent' = [spent EXCEPT ![c] = [d \in Days |-> 0]]
    <3>1. \A d \in Days : Paid(d)' = Paid(d)
      BY <1>1, <2>3, EntriesOfHung
    <3> QED
      BY <2>3, <3>1, NothingPaid
  <2>4. CASE /\ UNCHANGED generated /\ discards' = discards + 1
             /\ \A o \in Container \ {c} : pc'[o] = pc[o] /\ spent'[o] = spent[o]
    BY <2>4, DiscardKeepsTotal
  <2> QED
    BY <1>1, <1>3, <2>1, <2>2, <2>3, <2>4, SpendSteps
<1>4. Balance
  BY <1>2, <1>3 DEF Next
<1>5. Days' = Days /\ Most' = Most
  BY DEF Days, Most
<1> QED
  BY <1>1, <1>4, <1>5 DEF TotalInv

\* All containers together pay for no more on a day than the cap and one for each
\* container that was ever started, for any number of them, cap and discards.
THEOREM SpendIsBoundedPerStart == Spec => []SpendPerStart
<1>1. TotalInv => SpendPerStart
  <2> SUFFICES ASSUME TotalInv, NEW d \in Days
               PROVE  generated[d] <= (Cardinality(Container) + discards) * (DailyCap + 1)
    BY DEF SpendPerStart
  <2> DEFINE n == Cardinality(Container)
             p == Cardinality(Paid(d))
  <2>1. generated[d] \in Nat /\ discards \in Nat /\ generated[d] <= discards * Most + p
    BY DEF TotalInv, TotalTypes
  <2>2. n \in Nat /\ Most \in Nat /\ p \in Nat /\ p <= n * Most
    BY EntriesOfAll, PaidIsBounded
  <2> HIDE DEF n, p
  <2>3. (n + discards) * Most = n * Most + discards * Most /\ n * Most \in Nat /\ discards * Most \in Nat
    BY <2>1, <2>2
  <2>4. generated[d] <= (n + discards) * Most
    <3> DEFINE a == n * Most
               b == discards * Most
    <3>1. a \in Nat /\ b \in Nat /\ p <= a /\ generated[d] <= b + p /\ (n + discards) * Most = a + b
      BY <2>1, <2>2, <2>3
    <3> HIDE DEF a, b
    <3>2. generated[d] <= a + b
      BY <2>1, <2>2, <3>1
    <3> QED
      BY <3>1, <3>2
  <2> QED
    BY <2>4 DEF n, Most
<1> QED
  BY <1>1, TotalInitially, TotalInductive, PTL DEF Spec

-----------------------------------------------------------------------------
(* Numbers *)

\* A nonempty set of numbers has a least one.
LEMMA Least ==
    ASSUME NEW S \in SUBSET Nat, S # {}
    PROVE  \E n \in S : \A m \in S : n <= m
<1> DEFINE R == {ss \in Nat \X Nat : ss[1] < ss[2]}
<1>1. IsWellFoundedOn(R, Nat)
  BY NatLessThanWellFounded DEF OpToRel
<1> HIDE DEF R
<1>2. PICK n \in S : \A m \in S : ~ (<<m, n>> \in R)
  BY <1>1, WFMin
<1>3. ASSUME NEW m \in S PROVE n <= m
  <2>1. m \in Nat /\ n \in Nat /\ <<m, n>> \in Nat \X Nat
    OBVIOUS
  <2>2. ~ (m < n)
    BY <1>2, <2>1 DEF R
  <2> QED
    BY <2>1, <2>2
<1> QED
  BY <1>3

\* Induction, over the set of the numbers that have the property.
LEMMA Induct ==
    ASSUME NEW S, 0 \in S, \A n \in Nat : n \in S => n + 1 \in S
    PROVE  Nat \subseteq S
<1> SUFFICES ASSUME Nat \ S # {} PROVE FALSE
  OBVIOUS
<1>1. PICK n \in Nat \ S : \A m \in Nat \ S : n <= m
  BY Least
<1>2. n # 0 /\ n - 1 \in Nat /\ n - 1 \notin Nat \ S
  BY <1>1
<1> QED
  BY <1>1, <1>2

-----------------------------------------------------------------------------
(* Buckets *)

\* The table of a filter over the first n entries of a bucket.
Kept(f, bucket, n) ==
    f = [i \in 0 .. n |->
           IF i = 0 THEN <<>>
           ELSE IF now - bucket[i] < Window THEN Append(f[i - 1], bucket[i])
           ELSE f[i - 1]]

\* One of its entries.
LEMMA KeptAt ==
    ASSUME NEW f, NEW b, NEW n, Kept(f, b, n), NEW i \in 0 .. n
    PROVE  f[i] = IF i = 0 THEN <<>>
                  ELSE IF now - b[i] < Window THEN Append(f[i - 1], b[i])
                  ELSE f[i - 1]
BY Zenon DEF Kept

\* There is one, for every bucket.
LEMMA KeptExists ==
    ASSUME NEW b, NEW n \in Nat PROVE \E f : Kept(f, b, n)
<1> DEFINE S == {m \in Nat : \E f : Kept(f, b, m)}
<1>1. 0 \in S
  <2>1. Kept([i \in 0 .. 0 |-> <<>>], b, 0)
    BY DEF Kept
  <2> QED
    BY <2>1
<1>2. ASSUME NEW m \in Nat, m \in S PROVE m + 1 \in S
  <2>1. PICK f : Kept(f, b, m)
    BY <1>2
  <2> DEFINE g == [i \in 0 .. m + 1 |->
                     IF i <= m THEN f[i]
                     ELSE IF now - b[i] < Window THEN Append(f[i - 1], b[i])
                     ELSE f[i - 1]]
  <2>2. \A i \in 0 .. m : g[i] = f[i]
    OBVIOUS
  <2>3. ASSUME NEW i \in 0 .. m + 1
        PROVE  g[i] = IF i = 0 THEN <<>>
                      ELSE IF now - b[i] < Window THEN Append(g[i - 1], b[i])
                      ELSE g[i - 1]
    <3>1. CASE i <= m
      <4> i \in 0 .. m
        BY <3>1
      <4>1. f[i] = IF i = 0 THEN <<>>
                   ELSE IF now - b[i] < Window THEN Append(f[i - 1], b[i])
                   ELSE f[i - 1]
        BY <2>1, KeptAt
      <4>2. i # 0 => g[i - 1] = f[i - 1]
        BY <2>2, <3>1
      <4> QED
        BY <2>2, <3>1, <4>1, <4>2
    <3>2. CASE i = m + 1
      <4>1. g[i - 1] = f[i - 1] /\ i # 0
        BY <2>2, <3>2
      <4> QED
        BY <3>2, <4>1
    <3> QED
      BY <3>1, <3>2
  <2>4. g = [i \in 0 .. m + 1 |-> g[i]]
    OBVIOUS
  <2> HIDE DEF g
  <2>5. Kept(g, b, m + 1)
    BY <2>3, <2>4 DEF Kept
  <2> QED
    BY <2>5
<1> HIDE DEF S
<1>3. n \in S
  BY <1>1, <1>2, Induct
<1> QED
  BY <1>3 DEF S

\* Fresh is the last entry of that table.
LEMMA FreshIsKept ==
    ASSUME NEW b, Len(b) \in Nat
    PROVE  \E f : Kept(f, b, Len(b)) /\ Fresh(b) = f[Len(b)]
<1> DEFINE f == CHOOSE g : Kept(g, b, Len(b))
<1>1. Kept(f, b, Len(b))
  BY KeptExists
<1>2. Fresh(b) = f[Len(b)]
  BY DEF Fresh, Kept
<1> QED
  BY <1>1, <1>2

\* Times in order, none of them later than t.
Ordered(a, t) ==
    /\ a \in Seq(Nat)
    /\ \A i \in 1 .. Len(a) : a[i] <= t
    /\ \A i, j \in 1 .. Len(a) : i <= j => a[i] <= a[j]

\* h is what is left of a when its first entries, all of them older than a
\* window at time t, are dropped.
Suffix(h, a, t) ==
    /\ h \in Seq(Nat) /\ Len(h) <= Len(a)
    /\ \A j \in 1 .. Len(h) : h[j] = a[Len(a) - Len(h) + j]
    /\ \A j \in 1 .. Len(a) - Len(h) : t - a[j] >= Window

\* g is the first n entries of b, of which the first k, and no others, have expired.
Dropped(g, b, n, k) ==
    /\ g \in Seq(Nat) /\ Len(g) = n - k
    /\ \A j \in 1 .. n - k : g[j] = b[k + j]
    /\ \A i \in 1 .. k : now - b[i] >= Window
    /\ \A i \in k + 1 .. n : now - b[i] < Window

\* One more entry: it is kept, or everything up to it has expired.
LEMMA DropOneMore ==
    ASSUME NEW b, NEW n \in Nat, NEW k \in 0 .. n, NEW g, now \in Nat, Ordered(b, now),
           n + 1 <= Len(b), Dropped(g, b, n, k)
    PROVE  IF now - b[n + 1] < Window
           THEN Dropped(Append(g, b[n + 1]), b, n + 1, k)
           ELSE Dropped(g, b, n + 1, n + 1)
<1>1. b \in Seq(Nat) /\ Len(b) \in Nat /\ Window \in Nat
  BY LimitsAssumption DEF Ordered
<1>2. n + 1 \in 1 .. Len(b) /\ b[n + 1] \in Nat /\ k \in Nat /\ k <= n
  BY <1>1
<1>3. /\ g \in Seq(Nat) /\ Len(g) = n - k
      /\ \A j \in 1 .. n - k : g[j] = b[k + j]
      /\ \A i \in 1 .. k : now - b[i] >= Window
      /\ \A i \in k + 1 .. n : now - b[i] < Window
  BY DEF Dropped
<1>4. CASE now - b[n + 1] < Window
  <2> DEFINE x == b[n + 1]
             h == Append(g, x)
  <2>1. /\ h \in Seq(Nat) /\ Len(h) = n + 1 - k
        /\ \A j \in 1 .. n - k : h[j] = g[j]
        /\ h[n - k + 1] = x
    <3>1. x \in Nat /\ g \in Seq(Nat)
      BY <1>2, <1>3
    <3> HIDE DEF x
    <3>2. /\ h \in Seq(Nat) /\ Len(h) = Len(g) + 1
          /\ \A j \in 1 .. Len(g) : h[j] = g[j]
          /\ h[Len(g) + 1] = x
      BY <3>1, AppendProperties
    <3> HIDE DEF h
    <3> QED
      BY <1>2, <1>3, <3>2
  <2> HIDE DEF x, h
  <2>2. ASSUME NEW j \in 1 .. n + 1 - k PROVE h[j] = b[k + j]
    <3>1. CASE j \in 1 .. n - k
      BY <1>3, <2>1, <3>1
    <3>2. CASE j = n - k + 1
      <4>1. k + j = n + 1
        BY <1>2, <3>2
      <4> QED
        BY <2>1, <3>2, <4>1 DEF x
    <3> QED
      BY <1>2, <3>1, <3>2
  <2>3. \A i \in k + 1 .. n + 1 : now - b[i] < Window
    BY <1>2, <1>3, <1>4
  <2>4. Dropped(h, b, n + 1, k)
    BY <1>3, <2>1, <2>2, <2>3 DEF Dropped
  <2> QED
    BY <1>4, <2>4 DEF h, x
<1>5. CASE ~ (now - b[n + 1] < Window)
  <2>1. ASSUME NEW i \in 1 .. n + 1 PROVE now - b[i] >= Window
    <3>1. b[i] <= b[n + 1] /\ b[i] \in Nat
      BY <1>1, <1>2 DEF Ordered
    <3> QED
      BY <1>1, <1>2, <1>5, <3>1
  <2>2. k = n
    <3>1. ASSUME k < n PROVE FALSE
      <4>1. n \in k + 1 .. n /\ n \in 1 .. n + 1 /\ b[n] \in Nat
        BY <1>1, <1>2, <3>1
      <4>2. now - b[n] < Window /\ now - b[n] >= Window
        BY <1>3, <2>1, <4>1
      <4> QED
        BY <1>1, <4>1, <4>2
    <3> QED
      BY <1>2, <3>1
  <2>3. Len(g) = n + 1 - (n + 1)
    BY <1>3, <2>2
  <2>4. Dropped(g, b, n + 1, n + 1)
    BY <1>3, <2>1, <2>3 DEF Dropped
  <2> QED
    BY <1>5, <2>4
<1> QED
  BY <1>4, <1>5

\* The filter of a bucket in order drops its first entries, the ones that have
\* expired.
LEMMA FreshIsSuffix ==
    ASSUME NEW b, now \in Nat, Ordered(b, now)
    PROVE  Suffix(Fresh(b), b, now) /\ \A j \in 1 .. Len(Fresh(b)) : now - Fresh(b)[j] < Window
<1>1. b \in Seq(Nat) /\ Len(b) \in Nat /\ Window \in Nat
  BY LimitsAssumption DEF Ordered
<1>2. PICK f : Kept(f, b, Len(b)) /\ Fresh(b) = f[Len(b)]
  BY <1>1, FreshIsKept
<1> DEFINE S == {n \in Nat : n <= Len(b) => \E k \in 0 .. n : Dropped(f[n], b, n, k)}
<1>3. 0 \in S
  <2>1. f[0] = <<>>
    BY <1>1, <1>2 DEF Kept
  <2>2. Dropped(f[0], b, 0, 0)
    BY <2>1 DEF Dropped
  <2> QED
    BY <2>2
<1>4. ASSUME NEW n \in Nat, n \in S PROVE n + 1 \in S
  <2> SUFFICES ASSUME n + 1 <= Len(b) PROVE \E k \in 0 .. n + 1 : Dropped(f[n + 1], b, n + 1, k)
    OBVIOUS
  <2>1. PICK k \in 0 .. n : Dropped(f[n], b, n, k)
    BY <1>1, <1>4
  <2>2. n + 1 \in 0 .. Len(b) /\ k \in 0 .. n + 1 /\ n + 1 \in 0 .. n + 1
    BY <1>1
  <2>3. f[n + 1] = IF now - b[n + 1] < Window THEN Append(f[n], b[n + 1]) ELSE f[n]
    <3>1. f[n + 1] = IF n + 1 = 0 THEN <<>>
                     ELSE IF now - b[n + 1] < Window THEN Append(f[n + 1 - 1], b[n + 1])
                     ELSE f[n + 1 - 1]
      BY <1>2, <2>2, KeptAt
    <3>2. n + 1 # 0 /\ n + 1 - 1 = n
      OBVIOUS
    <3> QED
      BY <3>1, <3>2
  <2>4. IF now - b[n + 1] < Window
        THEN Dropped(Append(f[n], b[n + 1]), b, n + 1, k)
        ELSE Dropped(f[n], b, n + 1, n + 1)
    BY <2>1, DropOneMore
  <2> QED
    BY <2>2, <2>3, <2>4, Zenon
<1> HIDE DEF S
<1>5. Len(b) \in S
  BY <1>1, <1>3, <1>4, Induct
<1>6. PICK k \in 0 .. Len(b) : Dropped(Fresh(b), b, Len(b), k)
  BY <1>1, <1>2, <1>5 DEF S
<1> DEFINE g == Fresh(b)
<1>7. Dropped(g, b, Len(b), k)
  BY <1>6
<1> HIDE DEF g
<1>8. Len(g) = Len(b) - k /\ Len(b) - Len(g) = k /\ Len(g) <= Len(b) /\ g \in Seq(Nat)
  BY <1>1, <1>7 DEF Dropped
<1>9. Suffix(g, b, now)
  BY <1>1, <1>7, <1>8 DEF Suffix, Dropped
<1>10. ASSUME NEW j \in 1 .. Len(g) PROVE now - g[j] < Window
  <2>1. j \in 1 .. Len(b) - k /\ k + j \in k + 1 .. Len(b)
    BY <1>1, <1>8
  <2> QED
    BY <1>7, <2>1 DEF Dropped
<1> QED
  BY <1>9, <1>10 DEF g

\* A bucket of what was let in, filtered again, is a bucket of what was let in.
LEMMA SuffixOfSuffix ==
    ASSUME NEW a, NEW h, now \in Nat, Ordered(a, now), Suffix(h, a, now)
    PROVE  /\ Suffix(Fresh(h), a, now)
           /\ Len(Fresh(h)) <= Len(h)
           /\ \A j \in 1 .. Len(Fresh(h)) : now - Fresh(h)[j] < Window
<1> DEFINE g == Fresh(h)
<1>1. a \in Seq(Nat) /\ h \in Seq(Nat) /\ Len(a) \in Nat /\ Len(h) \in Nat /\ Len(h) <= Len(a)
  BY DEF Ordered, Suffix
<1>2. \A j \in 1 .. Len(h) : h[j] = a[Len(a) - Len(h) + j]
  BY DEF Suffix
<1>3. Ordered(h, now)
  <2>1. \A j \in 1 .. Len(h) : Len(a) - Len(h) + j \in 1 .. Len(a)
    BY <1>1
  <2>2. ASSUME NEW j \in 1 .. Len(h) PROVE h[j] <= now
    BY <1>2, <2>1 DEF Ordered
  <2>3. ASSUME NEW i \in 1 .. Len(h), NEW j \in 1 .. Len(h), i <= j PROVE h[i] <= h[j]
    <3> DEFINE k == Len(a) - Len(h)
    <3>1. k + i \in 1 .. Len(a) /\ k + j \in 1 .. Len(a) /\ k + i <= k + j
      BY <1>1, <2>1, <2>3
    <3>2. h[i] = a[k + i] /\ h[j] = a[k + j]
      BY <1>2
    <3> HIDE DEF k
    <3> QED
      BY <3>1, <3>2 DEF Ordered
  <2> QED
    BY <1>1, <2>2, <2>3 DEF Ordered
<1>4. Suffix(g, h, now) /\ \A j \in 1 .. Len(g) : now - g[j] < Window
  BY <1>3, FreshIsSuffix
<1> HIDE DEF g
<1>5. g \in Seq(Nat) /\ Len(g) \in Nat /\ Len(g) <= Len(h)
  BY <1>4 DEF Suffix
<1>6. ASSUME NEW j \in 1 .. Len(g) PROVE g[j] = a[Len(a) - Len(g) + j]
  <2>1. g[j] = h[Len(h) - Len(g) + j] /\ Len(h) - Len(g) + j \in 1 .. Len(h)
    BY <1>1, <1>4, <1>5 DEF Suffix
  <2>2. Len(a) - Len(h) + (Len(h) - Len(g) + j) = Len(a) - Len(g) + j
    BY <1>1, <1>5
  <2> QED
    BY <1>2, <2>1, <2>2
<1>7. ASSUME NEW j \in 1 .. Len(a) - Len(g) PROVE now - a[j] >= Window
  <2>1. CASE j <= Len(a) - Len(h)
    BY <1>1, <2>1 DEF Suffix
  <2>2. CASE j > Len(a) - Len(h)
    <3> DEFINE m == j - (Len(a) - Len(h))
    <3>1. m \in 1 .. Len(h) - Len(g) /\ m \in 1 .. Len(h) /\ Len(a) - Len(h) + m = j
      BY <1>1, <1>5, <2>2
    <3> HIDE DEF m
    <3>2. now - h[m] >= Window /\ h[m] = a[j]
      BY <1>2, <1>4, <3>1 DEF Suffix
    <3> QED
      BY <3>2
  <2> QED
    BY <1>1, <2>1, <2>2
<1> QED
  BY <1>1, <1>4, <1>5, <1>6, <1>7 DEF Suffix, g

\* A container's bucket h for an address, at time t, and the log a of the
\* requests of that address that it let in since it started.
Bucket(a, h, t) ==
    /\ Ordered(a, t)
    /\ Suffix(h, a, t)
    /\ Len(h) <= RateMax
    /\ \A n \in 1 .. Len(a) - RateMax : a[n + RateMax] - a[n] >= Window

\* The bucket of an address that was never let in.
LEMMA EmptyBucket == ASSUME NEW t \in Nat PROVE Bucket(<<>>, <<>>, t)
<1>1. RateMax \in Nat \ {0} /\ <<>> \in Seq(Nat) /\ Len(<<>>) = 0
  BY LimitsAssumption
<1> QED
  BY <1>1 DEF Bucket, Ordered, Suffix

\* Time passes: what is in order stays so, and what has expired has.
LEMMA BucketAges ==
    ASSUME NEW a, NEW h, NEW t \in Nat, NEW u \in Nat, t <= u, Bucket(a, h, t)
    PROVE  Bucket(a, h, u)
<1>1. Window \in Nat /\ a \in Seq(Nat) /\ h \in Seq(Nat) /\ Len(a) \in Nat /\ Len(h) \in Nat
  BY LimitsAssumption DEF Bucket, Ordered, Suffix
<1>2. \A i \in 1 .. Len(a) : a[i] \in Nat
  BY <1>1
<1>3. Ordered(a, u)
  BY <1>1, <1>2 DEF Bucket, Ordered
<1>4. Suffix(h, a, u)
  <2>1. ASSUME NEW j \in 1 .. Len(a) - Len(h) PROVE u - a[j] >= Window
    <3>1. t - a[j] >= Window /\ a[j] \in Nat
      BY <1>1, <1>2 DEF Bucket, Suffix
    <3> QED
      BY <1>1, <3>1
  <2> QED
    BY <1>1, <2>1 DEF Bucket, Suffix
<1> QED
  BY <1>3, <1>4 DEF Bucket

\* A refusal leaves the filtered bucket.
LEMMA BucketPruned ==
    ASSUME NEW a, NEW h, now \in Nat, Bucket(a, h, now)
    PROVE  Bucket(a, Fresh(h), now)
<1>1. Suffix(Fresh(h), a, now) /\ Len(Fresh(h)) <= Len(h)
  BY SuffixOfSuffix DEF Bucket
<1>2. Len(h) \in Nat /\ Len(Fresh(h)) \in Nat /\ RateMax \in Nat /\ Len(h) <= RateMax
  BY <1>1, LimitsAssumption DEF Bucket, Suffix
<1> QED
  BY <1>1, <1>2 DEF Bucket

\* A request let in goes to the end of the bucket and of the log.  The one
\* RateMax before it has left the bucket, or there were RateMax in it.
LEMMA BucketAdmits ==
    ASSUME NEW a, NEW h, now \in Nat, Bucket(a, h, now), ~ (Len(Fresh(h)) >= RateMax)
    PROVE  Bucket(Append(a, now), Admitted(Fresh(h)), now)
<1> DEFINE g == Fresh(h)
           x == Append(a, now)
           y == Append(g, now)
<1>1. Suffix(g, a, now)
  BY SuffixOfSuffix DEF Bucket
<1>2. /\ a \in Seq(Nat) /\ g \in Seq(Nat) /\ Len(a) \in Nat /\ Len(g) \in Nat
      /\ Len(g) <= Len(a) /\ RateMax \in Nat \ {0} /\ Window \in Nat
  BY <1>1, LimitsAssumption DEF Bucket, Ordered, Suffix
<1> HIDE DEF g
<1>3. Len(g) < RateMax
  BY <1>2 DEF g
<1>4. /\ x \in Seq(Nat) /\ Len(x) = Len(a) + 1 /\ x[Len(a) + 1] = now
      /\ \A i \in 1 .. Len(a) : x[i] = a[i]
  BY <1>2, AppendProperties
<1>5. /\ y \in Seq(Nat) /\ Len(y) = Len(g) + 1 /\ y[Len(g) + 1] = now
      /\ \A i \in 1 .. Len(g) : y[i] = g[i]
  BY <1>2, AppendProperties
<1> HIDE DEF x, y
<1>6. /\ \A i \in 1 .. Len(a) : a[i] <= now /\ a[i] \in Nat
      /\ \A i, j \in 1 .. Len(a) : i <= j => a[i] <= a[j]
  BY <1>2 DEF Bucket, Ordered
<1>7. Ordered(x, now)
  <2>1. \A i \in 1 .. Len(x) : i \in 1 .. Len(a) \/ i = Len(a) + 1
    BY <1>2, <1>4
  <2>2. \A i \in 1 .. Len(x) : x[i] <= now
    BY <1>4, <1>6, <2>1
  <2>3. ASSUME NEW i \in 1 .. Len(x), NEW j \in 1 .. Len(x), i <= j PROVE x[i] <= x[j]
    <3>1. CASE j = Len(a) + 1
      BY <1>4, <2>2, <3>1
    <3>2. CASE j \in 1 .. Len(a)
      <4>1. i \in 1 .. Len(a)
        BY <1>2, <2>3, <3>2
      <4> QED
        BY <1>4, <1>6, <2>3, <3>2, <4>1
    <3> QED
      BY <2>1, <3>1, <3>2
  <2> QED
    BY <1>4, <2>2, <2>3 DEF Ordered
<1>8. Suffix(y, x, now)
  <2>1. Len(x) - Len(y) = Len(a) - Len(g) /\ Len(y) <= Len(x)
    BY <1>2, <1>4, <1>5
  <2>2. ASSUME NEW j \in 1 .. Len(y) PROVE y[j] = x[Len(a) - Len(g) + j]
    <3>1. CASE j = Len(g) + 1
      <4>1. Len(a) - Len(g) + j = Len(a) + 1
        BY <1>2, <3>1
      <4> QED
        BY <1>4, <1>5, <3>1, <4>1
    <3>2. CASE j \in 1 .. Len(g)
      <4>1. Len(a) - Len(g) + j \in 1 .. Len(a) /\ g[j] = a[Len(a) - Len(g) + j]
        BY <1>1, <1>2, <3>2 DEF Suffix
      <4> QED
        BY <1>4, <1>5, <3>2, <4>1
    <3> QED
      BY <1>2, <1>5, <3>1, <3>2
  <2>3. ASSUME NEW j \in 1 .. Len(a) - Len(g) PROVE now - x[j] >= Window
    <3>1. j \in 1 .. Len(a) /\ now - a[j] >= Window
      BY <1>1, <1>2 DEF Suffix
    <3> QED
      BY <1>4, <3>1
  <2> QED
    BY <1>5, <2>1, <2>2, <2>3 DEF Suffix
<1>9. ASSUME NEW n \in 1 .. Len(x) - RateMax PROVE x[n + RateMax] - x[n] >= Window
  <2>1. n \in Nat /\ n >= 1 /\ n + RateMax <= Len(a) + 1 /\ n \in 1 .. Len(a)
    BY <1>2, <1>4
  <2>2. CASE n + RateMax <= Len(a)
    <3>1. n \in 1 .. Len(a) - RateMax /\ n + RateMax \in 1 .. Len(a)
      BY <1>2, <2>1, <2>2
    <3>2. a[n + RateMax] - a[n] >= Window
      BY <3>1 DEF Bucket
    <3> QED
      BY <1>4, <2>1, <3>1, <3>2
  <2>3. CASE n + RateMax = Len(a) + 1
    <3>1. n \in 1 .. Len(a) - Len(g)
      BY <1>2, <1>3, <2>1, <2>3
    <3>2. now - a[n] >= Window
      BY <1>1, <3>1 DEF Suffix
    <3> QED
      BY <1>4, <2>1, <2>3, <3>2
  <2>4. n + RateMax <= Len(a) \/ n + RateMax = Len(a) + 1
    <3>1. RateMax \in Nat /\ Len(a) \in Nat /\ n \in Nat /\ n + RateMax <= Len(a) + 1
      BY <1>2, <2>1
    <3> QED
      BY <3>1
  <2> QED
    BY <2>2, <2>3, <2>4
<1>10. Len(y) <= RateMax
  BY <1>2, <1>3, <1>5
<1>11. Bucket(x, y, now)
  BY <1>7, <1>8, <1>9, <1>10 DEF Bucket
<1> QED
  BY <1>11 DEF Admitted, g, x, y

\* A full bucket holds RateMax requests that were let in within the window.
LEMMA FullBucketIsEarned ==
    ASSUME NEW a, NEW h, now \in Nat, Bucket(a, h, now), Len(Fresh(h)) >= RateMax
    PROVE  Cardinality({n \in DOMAIN a : now - a[n] < Window}) >= RateMax
<1> DEFINE g == Fresh(h)
           k == Len(a) - Len(g)
           I == k + 1 .. Len(a)
           T == {n \in DOMAIN a : now - a[n] < Window}
<1>1. Suffix(g, a, now) /\ \A j \in 1 .. Len(g) : now - g[j] < Window
  BY SuffixOfSuffix DEF Bucket
<1>2. /\ a \in Seq(Nat) /\ g \in Seq(Nat) /\ Len(a) \in Nat /\ Len(g) \in Nat
      /\ Len(g) <= Len(a) /\ RateMax \in Nat \ {0}
  BY <1>1, LimitsAssumption DEF Bucket, Ordered, Suffix
<1> HIDE DEF g
<1>3. I \subseteq T
  <2> SUFFICES ASSUME NEW i \in I PROVE i \in T
    OBVIOUS
  <2>1. i - k \in 1 .. Len(g) /\ k + (i - k) = i /\ i \in DOMAIN a
    BY <1>2
  <2>2. g[i - k] = a[i]
    BY <1>1, <2>1 DEF Suffix
  <2> QED
    BY <1>1, <2>1, <2>2
<1>4. IsFiniteSet(T) /\ IsFiniteSet(I)
  <2>1. T \subseteq 1 .. Len(a) /\ I \subseteq 1 .. Len(a)
    BY <1>2
  <2>2. IsFiniteSet(1 .. Len(a))
    BY <1>2, FS_Interval
  <2> HIDE DEF I, T
  <2> QED
    BY <2>1, <2>2, FS_Subset
<1>5. Cardinality(I) = Len(g)
  <2> DEFINE m == k + 1
  <2>1. m \in Int /\ Len(a) \in Int /\ Len(a) - m + 1 = Len(g) /\ I = m .. Len(a)
    BY <1>2
  <2> HIDE DEF m, I, k
  <2>2. Cardinality(m .. Len(a)) = IF m > Len(a) THEN 0 ELSE Len(a) - m + 1
    BY <2>1, FS_Interval
  <2> QED
    BY <1>2, <2>1, <2>2
<1>6. Cardinality(I) <= Cardinality(T) /\ Cardinality(T) \in Nat
  BY <1>3, <1>4, FS_Subset, FS_CardinalityType
<1> QED
  BY <1>2, <1>5, <1>6 DEF g

-----------------------------------------------------------------------------
(* Containers *)

\* The types of a container's statement, request and answer.
TalkTypes ==
    /\ pc \in [Container -> {"idle", "rate", "daily", "parse", "ask", "grade", "hung"}]
    /\ req \in [Container -> [ip : Ip, body : Body] \cup {NoRequest}]
    /\ sent \in [Container -> Response]

\* ... of its globals and of the logs that speak of them.
AskTypes ==
    /\ now \in 0 .. MaxNow
    /\ TalkTypes
    /\ hits \in [Container -> [Ip -> Seq(Nat)]] /\ admits \in [Container -> [Ip -> Seq(Nat)]]
    /\ dayKey \in [Container -> Days \cup {NoDay}] /\ dayCount \in [Container -> 0 .. DailyCap]
    /\ counted \in [Container -> [Days -> Nat]]

\* Every bucket is the fresh end of its log, and a day's count has been counted.
AskInv ==
    /\ AskTypes
    /\ \A c \in Container, i \in Ip : Bucket(admits[c][i], hits[c][i], now)
    /\ \A c \in Container : dayKey[c] \in Days => dayCount[c] <= counted[c][dayKey[c]]

\* The request a container was handed names an address.
LEMMA RequestTypes ==
    /\ NoRequest \in [ip : Ip, body : {"none"}]
    /\ \A r \in [ip : Ip, body : Body] \cup {NoRequest} :
          r.ip \in Ip /\ (r.body \in Body \/ r = NoRequest)
<1>1. (CHOOSE i \in Ip : TRUE) \in Ip
  BY IpAssumption
<1>2. NoRequest \in [ip : Ip, body : {"none"}]
  BY <1>1 DEF NoRequest
<1> QED
  BY <1>2

\* A sequence whose entries are of a set is a sequence over it.
LEMMA SeqNarrows ==
    ASSUME NEW S, NEW T, NEW s \in Seq(S), \A i \in 1 .. Len(s) : s[i] \in T
    PROVE  s \in Seq(T)
<1>1. Len(s) \in Int /\ SubSeq(s, 1, Len(s)) = s
  BY SubSeqFull
<1>2. SubSeq(s, 1, Len(s)) \in Seq(T)
  BY <1>1, SubSeqProperties
<1> QED
  BY <1>1, <1>2

\* The invariant gives the types.
LEMMA AskTyped == AskInv => TypeOK
<1> SUFFICES ASSUME AskInv PROVE TypeOK
  OBVIOUS
<1>1. ASSUME NEW c \in Container PROVE req[c].ip \in Ip /\ (req[c].body \in Body \/ req[c] = NoRequest)
  BY RequestTypes DEF AskInv, AskTypes, TalkTypes
<1>2. ASSUME NEW c \in Container, NEW i \in Ip
      PROVE  hits[c][i] \in Seq(0 .. now) /\ Len(hits[c][i]) <= RateMax
  <2> DEFINE a == admits[c][i]
             h == hits[c][i]
  <2>1. Bucket(a, h, now)
    BY DEF AskInv
  <2> HIDE DEF a, h
  <2>2. /\ a \in Seq(Nat) /\ h \in Seq(Nat) /\ Len(a) \in Nat /\ Len(h) \in Nat /\ Len(h) <= Len(a)
        /\ \A j \in 1 .. Len(h) : h[j] = a[Len(a) - Len(h) + j]
        /\ \A j \in 1 .. Len(a) : a[j] <= now
        /\ Len(h) <= RateMax
    BY <2>1 DEF Bucket, Ordered, Suffix
  <2>3. ASSUME NEW j \in 1 .. Len(h) PROVE h[j] \in 0 .. now
    <3> DEFINE n == Len(a) - Len(h) + j
    <3>1. n \in 1 .. Len(a) /\ h[j] \in Nat
      BY <2>2
    <3>2. h[j] = a[n]
      BY <2>2
    <3>3. now \in Nat
      BY BoundsAssumption DEF AskInv, AskTypes, TalkTypes
    <3> HIDE DEF n
    <3>4. h[j] <= now
      BY <2>2, <3>1, <3>2
    <3> QED
      BY <3>1, <3>3, <3>4
  <2>4. h \in Seq(0 .. now)
    BY <2>2, <2>3, SeqNarrows
  <2> QED
    BY <2>2, <2>4 DEF h
<1> QED
  BY <1>1, <1>2 DEF AskInv, AskTypes, TalkTypes, TypeOK

\* A container starts with empty buckets.
LEMMA AskInitially == Init => AskInv
<1> SUFFICES ASSUME Init PROVE AskInv
  OBVIOUS
<1>1. now = 0 /\ now \in Nat /\ MaxNow \in Nat /\ DailyCap \in Nat /\ now \in 0 .. MaxNow
  BY BoundsAssumption, LimitsAssumption DEF Init
<1>2. NoDay \notin Days /\ Nothing \in Response /\ <<>> \in Seq(Nat)
  <2>1. NoDay \notin Days
    BY <1>1, TodayIsADay
  <2>2. Nothing \in Response
    BY DEF Nothing, Response
  <2> QED
    BY <2>1, <2>2
<1>3. AskTypes
  BY <1>1, <1>2 DEF Init, AskTypes, TalkTypes
<1>4. ASSUME NEW c \in Container, NEW i \in Ip PROVE Bucket(admits[c][i], hits[c][i], now)
  BY <1>1, EmptyBucket DEF Init
<1> QED
  BY <1>2, <1>3, <1>4 DEF Init, AskInv

\* A step that touches neither the globals nor their logs.
LEMMA OtherStepsKeepAsk ==
    ASSUME AskInv, AskTypes', UNCHANGED <<now, globals, admits, counted>>
    PROVE  AskInv'
<1>1. UNCHANGED <<now, hits, dayKey, dayCount, admits, counted>>
  BY DEF globals
<1>2. ASSUME NEW c \in Container, NEW i \in Ip PROVE Bucket(admits[c][i], hits[c][i], now)'
  BY <1>1 DEF AskInv, Bucket, Ordered, Suffix
<1>3. ASSUME NEW c \in Container
      PROVE  (dayKey[c] \in Days => dayCount[c] <= counted[c][dayKey[c]])'
  BY <1>1 DEF AskInv, Days
<1> QED
  BY <1>2, <1>3 DEF AskInv

\* An answer is a response.
LEMMA AnswerTypes ==
    ASSUME TalkTypes, NEW c \in Container,
           NEW v, NEW s, NEW w, NEW q, [verdict |-> v, source |-> s, why |-> w, sql |-> q] \in Response,
           Sends(c, v, s, w, q), Returns(c)
    PROVE  TalkTypes'
<1> DEFINE m == [verdict |-> v, source |-> s, why |-> w, sql |-> q]
<1>1. m \in Response /\ sent' = [sent EXCEPT ![c] = m]
  BY DEF Sends
<1> HIDE DEF m
<1>2. sent' \in [Container -> Response]
  BY <1>1 DEF TalkTypes
<1>3. req' \in [Container -> [ip : Ip, body : Body] \cup {NoRequest}]
  <2> DEFINE R == [ip : Ip, body : Body] \cup {NoRequest}
  <2>1. req' = [req EXCEPT ![c] = NoRequest] /\ NoRequest \in R /\ req \in [Container -> R]
    BY DEF Returns, TalkTypes
  <2> HIDE DEF R
  <2>2. req' \in [Container -> R]
    BY <2>1
  <2> QED
    BY <2>2 DEF R
<1>4. pc' \in [Container -> {"idle", "rate", "daily", "parse", "ask", "grade", "hung"}]
  BY DEF Returns, TalkTypes
<1> QED
  BY <1>2, <1>3, <1>4 DEF TalkTypes

\* Every step of a container takes it from statement to statement.
LEMMA TalkStep ==
    ASSUME TalkTypes, NEW c \in Container,
           Invoke(c) \/ NotPost(c) \/ Handle(c) \/ Discard(c)
    PROVE  TalkTypes'
<1> DEFINE R == [ip : Ip, body : Body] \cup {NoRequest}
<1>1. CASE Invoke(c)
  <2>1. PICK i \in Ip, b \in Body : req' = [req EXCEPT ![c] = [ip |-> i, body |-> b]]
    BY <1>1 DEF Invoke
  <2> DEFINE r == [ip |-> i, body |-> b]
  <2>2. r \in R /\ req' = [req EXCEPT ![c] = r] /\ req \in [Container -> R]
    BY <2>1 DEF TalkTypes
  <2> HIDE DEF R, r
  <2>3. req' \in [Container -> R]
    BY <2>2
  <2>4. Nothing \in Response
    BY DEF Nothing, Response
  <2>5. sent' \in [Container -> Response] /\ pc' \in [Container -> {"idle", "rate", "daily", "parse", "ask", "grade", "hung"}]
    BY <1>1, <2>4 DEF Invoke, TalkTypes
  <2> QED
    BY <2>3, <2>5 DEF TalkTypes, R
<1>2. ASSUME NEW at \in {"idle", "rate", "daily", "parse", "ask", "grade", "hung"},
             pc' = [pc EXCEPT ![c] = at], UNCHANGED <<req, sent>>
      PROVE  TalkTypes'
  BY <1>2 DEF TalkTypes
<1>3. CASE \E v \in {"none", "error", "rejected", "correct", "wrong"},
              s \in {"live", "recorded", "none"},
              w \in {"none", "rate", "cap", "input", "dsn", "raised", "agent", "guard", "sqlite", "graded"},
              q \in BOOLEAN : Sends(c, v, s, w, q) /\ Returns(c)
  <2>1. PICK v \in {"none", "error", "rejected", "correct", "wrong"},
              s \in {"live", "recorded", "none"},
              w \in {"none", "rate", "cap", "input", "dsn", "raised", "agent", "guard", "sqlite", "graded"},
              q \in BOOLEAN : Sends(c, v, s, w, q) /\ Returns(c)
    BY <1>3
  <2>2. [verdict |-> v, source |-> s, why |-> w, sql |-> q] \in Response
    BY DEF Response
  <2> QED
    BY <2>1, <2>2, AnswerTypes
<1>4. CASE NotPost(c) \/ AskRefuses(c) \/ AskFails(c) \/ GuardRefuses(c) \/ Graded(c)
  <2>1. PICK v \in {"none", "error", "rejected", "correct", "wrong"},
             s \in {"live", "recorded", "none"},
             w \in {"none", "input", "dsn", "raised", "agent", "guard", "graded"},
             q \in BOOLEAN : Sends(c, v, s, w, q) /\ Returns(c)
    <3>1. CASE NotPost(c)
      BY <3>1 DEF NotPost, Answer
    <3>2. CASE AskRefuses(c)
      BY <3>2 DEF AskRefuses, Answer
    <3>3. CASE AskFails(c) \/ GuardRefuses(c)
      BY <3>3 DEF AskFails, GuardRefuses, Answer
    <3>4. CASE Graded(c)
      BY <3>4 DEF Graded
    <3> QED
      BY <1>4, <3>1, <3>2, <3>3, <3>4
  <2> QED
    BY <1>3, <2>1
<1>5. CASE QueryFails(c)
  <2>1. (~ Pysqlite) \in BOOLEAN
    BY BuildAssumption
  <2>2. Sends(c, "error", "live", "sqlite", ~ Pysqlite) /\ Returns(c)
    BY <1>5 DEF QueryFails
  <2>3. [verdict |-> "error", source |-> "live", why |-> "sqlite", sql |-> ~ Pysqlite] \in Response
    BY <2>1 DEF Response
  <2> QED
    BY <2>2, <2>3, AnswerTypes
<1>6. CASE RateOk(c)
  <2>1. CASE Len(Fresh(hits[c][req[c].ip])) >= RateMax
    <3>1. Answer(c, "error", "live", "rate")
      BY <1>6, <2>1 DEF RateOk
    <3> QED
      BY <1>3, <3>1 DEF Answer
  <2>2. CASE ~ (Len(Fresh(hits[c][req[c].ip])) >= RateMax)
    <3>1. pc' = [pc EXCEPT ![c] = "daily"] /\ UNCHANGED <<req, sent>>
      BY <1>6, <2>2 DEF RateOk
    <3> QED
      BY <1>2, <3>1
  <2> QED
    BY <2>1, <2>2
<1>7. CASE DailyOk(c)
  <2>1. CASE Exhausted(CountToday(c))
    <3>1. Answer(c, "error", "recorded", "cap")
      BY <1>7, <2>1 DEF DailyOk
    <3> QED
      BY <1>3, <3>1 DEF Answer
  <2>2. CASE ~ Exhausted(CountToday(c))
    <3>1. pc' = [pc EXCEPT ![c] = "parse"] /\ UNCHANGED <<req, sent>>
      BY <1>7, <2>2 DEF DailyOk
    <3> QED
      BY <1>2, <3>1
  <2> QED
    BY <2>1, <2>2
<1>8. CASE ParseBody(c)
  <2>1. CASE req[c].body = "not_json"
    <3>1. Answer(c, "error", "live", "input")
      BY <1>8, <2>1 DEF ParseBody
    <3> QED
      BY <1>3, <3>1 DEF Answer
  <2>2. CASE req[c].body = "not_object"
    <3>1. Answer(c, "none", "none", "raised")
      BY <1>8, <2>2 DEF ParseBody
    <3> QED
      BY <1>3, <3>1 DEF Answer
  <2>3. CASE req[c].body \notin {"not_json", "not_object"}
    <3>1. pc' = [pc EXCEPT ![c] = "ask"] /\ UNCHANGED <<req, sent>>
      BY <1>8, <2>3 DEF ParseBody
    <3> QED
      BY <1>2, <3>1
  <2> QED
    BY <2>1, <2>2, <2>3
<1>9. CASE Generate(c) \/ QueryHangs(c)
  <2>1. CASE Generate(c)
    BY <1>2, <2>1 DEF Generate
  <2>2. CASE QueryHangs(c)
    BY <1>2, <2>2 DEF QueryHangs
  <2> QED
    BY <1>9, <2>1, <2>2
<1>10. CASE Discard(c) \/ FunctionTimeout(c)
  BY <1>3, <1>10 DEF Discard, FunctionTimeout, ColdStart
<1> QED
  BY <1>1, <1>4, <1>5, <1>6, <1>7, <1>8, <1>9, <1>10 DEF Handle

\* A request is let in and logged, or refused and the bucket pruned.
LEMMA RateOkKeepsAsk == ASSUME AskInv, AskTypes', NEW c \in Container, RateOk(c) PROVE AskInv'
<1> DEFINE i == req[c].ip
           a == admits[c][i]
           h == hits[c][i]
           g == Fresh(h)
<1>1. i \in Ip
  BY RequestTypes DEF AskInv, AskTypes, TalkTypes
<1>2. now \in Nat /\ UNCHANGED <<now, dayKey, dayCount, counted>>
  BY BoundsAssumption DEF RateOk, AskInv, AskTypes
<1>3. Bucket(a, h, now)
  BY <1>1 DEF AskInv
<1>4. \/ /\ hits' = [hits EXCEPT ![c][i] = g] /\ UNCHANGED admits
         /\ Bucket(a, g, now)
      \/ /\ hits' = [hits EXCEPT ![c][i] = Admitted(g)]
         /\ admits' = [admits EXCEPT ![c][i] = Append(a, now)]
         /\ Bucket(Append(a, now), Admitted(g), now)
  <2>1. CASE Len(g) >= RateMax
    <3>1. hits' = [hits EXCEPT ![c][i] = g] /\ UNCHANGED admits
      BY <2>1 DEF RateOk
    <3> QED
      BY <1>2, <1>3, <3>1, BucketPruned
  <2>2. CASE ~ (Len(g) >= RateMax)
    <3>1. hits' = [hits EXCEPT ![c][i] = Admitted(g)] /\ admits' = [admits EXCEPT ![c][i] = Append(a, now)]
      BY <2>2 DEF RateOk
    <3>2. Bucket(Append(a, now), Admitted(g), now)
      BY <1>2, <1>3, <2>2, BucketAdmits
    <3> QED
      BY <3>1, <3>2
  <2> QED
    BY <2>1, <2>2
<1>5. /\ hits \in [Container -> [Ip -> Seq(Nat)]] /\ admits \in [Container -> [Ip -> Seq(Nat)]]
  BY DEF AskInv, AskTypes
<1> HIDE DEF i, g
<1>6. Bucket(admits'[c][i], hits'[c][i], now)
  <2>1. hits' = [hits EXCEPT ![c][i] = g] => hits'[c][i] = g
    BY <1>1, <1>5
  <2>2. hits' = [hits EXCEPT ![c][i] = Admitted(g)] => hits'[c][i] = Admitted(g)
    BY <1>1, <1>5
  <2>3. admits' = [admits EXCEPT ![c][i] = Append(a, now)] => admits'[c][i] = Append(a, now)
    BY <1>1, <1>5
  <2> QED
    BY <1>4, <2>1, <2>2, <2>3
<1>7. ASSUME NEW o \in Container, NEW j \in Ip, o # c \/ j # i
      PROVE  admits'[o][j] = admits[o][j] /\ hits'[o][j] = hits[o][j]
  BY <1>1, <1>4, <1>5, <1>7
<1>8. ASSUME NEW o \in Container, NEW j \in Ip PROVE Bucket(admits'[o][j], hits'[o][j], now)
  <2>1. CASE o = c /\ j = i
    BY <1>6, <2>1
  <2>2. CASE o # c \/ j # i
    <3>1. Bucket(admits[o][j], hits[o][j], now)
      BY DEF AskInv
    <3> QED
      BY <1>7, <2>2, <3>1
  <2> QED
    BY <2>1, <2>2
<1>9. ASSUME NEW o \in Container, NEW j \in Ip PROVE Bucket(admits[o][j], hits[o][j], now)'
  BY <1>2, <1>8 DEF Bucket, Ordered, Suffix
<1>10. ASSUME NEW o \in Container
       PROVE  (dayKey[o] \in Days => dayCount[o] <= counted[o][dayKey[o]])'
  BY <1>2 DEF AskInv, Days
<1> QED
  BY <1>9, <1>10 DEF AskInv

\* What a step leaves of the globals' types.
LEMMA AskTypesStep ==
    ASSUME AskInv, NEW c \in Container, Invoke(c) \/ NotPost(c) \/ Handle(c) \/ Discard(c)
    PROVE  AskTypes'
<1>1. TalkTypes'
  BY TalkStep DEF AskInv, AskTypes
<1>2. now' = now
  BY DEF Invoke, NotPost, Handle, Discard, RateOk, DailyOk, ParseBody, AskRefuses, Generate, AskFails,
         GuardRefuses, QueryFails, Graded, QueryHangs, FunctionTimeout, ColdStart
<1>3. /\ Today \in Days /\ NoDay \in Nat /\ DailyCap \in Nat /\ now \in Nat
  BY TodayIsADay, LimitsAssumption, BoundsAssumption DEF AskInv, AskTypes
<1>4. CASE RateOk(c)
  <2> DEFINE i == req[c].ip
             a == admits[c][i]
             h == hits[c][i]
             g == Fresh(h)
  <2>1. i \in Ip
    BY RequestTypes DEF AskInv, AskTypes, TalkTypes
  <2>2. Bucket(a, h, now)
    BY <2>1 DEF AskInv
  <2>3. a \in Seq(Nat) /\ g \in Seq(Nat) /\ Append(a, now) \in Seq(Nat) /\ Admitted(g) \in Seq(Nat)
    <3> HIDE DEF a, h
    <3>1. Suffix(g, a, now)
      BY <1>3, <2>2, SuffixOfSuffix DEF Bucket
    <3>2. a \in Seq(Nat)
      BY <2>2 DEF Bucket, Ordered
    <3> HIDE DEF g
    <3>3. g \in Seq(Nat)
      BY <3>1 DEF Suffix
    <3> QED
      BY <1>3, <3>2, <3>3, AppendProperties DEF Admitted
  <2>4. \/ hits' = [hits EXCEPT ![c][i] = g] /\ admits' = admits
        \/ hits' = [hits EXCEPT ![c][i] = Admitted(g)] /\ admits' = [admits EXCEPT ![c][i] = Append(a, now)]
    BY <1>4 DEF RateOk
  <2>5. hits \in [Container -> [Ip -> Seq(Nat)]] /\ admits \in [Container -> [Ip -> Seq(Nat)]]
    BY DEF AskInv, AskTypes
  <2> HIDE DEF i, g
  <2>6. hits' \in [Container -> [Ip -> Seq(Nat)]] /\ admits' \in [Container -> [Ip -> Seq(Nat)]]
    <3> DEFINE S == Seq(Nat)
    <3>1. \E x \in S, y \in S :
             /\ hits' = [hits EXCEPT ![c][i] = x]
             /\ admits' = admits \/ admits' = [admits EXCEPT ![c][i] = y]
      BY <2>3, <2>4
    <3>2. hits \in [Container -> [Ip -> S]] /\ admits \in [Container -> [Ip -> S]]
      BY <2>5
    <3>3. PICK x \in S, y \in S :
             /\ hits' = [hits EXCEPT ![c][i] = x]
             /\ admits' = admits \/ admits' = [admits EXCEPT ![c][i] = y]
      BY <3>1
    <3> HIDE DEF S
    <3> DEFINE T == [Ip -> S]
               p == [hits[c] EXCEPT ![i] = x]
               q == [admits[c] EXCEPT ![i] = y]
    <3>4. p \in T /\ q \in T /\ hits \in [Container -> T] /\ admits \in [Container -> T]
      BY <2>1, <3>2, <3>3
    <3>5. hits' = [hits EXCEPT ![c] = p] /\ (admits' = admits \/ admits' = [admits EXCEPT ![c] = q])
      BY <3>3
    <3> HIDE DEF T, p, q
    <3>6. hits' \in [Container -> T] /\ admits' \in [Container -> T]
      BY <3>4, <3>5
    <3> QED
      BY <3>6 DEF S, T
  <2>7. UNCHANGED <<dayKey, dayCount, counted>>
    BY <1>4 DEF RateOk
  <2> QED
    BY <1>1, <1>2, <2>6, <2>7 DEF AskInv, AskTypes, Days, NoDay
<1>5. CASE DailyOk(c)
  <2> DEFINE count == CountToday(c)
  <2>1. count \in 0 .. DailyCap
    BY <1>3 DEF CountToday, AskInv, AskTypes
  <2>2. dayKey' = [dayKey EXCEPT ![c] = Today] /\ UNCHANGED <<hits, admits>>
    BY <1>5 DEF DailyOk
  <2>3. \/ dayCount' = [dayCount EXCEPT ![c] = count] /\ UNCHANGED counted
        \/ /\ ~ Exhausted(count) /\ dayCount' = [dayCount EXCEPT ![c] = count + 1]
           /\ counted' = [counted EXCEPT ![c][Today] = @ + 1]
    BY <1>5 DEF DailyOk
  <2> HIDE DEF count
  <2>4. count + 1 \in 0 .. DailyCap \/ Exhausted(count)
    BY <1>3, <2>1 DEF Exhausted
  <2>5. dayCount' \in [Container -> 0 .. DailyCap]
    BY <2>1, <2>3, <2>4 DEF AskInv, AskTypes
  <2>6. counted' \in [Container -> [Days -> Nat]]
    <3> DEFINE T == [Days -> Nat]
               row == [counted[c] EXCEPT ![Today] = @ + 1]
    <3>1. row \in T /\ counted \in [Container -> T]
      BY <1>3 DEF AskInv, AskTypes
    <3>2. counted' = counted \/ counted' = [counted EXCEPT ![c] = row]
      BY <2>3
    <3> HIDE DEF T, row
    <3>3. counted' \in [Container -> T]
      BY <3>1, <3>2
    <3> QED
      BY <3>3 DEF T
  <2>7. dayKey' \in [Container -> Days \cup {NoDay}]
    BY <1>3, <2>2 DEF AskInv, AskTypes
  <2> QED
    BY <1>1, <1>2, <2>2, <2>5, <2>6, <2>7 DEF AskInv, AskTypes, Days, NoDay
<1>6. CASE Discard(c) \/ FunctionTimeout(c)
  <2>1. ColdStart(c)
    BY <1>6 DEF Discard, FunctionTimeout
  <2>2. <<>> \in Seq(Nat) /\ [i \in Ip |-> <<>>] \in [Ip -> Seq(Nat)]
    OBVIOUS
  <2>3. hits' \in [Container -> [Ip -> Seq(Nat)]] /\ admits' \in [Container -> [Ip -> Seq(Nat)]]
    <3> DEFINE S == [Ip -> Seq(Nat)]
               e == [i \in Ip |-> <<>>]
    <3>1. e \in S /\ hits' = [hits EXCEPT ![c] = e] /\ admits' = [admits EXCEPT ![c] = e]
          /\ hits \in [Container -> S] /\ admits \in [Container -> S]
      BY <2>1, <2>2 DEF ColdStart, AskInv, AskTypes
    <3> HIDE DEF S, e
    <3>2. hits' \in [Container -> S] /\ admits' \in [Container -> S]
      BY <3>1
    <3> QED
      BY <3>2 DEF S
  <2>4. /\ dayKey' \in [Container -> Days \cup {NoDay}] /\ dayCount' \in [Container -> 0 .. DailyCap]
        /\ counted' \in [Container -> [Days -> Nat]]
    BY <1>3, <2>1 DEF ColdStart, AskInv, AskTypes
  <2> QED
    BY <1>1, <1>2, <2>3, <2>4 DEF AskInv, AskTypes, Days, NoDay
<1>7. CASE \/ Invoke(c) \/ NotPost(c) \/ ParseBody(c) \/ AskRefuses(c) \/ Generate(c)
           \/ AskFails(c) \/ GuardRefuses(c) \/ QueryFails(c) \/ Graded(c) \/ QueryHangs(c)
  <2>1. UNCHANGED <<hits, dayKey, dayCount, admits, counted>>
    BY <1>7 DEF Invoke, NotPost, ParseBody, AskRefuses, Generate, AskFails, GuardRefuses,
                QueryFails, Graded, QueryHangs, globals, logs
  <2> QED
    BY <1>1, <1>2, <2>1 DEF AskInv, AskTypes, Days, NoDay
<1> QED
  BY <1>4, <1>5, <1>6, <1>7 DEF Handle

\* The count of a day grows with what was let in on that day.
LEMMA DailyOkKeepsAsk == ASSUME AskInv, AskTypes', NEW c \in Container, DailyOk(c) PROVE AskInv'
<1> DEFINE count == CountToday(c)
<1>1. Today \in Days /\ Days \subseteq Nat /\ now \in Nat /\ DailyCap \in Nat
  BY TodayIsADay, LimitsAssumption, BoundsAssumption DEF AskInv, AskTypes
<1>2. dayKey' = [dayKey EXCEPT ![c] = Today] /\ UNCHANGED <<now, hits, admits>>
  BY DEF DailyOk
<1>3. \/ dayCount' = [dayCount EXCEPT ![c] = count] /\ UNCHANGED counted
      \/ /\ dayCount' = [dayCount EXCEPT ![c] = count + 1]
         /\ counted' = [counted EXCEPT ![c][Today] = @ + 1]
  BY DEF DailyOk
<1>4. /\ dayKey \in [Container -> Days \cup {NoDay}] /\ dayCount \in [Container -> 0 .. DailyCap]
      /\ counted \in [Container -> [Days -> Nat]]
  BY DEF AskInv, AskTypes
<1>5. count \in Nat /\ count <= counted[c][Today]
  BY <1>1, <1>4 DEF AskInv, CountToday
<1> HIDE DEF count
<1>6. ASSUME NEW o \in Container
      PROVE  dayKey'[o] \in Days => dayCount'[o] <= counted'[o][dayKey'[o]]
  <2>1. CASE o = c
    <3>1. dayKey'[o] = Today
      BY <1>2, <1>4, <2>1
    <3>2. dayCount'[o] <= counted'[o][Today]
      BY <1>1, <1>3, <1>4, <1>5, <2>1
    <3> QED
      BY <3>1, <3>2
  <2>2. CASE o # c
    <3>1. dayKey'[o] = dayKey[o] /\ dayCount'[o] = dayCount[o] /\ counted'[o] = counted[o]
      BY <1>2, <1>3, <1>4, <2>2
    <3> QED
      BY <3>1 DEF AskInv
  <2> QED
    BY <2>1, <2>2
<1>7. ASSUME NEW o \in Container
      PROVE  (dayKey[o] \in Days => dayCount[o] <= counted[o][dayKey[o]])'
  BY <1>6 DEF Days
<1>8. ASSUME NEW o \in Container, NEW i \in Ip PROVE Bucket(admits[o][i], hits[o][i], now)'
  BY <1>2 DEF AskInv, Bucket, Ordered, Suffix
<1> QED
  BY <1>7, <1>8 DEF AskInv

\* A cold start forgets the bucket along with its log.
LEMMA ColdStartKeepsAsk == ASSUME AskInv, AskTypes', NEW c \in Container, ColdStart(c) PROVE AskInv'
<1>1. now \in Nat /\ now' = now /\ NoDay \notin Days
  BY TodayIsADay, BoundsAssumption DEF ColdStart, AskInv, AskTypes
<1>2. /\ hits' = [hits EXCEPT ![c] = [i \in Ip |-> <<>>]]
      /\ admits' = [admits EXCEPT ![c] = [i \in Ip |-> <<>>]]
      /\ dayKey' = [dayKey EXCEPT ![c] = NoDay]
      /\ dayCount' = [dayCount EXCEPT ![c] = 0]
      /\ counted' = [counted EXCEPT ![c] = [d \in Days |-> 0]]
  BY DEF ColdStart
<1>3. /\ hits \in [Container -> [Ip -> Seq(Nat)]] /\ admits \in [Container -> [Ip -> Seq(Nat)]]
      /\ dayKey \in [Container -> Days \cup {NoDay}] /\ dayCount \in [Container -> 0 .. DailyCap]
      /\ counted \in [Container -> [Days -> Nat]]
  BY DEF AskInv, AskTypes
<1>4. ASSUME NEW o \in Container, NEW i \in Ip PROVE Bucket(admits[o][i], hits[o][i], now)'
  <2>1. Bucket(admits'[o][i], hits'[o][i], now)
    <3>1. CASE o = c
      BY <1>1, <1>2, <1>3, <3>1, EmptyBucket
    <3>2. CASE o # c
      BY <1>2, <1>3, <3>2 DEF AskInv
    <3> QED
      BY <3>1, <3>2
  <2> QED
    BY <1>1, <2>1 DEF Bucket, Ordered, Suffix
<1>5. ASSUME NEW o \in Container
      PROVE  (dayKey[o] \in Days => dayCount[o] <= counted[o][dayKey[o]])'
  <2>1. CASE o = c
    BY <1>1, <1>2, <1>3, <2>1 DEF Days
  <2>2. CASE o # c
    BY <1>2, <1>3, <2>2 DEF AskInv, Days
  <2> QED
    BY <2>1, <2>2
<1> QED
  BY <1>4, <1>5 DEF AskInv

\* Every step keeps every bucket the fresh end of its log.
LEMMA AskInductive == AskInv /\ [Next]_vars => AskInv'
<1> SUFFICES ASSUME AskInv, [Next]_vars PROVE AskInv'
  OBVIOUS
<1>1. CASE Tick
  <2>1. now \in Nat /\ now' \in Nat /\ now <= now' /\ now' \in 0 .. MaxNow
    BY <1>1, BoundsAssumption DEF Tick, AskInv, AskTypes
  <2>2. UNCHANGED <<pc, req, sent, hits, dayKey, dayCount, admits, counted>>
    BY <1>1 DEF Tick, globals, logs
  <2>3. AskTypes'
    BY <2>1, <2>2 DEF AskInv, AskTypes, TalkTypes, Days, NoDay
  <2>4. ASSUME NEW o \in Container, NEW i \in Ip PROVE Bucket(admits[o][i], hits[o][i], now)'
    <3>1. Bucket(admits[o][i], hits[o][i], now)
      BY DEF AskInv
    <3>2. Bucket(admits[o][i], hits[o][i], now')
      BY <2>1, <3>1, BucketAges
    <3> QED
      BY <2>2, <3>2 DEF Bucket, Ordered, Suffix
  <2>5. ASSUME NEW o \in Container
        PROVE  (dayKey[o] \in Days => dayCount[o] <= counted[o][dayKey[o]])'
    BY <2>2 DEF AskInv, Days
  <2> QED
    BY <2>3, <2>4, <2>5 DEF AskInv
<1>2. ASSUME NEW c \in Container, Invoke(c) \/ NotPost(c) \/ Handle(c) \/ Discard(c) PROVE AskInv'
  <2> AskTypes'
    BY <1>2, AskTypesStep
  <2>1. CASE RateOk(c)
    BY <2>1, RateOkKeepsAsk
  <2>2. CASE DailyOk(c)
    BY <2>2, DailyOkKeepsAsk
  <2>3. CASE Discard(c) \/ FunctionTimeout(c)
    BY <2>3, ColdStartKeepsAsk DEF Discard, FunctionTimeout
  <2>4. CASE \/ Invoke(c) \/ NotPost(c) \/ ParseBody(c) \/ AskRefuses(c) \/ Generate(c)
             \/ AskFails(c) \/ GuardRefuses(c) \/ QueryFails(c) \/ Graded(c) \/ QueryHangs(c)
    <3>1. UNCHANGED <<now, globals, admits, counted>>
      BY <2>4 DEF Invoke, NotPost, ParseBody, AskRefuses, Generate, AskFails, GuardRefuses,
                  QueryFails, Graded, QueryHangs, globals, logs
    <3> QED
      BY <3>1, OtherStepsKeepAsk
  <2> QED
    BY <1>2, <2>1, <2>2, <2>3, <2>4 DEF Handle
<1>3. CASE UNCHANGED vars
  <2>1. UNCHANGED <<now, globals, admits, counted>> /\ UNCHANGED <<pc, req, sent, hits, dayKey, dayCount>>
    BY <1>3 DEF vars, logs, globals
  <2>2. AskTypes'
    BY <2>1 DEF AskInv, AskTypes, TalkTypes, Days, NoDay
  <2> QED
    BY <2>1, <2>2, OtherStepsKeepAsk
<1> QED
  BY <1>1, <1>2, <1>3 DEF Next

\* A step that refuses a request had grounds to.
LEMMA RefusalIsEarned ==
    ASSUME AskInv, [Next]_vars, NEW c \in Container
    PROVE  /\ Refuses(c, "rate") =>
                 Cardinality({n \in DOMAIN admits[c][req[c].ip] :
                                now - admits[c][req[c].ip][n] < Window}) >= RateMax
           /\ Refuses(c, "cap") => counted[c][Today] >= DailyCap
<1>1. SUFFICES ASSUME NEW w \in {"rate", "cap"}, Refuses(c, w)
               PROVE  /\ w = "rate" =>
                           Cardinality({n \in DOMAIN admits[c][req[c].ip] :
                                          now - admits[c][req[c].ip][n] < Window}) >= RateMax
                      /\ w = "cap" => counted[c][Today] >= DailyCap
  OBVIOUS
<1>2. /\ pc[c] \in {"rate", "daily"} /\ pc'[c] = "idle" /\ sent'[c].why = w
      /\ pc \in [Container -> {"idle", "rate", "daily", "parse", "ask", "grade", "hung"}]
      /\ sent \in [Container -> Response]
  BY <1>1 DEF Refuses, AskInv, AskTypes, TalkTypes
<1>3. RateOk(c) \/ DailyOk(c)
  <2>1. CASE UNCHANGED vars \/ Tick
    <3>1. pc' = pc
      BY <2>1 DEF vars, Tick
    <3> QED
      BY <1>2, <3>1
  <2>2. ASSUME NEW o \in Container, Invoke(o) \/ NotPost(o) \/ Handle(o) \/ Discard(o)
        PROVE  RateOk(c) \/ DailyOk(c)
    <3>1. \E at : pc' = [pc EXCEPT ![o] = at]
      BY <2>2 DEF Invoke, NotPost, Handle, Discard, RateOk, DailyOk, ParseBody, AskRefuses, Generate,
                  AskFails, GuardRefuses, QueryFails, Graded, QueryHangs, FunctionTimeout, ColdStart,
                  Answer, Returns
    <3>2. o = c
      BY <1>2, <3>1
    <3>3. CASE Discard(c)
      <4>1. sent' = [sent EXCEPT ![c] = [verdict |-> "none", source |-> "none", why |-> "none", sql |-> FALSE]]
        BY <3>3 DEF Discard, ColdStart, Sends
      <4>2. sent'[c].why = "none"
        BY <1>2, <4>1
      <4> QED
        BY <1>1, <1>2, <4>2
    <3>4. ~ (\/ Invoke(c) \/ NotPost(c) \/ ParseBody(c) \/ AskRefuses(c) \/ Generate(c) \/ AskFails(c)
             \/ GuardRefuses(c) \/ QueryFails(c) \/ Graded(c) \/ QueryHangs(c) \/ FunctionTimeout(c))
      BY <1>2 DEF Invoke, NotPost, ParseBody, AskRefuses, Generate, AskFails, GuardRefuses,
                  QueryFails, Graded, QueryHangs, FunctionTimeout
    <3> QED
      BY <2>2, <3>2, <3>3, <3>4 DEF Handle
  <2> QED
    BY <2>1, <2>2 DEF Next
<1>4. ASSUME NEW v, NEW s, NEW x, Answer(c, v, s, x) PROVE w = x
  <2>1. sent' = [sent EXCEPT ![c] = [verdict |-> v, source |-> s, why |-> x, sql |-> FALSE]]
    BY <1>4 DEF Answer, Sends
  <2>2. sent'[c] = [verdict |-> v, source |-> s, why |-> x, sql |-> FALSE]
    BY <1>2, <2>1
  <2> QED
    BY <1>2, <2>2
<1>5. now \in Nat /\ Today \in Days /\ DailyCap \in Nat
  BY TodayIsADay, LimitsAssumption, BoundsAssumption DEF AskInv, AskTypes
<1>6. CASE RateOk(c)
  <2> DEFINE i == req[c].ip
             a == admits[c][i]
             h == hits[c][i]
  <2>1. CASE Len(Fresh(h)) >= RateMax
    <3>1. Answer(c, "error", "live", "rate")
      BY <1>6, <2>1 DEF RateOk
    <3>2. w = "rate"
      BY <1>4, <3>1
    <3>3. i \in Ip
      BY RequestTypes DEF AskInv, AskTypes, TalkTypes
    <3>4. Bucket(a, h, now)
      BY <3>3 DEF AskInv
    <3>5. Cardinality({n \in DOMAIN a : now - a[n] < Window}) >= RateMax
      BY <1>5, <2>1, <3>4, FullBucketIsEarned
    <3> QED
      BY <3>2, <3>5
  <2>2. CASE ~ (Len(Fresh(h)) >= RateMax)
    <3>1. pc' = [pc EXCEPT ![c] = "daily"]
      BY <1>6, <2>2 DEF RateOk
    <3> QED
      BY <1>2, <3>1
  <2> QED
    BY <2>1, <2>2
<1>7. CASE DailyOk(c)
  <2>1. CASE Exhausted(CountToday(c))
    <3>1. Answer(c, "error", "recorded", "cap")
      BY <1>7, <2>1 DEF DailyOk
    <3>2. w = "cap"
      BY <1>4, <3>1
    <3>3. counted[c][Today] >= DailyCap
      <4>1. /\ counted[c] \in [Days -> Nat] /\ dayCount[c] \in Nat
            /\ dayKey[c] = Today => dayCount[c] <= counted[c][Today]
        BY <1>5 DEF AskInv, AskTypes
      <4> QED
        BY <1>5, <2>1, <4>1 DEF Exhausted, CountToday
    <3> QED
      BY <3>2, <3>3
  <2>2. CASE ~ Exhausted(CountToday(c))
    <3>1. pc' = [pc EXCEPT ![c] = "parse"]
      BY <1>7, <2>2 DEF DailyOk
    <3> QED
      BY <1>2, <3>1
  <2> QED
    BY <2>1, <2>2
<1> QED
  BY <1>3, <1>6, <1>7

\* "rate limit" is said only to an address let through RateMax times within the
\* window, "cap" only after DailyCap requests were let in today.
THEOREM EveryRefusalIsEarned == Spec => RefusalsAreEarned
<1>1. AskInv /\ [Next]_vars =>
        [\A c \in Container :
           /\ Refuses(c, "rate") =>
                 Cardinality({n \in DOMAIN admits[c][req[c].ip] :
                                now - admits[c][req[c].ip][n] < Window}) >= RateMax
           /\ Refuses(c, "cap") => counted[c][Today] >= DailyCap]_vars
  BY RefusalIsEarned
<1> QED
  BY <1>1, AskInitially, AskInductive, PTL DEF Spec, RefusalsAreEarned

\* Whatever is asked of it, a container runs from statement to statement, its
\* buckets hold times that have been, no more than RateMax of them, and its
\* count stays within the cap.
THEOREM AskTypeCorrect == Spec => []TypeOK
BY AskInitially, AskInductive, AskTyped, PTL DEF Spec

\* No RateMax + 1 requests of an address get through a container within a window,
\* for any RateMax, any window and any spacing of the requests.
THEOREM RateIsLimited == Spec => []WindowHolds
<1>1. AskInv => WindowHolds
  BY DEF AskInv, Bucket, WindowHolds
<1> QED
  BY <1>1, AskInitially, AskInductive, PTL DEF Spec
=============================================================================
