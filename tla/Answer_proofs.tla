------------------------------ MODULE Answer_proofs ------------------------------
(***************************************************************************)
(* Two facts about answering, for any texts, any length of the exam and    *)
(* any clock.  A read that begins because the wait says so does not begin  *)
(* before its stamp: float64 rounding is monotone and moves a number by    *)
(* half an ulp at most.  The graders agree: every row on its way to one is *)
(* marked rejected exactly if the guard refuses its text, and what the     *)
(* guard lets pass does not write, so cmd_grade's one connection is always *)
(* as seeded.                                                              *)
(***************************************************************************)
EXTENDS Answer, TLAPS

RowType == [text : Text, rejected : BOOLEAN]

\* Rows as answer_one and cmd_baseline make them.
Guarded(file) == \A i \in DOMAIN file : file[i].rejected <=> Refused(file[i].text)

AnswerTypes ==
    /\ rows \in Seq(RowType) /\ Len(rows) < Items
    /\ answers \in Seq(RowType) /\ Len(answers) \in {0, Items}
    /\ verdicts \subseteq [by : {"grade", "probe", "recorded"}, item : 1 .. Items,
                           text : Text, correct : BOOLEAN]

GradersInv ==
    /\ AnswerTypes
    /\ Guarded(rows) /\ Guarded(answers)
    /\ GradersAgree

-----------------------------------------------------------------------------
(* Grading *)

\* The row of a text is marked rejected exactly if the guard refuses the text.
LEMMA RowIsGuarded ==
    ASSUME NEW t \in Text
    PROVE  Row(t) \in RowType /\ Row(t).text = t /\ (Row(t).rejected <=> Refused(t))
BY SqliteAssumption DEF Row, RowType, Refused, TextType

\* What the guard lets pass does not write, so a file leaves the warehouse as seeded.
LEMMA GuardedIsPristine ==
    ASSUME NEW file \in Seq(RowType), Guarded(file), NEW i \in DOMAIN file
    PROVE  Pristine(file, i)
<1> SUFFICES ASSUME NEW j \in 1 .. i - 1 PROVE ~Runs(file[j], "writes")
  BY DEF Pristine
<1>1. j \in DOMAIN file
  OBVIOUS
<1>2. file[j].text \in Text /\ (file[j].rejected <=> Refused(file[j].text))
  <2>1. file[j] \in RowType
    BY <1>1
  <2> QED
    BY <1>1, <2>1 DEF RowType, Guarded
<1>3. file[j].text.does = "writes" => Refused(file[j].text)
  BY <1>2, SqliteAssumption DEF Refused
<1> QED
  BY <1>2, <1>3, Zenon DEF Runs

\* A guarded row counts as correct exactly if its text is right.
LEMMA GuardedIsRight ==
    ASSUME NEW file \in Seq(RowType), Guarded(file), NEW i \in DOMAIN file
    PROVE  /\ file[i].text \in Text
           /\ Runs(file[i], "right") <=> Right(file[i].text)
<1>1. file[i] \in RowType
  OBVIOUS
<1>2. file[i].text \in Text
  BY <1>1 DEF RowType
<1>3. file[i].rejected <=> Refused(file[i].text)
  BY Zenon DEF Guarded
<1> QED
  BY <1>2, <1>3, Zenon DEF Runs, Right

\* Appending the row of a text keeps a file guarded.
LEMMA AppendKeepsGuarded ==
    ASSUME NEW file \in Seq(RowType), Guarded(file), NEW t \in Text
    PROVE  Append(file, Row(t)) \in Seq(RowType) /\ Guarded(Append(file, Row(t)))
BY RowIsGuarded DEF Guarded

-----------------------------------------------------------------------------
(* Steps *)

\* A finished exam leaves a whole, guarded file.
LEMMA WriteKeepsGraders == ASSUME GradersInv, WriteAnswers PROVE GradersInv'
<1>1. PICK t \in Text : answers' = Append(rows, Row(t))
  BY DEF WriteAnswers
<1>2. answers' \in Seq(RowType) /\ Guarded(answers') /\ Len(answers') = Items
  <2>1. Append(rows, Row(t)) \in Seq(RowType) /\ Guarded(Append(rows, Row(t)))
    BY AppendKeepsGuarded DEF GradersInv, AnswerTypes
  <2> QED
    BY <1>1, <2>1 DEF WriteAnswers, GradersInv, AnswerTypes
<1>3. rows' = <<>> /\ verdicts' = verdicts
  BY DEF WriteAnswers, EndJob
<1>4. Guarded(rows)' /\ Guarded(answers)'
  BY <1>2, <1>3 DEF Guarded
<1> QED
  BY <1>2, <1>3, <1>4, ItemsAssumption DEF GradersInv, AnswerTypes, GradersAgree

\* The exam's own queries pass the guard, so their files are guarded without one.
LEMMA HouseKeepsGraders == ASSUME GradersInv, HouseAnswers PROVE GradersInv'
<1>1. PICK file \in [1 .. Items -> House] :
         answers' = [i \in 1 .. Items |-> [text |-> file[i], rejected |-> FALSE]]
  BY DEF HouseAnswers
<1>2. \A i \in 1 .. Items : file[i] \in Text /\ ~Refused(file[i])
  BY HouseAssumption
<1>3. answers' \in Seq(RowType) /\ Len(answers') = Items
  BY <1>1, <1>2, ItemsAssumption DEF RowType
<1>4. \A i \in 1 .. Items : answers'[i] = [text |-> file[i], rejected |-> FALSE]
  BY <1>1
<1>5. Guarded(answers')
  BY <1>2, <1>3, <1>4 DEF Guarded
<1>6. UNCHANGED <<rows, verdicts>>
  BY DEF HouseAnswers
<1>7. Guarded(rows)' /\ Guarded(answers)'
  BY <1>5, <1>6 DEF Guarded, GradersInv
<1> QED
  BY <1>3, <1>6, <1>7 DEF GradersInv, AnswerTypes, GradersAgree

\* New verdicts that are right about texts keep the graders in agreement.
LEMMA RightVerdicts ==
    ASSUME GradersInv, UNCHANGED <<rows, answers>>,
           NEW said, verdicts' = verdicts \cup said,
           \A v \in said : /\ v \in [by : {"grade", "probe", "recorded"}, item : 1 .. Items,
                                      text : Text, correct : BOOLEAN]
                           /\ v.correct = Right(v.text)
    PROVE  GradersInv'
BY DEF GradersInv, AnswerTypes, GradersAgree, Guarded

\* cmd_grade
LEMMA GradeFileKeepsGraders == ASSUME GradersInv, GradeFile PROVE GradersInv'
<1> DEFINE Said(i) == Verdict("grade", i, answers[i].text,
                              Runs(answers[i], "right") /\ Pristine(answers, i))
           said == {Said(i) : i \in 1 .. Items}
<1>1. DOMAIN answers = 1 .. Items /\ answers \in Seq(RowType) /\ Guarded(answers)
  BY DEF GradeFile, GradersInv, AnswerTypes
<1>2. ASSUME NEW i \in 1 .. Items
      PROVE  /\ Said(i) \in [by : {"grade", "probe", "recorded"}, item : 1 .. Items,
                              text : Text, correct : BOOLEAN]
             /\ Said(i).correct = Right(Said(i).text)
  <2>1. answers[i].text \in Text /\ (Runs(answers[i], "right") <=> Right(answers[i].text))
    BY <1>1, GuardedIsRight
  <2>2. Pristine(answers, i)
    BY <1>1, GuardedIsPristine
  <2>3. (Runs(answers[i], "right") /\ Pristine(answers, i)) = Right(answers[i].text)
    BY <2>1, <2>2, Zenon DEF Runs, Right
  <2> DEFINE ok == Runs(answers[i], "right") /\ Pristine(answers, i)
  <2>4. ok \in BOOLEAN
    BY Zenon DEF Runs
  <2> HIDE DEF ok
  <2>5. Verdict("grade", i, answers[i].text, ok) \in
            [by : {"grade", "probe", "recorded"}, item : 1 .. Items, text : Text, correct : BOOLEAN]
    BY <2>1, <2>4 DEF Verdict
  <2>6. /\ Verdict("grade", i, answers[i].text, ok).correct = ok
        /\ Verdict("grade", i, answers[i].text, ok).text = answers[i].text
    BY DEF Verdict
  <2> QED
    BY <2>3, <2>5, <2>6 DEF ok
<1>3. verdicts' = verdicts \cup said /\ UNCHANGED <<rows, answers>>
  BY DEF GradeFile
<1> HIDE DEF Said
<1>4. \A v \in said : /\ v \in [by : {"grade", "probe", "recorded"}, item : 1 .. Items,
                                  text : Text, correct : BOOLEAN]
                      /\ v.correct = Right(v.text)
  BY <1>2
<1> HIDE DEF said
<1> QED
  BY <1>3, <1>4, RightVerdicts

\* build_demo_recorded
LEMMA RecordDemoKeepsGraders == ASSUME GradersInv, RecordDemo PROVE GradersInv'
<1> DEFINE ok(i) == ~Refused(answers[i].text) /\ Runs(answers[i], "right")
           Said(i) == Verdict("recorded", i, answers[i].text, ok(i))
           said == {Said(i) : i \in 1 .. Items}
<1>1. DOMAIN answers = 1 .. Items /\ answers \in Seq(RowType) /\ Guarded(answers)
  BY DEF RecordDemo, GradersInv, AnswerTypes
<1>2. ASSUME NEW i \in 1 .. Items
      PROVE  /\ Said(i) \in [by : {"grade", "probe", "recorded"}, item : 1 .. Items,
                              text : Text, correct : BOOLEAN]
             /\ Said(i).correct = Right(Said(i).text)
  <2>1. answers[i].text \in Text /\ (Runs(answers[i], "right") <=> Right(answers[i].text))
    BY <1>1, GuardedIsRight
  <2>2. ok(i) = Right(answers[i].text) /\ ok(i) \in BOOLEAN
    BY <2>1, Zenon DEF Runs, Right
  <2> HIDE DEF ok
  <2> QED
    BY <2>1, <2>2 DEF Verdict
<1>3. verdicts' = verdicts \cup said /\ UNCHANGED <<rows, answers>>
  BY DEF RecordDemo
<1> HIDE DEF Said
<1>4. \A v \in said : /\ v \in [by : {"grade", "probe", "recorded"}, item : 1 .. Items,
                                  text : Text, correct : BOOLEAN]
                      /\ v.correct = Right(v.text)
  BY <1>2
<1> HIDE DEF said
<1> QED
  BY <1>3, <1>4, RightVerdicts

\* cmd_probe
LEMMA ProbeKeepsGraders == ASSUME GradersInv, ProbeGrades PROVE GradersInv'
<1>1. PICK t \in Text, i \in 1 .. Items :
         verdicts' = verdicts \cup {Verdict("probe", i, t, Runs(Row(t), "right"))}
  BY DEF ProbeGrades
<1> DEFINE ok == Runs(Row(t), "right")
           v == Verdict("probe", i, t, ok)
<1>2. ok = Right(t) /\ ok \in BOOLEAN
  BY RowIsGuarded, Zenon DEF Runs, Right
<1>3. verdicts' = verdicts \cup {v}
  BY <1>1
<1> HIDE DEF ok
<1>4. /\ v \in [by : {"grade", "probe", "recorded"}, item : 1 .. Items,
                text : Text, correct : BOOLEAN]
      /\ v.correct = Right(v.text)
  BY <1>2 DEF Verdict
<1> HIDE DEF v
<1>5. rows' = <<>> /\ answers' = answers
  BY DEF ProbeGrades, EndJob
<1>6. Guarded(rows)' /\ Guarded(answers)'
  BY <1>5 DEF Guarded, GradersInv
<1>7. GradersAgree'
  BY <1>3, <1>4 DEF GradersInv, GradersAgree
<1> QED
  BY <1>3, <1>4, <1>5, <1>6, <1>7, ItemsAssumption DEF GradersInv, AnswerTypes

\* answer_exam's next question
LEMMA ItemKeepsGraders == ASSUME GradersInv, AnswerItem PROVE GradersInv'
<1>1. PICK t \in Text : rows' = Append(rows, Row(t))
  BY DEF AnswerItem
<1>2. rows' \in Seq(RowType) /\ Guarded(rows') /\ Len(rows') < Items
  <2>1. Append(rows, Row(t)) \in Seq(RowType) /\ Guarded(Append(rows, Row(t)))
    BY AppendKeepsGuarded DEF GradersInv, AnswerTypes
  <2> QED
    BY <1>1, <2>1 DEF AnswerItem, GradersInv, AnswerTypes
<1>3. UNCHANGED <<answers, verdicts>>
  BY DEF AnswerItem
<1>4. Guarded(rows)' /\ Guarded(answers)'
  BY <1>2, <1>3 DEF Guarded, GradersInv
<1> QED
  BY <1>2, <1>3, <1>4 DEF GradersInv, AnswerTypes, GradersAgree

-----------------------------------------------------------------------------
\* What the graders' agreement rests on holds throughout.
LEMMA GradersInvariant == AnswerSpec => []GradersInv
<1>1. AnswerInit => GradersInv
  BY ItemsAssumption DEF AnswerInit, GradersInv, AnswerTypes, Guarded, GradersAgree
<1>2. GradersInv /\ [AnswerNext]_allVars => GradersInv'
  <2> SUFFICES ASSUME GradersInv, [AnswerNext]_allVars PROVE GradersInv'
    OBVIOUS
  <2>1. UNCHANGED <<rows, answers, verdicts>> => GradersInv'
    BY DEF GradersInv, AnswerTypes, Guarded, GradersAgree
  <2>2. CASE StartJob
    BY <2>1, <2>2 DEF StartJob
  <2>3. CASE Recalling
    BY <2>1, <2>3 DEF Recalling, answerVars
  <2>4. CASE JobRaises
    BY <2>4, ItemsAssumption
       DEF JobRaises, EndJob, GradersInv, AnswerTypes, Guarded, GradersAgree
  <2>5. CASE TimePasses
    BY <2>1, <2>5 DEF TimePasses, answerVars
  <2>6. CASE UNCHANGED allVars
    BY <2>1, <2>6 DEF allVars, answerVars
  <2> QED
    BY <2>2, <2>3, <2>4, <2>5, <2>6, WriteKeepsGraders, HouseKeepsGraders, GradeFileKeepsGraders,
       RecordDemoKeepsGraders, ProbeKeepsGraders, ItemKeepsGraders DEF AnswerNext, Turn
<1> QED
  BY <1>1, <1>2, PTL DEF AnswerSpec

\* cmd_grade, cmd_probe and build_demo_recorded agree on every text, for any exam,
\* any texts and any number of jobs.
THEOREM OneTextOneVerdict == AnswerSpec => []GradersAgree
<1>1. GradersInv => GradersAgree
  BY DEF GradersInv
<1> QED
  BY <1>1, GradersInvariant, PTL

-----------------------------------------------------------------------------
(* float64 *)

\* Integer division leaves less than the divisor.
LEMMA DivBounds ==
    ASSUME NEW a \in Int, NEW u \in Nat \ {0}
    PROVE  a \div u \in Int /\ (a \div u) * u <= a /\ a < (a \div u) * u + u
OBVIOUS

\* Multiplication by a positive number keeps the order.
LEMMA TimesMonotone ==
    ASSUME NEW p \in Int, NEW q \in Int, NEW u \in Nat \ {0}, p <= q
    PROVE  p * u <= q * u
OBVIOUS

\* The quotient of what is not below a multiple is not below its factor.
LEMMA DivNotBelow ==
    ASSUME NEW q \in Int, NEW a \in Int, NEW u \in Nat \ {0}, q * u <= a
    PROVE  q <= a \div u
<1> SUFFICES ASSUME (a \div u) + 1 <= q PROVE FALSE
  BY DivBounds
<1>1. ((a \div u) + 1) * u <= q * u
  <2>1. (a \div u) + 1 \in Int
    BY DivBounds
  <2> QED
    BY <2>1, TimesMonotone
<1>2. ((a \div u) + 1) * u = (a \div u) * u + u
  <2>1. \A p \in Int : (p + 1) * u = p * u + u
    OBVIOUS
  <2> QED
    BY <2>1, DivBounds
<1> QED
  BY <1>1, <1>2, DivBounds

\* Rounding moves a number by less than an ulp, half of it up or down.
LEMMA RoundingIsNear ==
    ASSUME NEW x \in Int
    PROVE  /\ HlcSeconds(x) \in Int
           /\ 2 * HlcSeconds(x) <= 2 * x + Ulp
           /\ 2 * x <= 2 * HlcSeconds(x) + Ulp
<1> DEFINE h == Ulp \div 2
           q == (x + h) \div Ulp
<1>1. h \in Int /\ 2 * h <= Ulp /\ Ulp <= 2 * h + 1
  BY UlpAssumption
<1> HIDE DEF h
<1>2. x + h \in Int /\ Ulp \in Nat \ {0}
  BY <1>1, UlpAssumption
<1>3. q \in Int /\ q * Ulp <= x + h /\ x + h < q * Ulp + Ulp
  BY <1>2, DivBounds
<1>4. HlcSeconds(x) = q * Ulp
  BY DEF HlcSeconds, h
<1> HIDE DEF q
<1>5. q * Ulp \in Int
  BY <1>2, <1>3
<1> QED
  BY <1>1, <1>2, <1>3, <1>4, <1>5

\* Adding lag_s to a float64 and rounding again does not go below it.
LEMMA LagDoesNotLower ==
    ASSUME NEW x \in Int
    PROVE  HlcSeconds(x) <= HlcSeconds(HlcSeconds(x) + LagS) /\ HlcSeconds(HlcSeconds(x) + LagS) \in Int
<1> DEFINE h == Ulp \div 2
           q == (x + h) \div Ulp
           y == q * Ulp + LagS
<1>1. h \in Nat /\ LagS \in Nat /\ Ulp \in Nat \ {0}
  BY UlpAssumption, SpansAssumption DEF LagS
<1>2. HlcSeconds(x) = q * Ulp /\ q \in Int
  <2>1. x + h \in Int
    BY <1>1
  <2> QED
    BY <1>1, <2>1, DivBounds DEF HlcSeconds
<1> HIDE DEF q
<1>3. y + h \in Int /\ q * Ulp <= y + h
  <2>1. q * Ulp \in Int
    BY <1>1, <1>2
  <2> HIDE DEF h
  <2> QED
    BY <1>1, <2>1
<1>4. q <= (y + h) \div Ulp /\ (y + h) \div Ulp \in Int
  <2> HIDE DEF y, h
  <2> QED
    BY <1>1, <1>2, <1>3, DivNotBelow, DivBounds
<1>5. q * Ulp <= ((y + h) \div Ulp) * Ulp
  <2> HIDE DEF y, h
  <2> QED
    BY <1>1, <1>2, <1>4, TimesMonotone
<1>6. HlcSeconds(y) = ((y + h) \div Ulp) * Ulp
  BY DEF HlcSeconds
<1>7. ((y + h) \div Ulp) * Ulp \in Int
  <2> HIDE DEF y, h
  <2> QED
    BY <1>1, <1>4
<1> QED
  BY <1>2, <1>5, <1>6, <1>7

-----------------------------------------------------------------------------
(* The recall under way *)

\* The wait of a recall with stamp at is over if a poll is at n.
Reached(n, at) ==
    HlcSeconds(ClusterClock(n)) >= HlcSeconds(HlcSeconds(ClusterClock(at)) + LagS)

\* There was such a poll.
Polled == pc = "begin" /\ closed => \E n \in Nat : n <= now /\ Reached(n, stamp)

ClockInv ==
    /\ TypeOK
    /\ job \in {"none", "exam", "probe"} /\ (job = "none" <=> pc = "idle")
    /\ jobs \in 0 .. MaxJobs
    /\ Polled

\* The cluster's clock does not go back.
LEMMA ClockIsMonotone ==
    ASSUME NEW s \in Int, NEW t \in Int, s <= t
    PROVE  ClusterClock(s) \in Int /\ ClusterClock(t) \in Int /\ ClusterClock(s) <= ClusterClock(t)
BY UnitAssumption, TimesMonotone DEF ClusterClock

\* A poll that reaches its target reaches the stamp but for one ulp, and what
\* lag_s adds to the string but for two.
LEMMA TargetCoversStamp ==
    ASSUME NEW n \in Nat, NEW at \in Int, Reached(n, at)
    PROVE  /\ ClusterClock(n) + Ulp >= ClusterClock(at)
           /\ ClusterClock(n) + 2 * Ulp >= ClusterClock(at) + LagTicks
<1> DEFINE c == ClusterClock(n)
           s == ClusterClock(at)
           y == HlcSeconds(s) + LagS
<1>1. c \in Int /\ s \in Int
  BY ClockIsMonotone
<1>2. HlcSeconds(c) >= HlcSeconds(y)
  BY DEF Reached
<1>3. LagS \in Nat /\ LagS = LagTicks /\ Ulp \in Nat \ {0}
  BY SpansAssumption, UlpAssumption DEF LagS
<1> HIDE DEF c, s
<1>4. /\ HlcSeconds(c) \in Int /\ 2 * HlcSeconds(c) <= 2 * c + Ulp
      /\ HlcSeconds(s) \in Int /\ 2 * s <= 2 * HlcSeconds(s) + Ulp
  BY <1>1, RoundingIsNear
<1>5. HlcSeconds(s) <= HlcSeconds(y) /\ HlcSeconds(y) \in Int
  BY <1>1, LagDoesNotLower
<1>6. y \in Int /\ y = HlcSeconds(s) + LagTicks
  BY <1>3, <1>4
<1> HIDE DEF y
<1>7. 2 * y <= 2 * HlcSeconds(y) + Ulp
  BY <1>6, RoundingIsNear
<1>8. c + Ulp >= s
  BY <1>1, <1>2, <1>3, <1>4, <1>5
<1>9. c + 2 * Ulp >= s + LagTicks
  BY <1>1, <1>2, <1>3, <1>4, <1>5, <1>6, <1>7
<1> QED
  BY <1>8, <1>9 DEF c, s

\* One statement of a recall, whatever job it is for.
LEMMA RecallingKeepsClock == ASSUME ClockInv, Recalling PROVE ClockInv'
<1>1. TypeOK /\ UNCHANGED <<job, jobs>>
  BY DEF ClockInv, Recalling, answerVars
<1>2. CASE PollReached
  <2>1. Reached(now, stamp)
    BY <1>2 DEF PollReached, Target, Reached
  <2>2. now \in Nat /\ now <= now /\ now' = now /\ stamp' = stamp
    BY <1>1, <1>2 DEF PollReached, TypeOK
  <2>3. Polled'
    BY <2>1, <2>2 DEF Polled
  <2> QED
    BY <1>1, <1>2, <2>3 DEF PollReached, ClockInv, TypeOK
<1>3. CASE PollSleeps
  BY <1>1, <1>3 DEF PollSleeps, ClockInv, TypeOK, Polled
<1>4. CASE Wakes
  BY <1>1, <1>4 DEF Wakes, ClockInv, TypeOK, Polled
<1>5. CASE GivesUp
  BY <1>1, <1>5 DEF GivesUp, ClockInv, TypeOK, Polled
<1>6. CASE Begin
  BY <1>1, <1>6, SpansAssumption DEF Begin, ClockInv, TypeOK, Polled
<1>7. CASE Served
  BY <1>1, <1>7 DEF Served, ClockInv, TypeOK, Polled
<1>8. CASE Cancelled
  BY <1>1, <1>8 DEF Cancelled, ClockInv, TypeOK, Polled
<1> QED
  BY <1>2, <1>3, <1>4, <1>5, <1>6, <1>7, <1>8 DEF Recalling, RecallStep

\* What the wait's claim rests on holds throughout.
LEMMA ClockInvariant == AnswerSpec => []ClockInv
<1>1. AnswerInit => ClockInv
  <2> SUFFICES ASSUME AnswerInit PROVE ClockInv
    OBVIOUS
  <2>1. TypeOK
    <3>1. now \in Nat /\ stamp \in Int /\ wake \in Nat /\ deadline \in Nat
      BY InstantsAssumption DEF AnswerInit, Init
    <3>2. pc = "idle" /\ closed = FALSE
      BY DEF AnswerInit, Init
    <3> QED
      BY <3>1, <3>2, Zenon DEF TypeOK
  <2>2. job = "none" /\ pc = "idle" /\ jobs \in 0 .. MaxJobs
    BY MaxJobsAssumption DEF AnswerInit, Init
  <2>3. Polled
    BY <2>2 DEF Polled
  <2> QED
    BY <2>1, <2>2, <2>3 DEF ClockInv
<1>2. ClockInv /\ [AnswerNext]_allVars => ClockInv'
  <2> SUFFICES ASSUME ClockInv, [AnswerNext]_allVars PROVE ClockInv'
    OBVIOUS
  <2>1. CASE StartJob
    <3>1. PICK d \in Offsets : stamp' = now + d
      BY <2>1 DEF StartJob, Recall
    <3>2. d \in Int /\ MaxJobs \in Nat
      BY InstantsAssumption, MaxJobsAssumption
    <3> QED
      BY <2>1, <3>1, <3>2, SpansAssumption
         DEF StartJob, Recall, Deadline, ClockInv, TypeOK, Polled
  <2>2. CASE Recalling
    BY <2>2, RecallingKeepsClock
  <2>3. CASE AnswerItem
    <3>1. TypeOK'
      <4>1. /\ now' \in Nat /\ stamp' \in Int /\ wake' \in Nat /\ deadline' \in Nat
            /\ pc' = "poll"
        BY <2>3, SpansAssumption DEF AnswerItem, Deadline, ClockInv, TypeOK
      <4>2. closed' = FALSE
        BY <2>3 DEF AnswerItem
      <4> QED
        BY <4>1, <4>2, Zenon DEF TypeOK
    <3>2. job' = "exam" /\ pc' = "poll" /\ jobs' \in 0 .. MaxJobs
      BY <2>3 DEF AnswerItem, ClockInv
    <3>3. Polled'
      BY <3>2 DEF Polled
    <3> QED
      BY <3>1, <3>2, <3>3 DEF ClockInv
  <2>4. CASE WriteAnswers \/ ProbeGrades \/ JobRaises
    <3>1. EndJob
      BY <2>4 DEF WriteAnswers, ProbeGrades, JobRaises
    <3>2. TypeOK'
      <4>1. /\ now' \in Nat /\ stamp' \in Int /\ wake' \in Nat /\ deadline' \in Nat
            /\ pc' = "idle"
        BY <3>1 DEF EndJob, ClockInv, TypeOK
      <4>2. closed' = FALSE
        BY <3>1 DEF EndJob
      <4> QED
        BY <4>1, <4>2, Zenon DEF TypeOK
    <3>3. job' = "none" /\ pc' = "idle" /\ jobs' \in 0 .. MaxJobs
      BY <3>1 DEF EndJob, ClockInv
    <3>4. Polled'
      BY <3>3 DEF Polled
    <3> QED
      BY <3>2, <3>3, <3>4 DEF ClockInv
  <2>5. CASE HouseAnswers \/ GradeFile \/ RecordDemo
    <3>1. UNCHANGED <<vars, job>> /\ jobs' \in 0 .. MaxJobs
      BY <2>5, MaxJobsAssumption DEF HouseAnswers, GradeFile, RecordDemo, ClockInv
    <3> QED
      BY <3>1 DEF vars, ClockInv, TypeOK, Polled
  <2>6. CASE TimePasses
    <3>1. now' = now + 1 /\ UNCHANGED <<stamp, pc, wake, deadline, closed, job, jobs>>
      BY <2>6 DEF TimePasses, Tick, answerVars
    <3>2. Polled'
      <4>1. \A n \in Nat : n <= now => n <= now'
        BY <3>1 DEF ClockInv, TypeOK
      <4> QED
        BY <3>1, <4>1 DEF ClockInv, Polled
    <3> QED
      BY <3>1, <3>2 DEF ClockInv, TypeOK
  <2>7. CASE UNCHANGED allVars
    BY <2>7 DEF allVars, vars, answerVars, ClockInv, TypeOK, Polled
  <2> QED
    BY <2>1, <2>2, <2>3, <2>4, <2>5, <2>6, <2>7 DEF AnswerNext, Turn
<1> QED
  BY <1>1, <1>2, PTL DEF AnswerSpec

\* A recall that begins because the wait says the stamp is closed does not begin
\* before the stamp, for any clock unit and any stamp.
THEOREM WaitReachesTheStamp == AnswerSpec => []NotBeforeTheStamp
<1>1. ClockInv => NotBeforeTheStamp
  <2> SUFFICES ASSUME ClockInv, pc = "begin", closed
               PROVE  ClusterClock(now) + Ulp >= ClusterClock(stamp)
    BY DEF NotBeforeTheStamp
  <2>1. now \in Nat /\ stamp \in Int
    BY DEF ClockInv, TypeOK
  <2>2. PICK n \in Nat : n <= now /\ Reached(n, stamp)
    BY DEF ClockInv, Polled
  <2>3. ClusterClock(n) + Ulp >= ClusterClock(stamp)
    BY <2>1, <2>2, TargetCoversStamp
  <2>4. /\ ClusterClock(n) \in Int /\ ClusterClock(now) \in Int /\ ClusterClock(stamp) \in Int
        /\ ClusterClock(n) <= ClusterClock(now)
    BY <2>1, <2>2, ClockIsMonotone
  <2> QED
    BY <2>3, <2>4, UlpAssumption
<1> QED
  BY <1>1, ClockInvariant, PTL

\* How far the wait waits: a recall that begins because of it begins when the
\* cluster's string has grown by lag_s from the stamp, but for two ulps.  What
\* that is in time depends on the unit of the string.
LagInTheString ==
    pc = "begin" /\ closed => ClusterClock(now) + 2 * Ulp >= ClusterClock(stamp) + LagTicks

\* The string has grown by lag_s, whatever it counts.
THEOREM WaitAddsTheLag == AnswerSpec => []LagInTheString
<1>1. ClockInv => LagInTheString
  <2> SUFFICES ASSUME ClockInv, pc = "begin", closed
               PROVE  ClusterClock(now) + 2 * Ulp >= ClusterClock(stamp) + LagTicks
    BY DEF LagInTheString
  <2>1. now \in Nat /\ stamp \in Int
    BY DEF ClockInv, TypeOK
  <2>2. PICK n \in Nat : n <= now /\ Reached(n, stamp)
    BY DEF ClockInv, Polled
  <2>3. ClusterClock(n) + 2 * Ulp >= ClusterClock(stamp) + LagTicks
    BY <2>1, <2>2, TargetCoversStamp
  <2>4. /\ ClusterClock(n) \in Int /\ ClusterClock(now) \in Int /\ ClusterClock(stamp) \in Int
        /\ ClusterClock(n) <= ClusterClock(now)
    BY <2>1, <2>2, ClockIsMonotone
  <2> QED
    BY <2>3, <2>4, UlpAssumption, SpansAssumption
<1> QED
  BY <1>1, ClockInvariant, PTL

\* With a string that counts seconds, as in tests/test_memory_aost.py, the wait
\* keeps its promise to begin lag_s after the stamp; with nanoseconds the run
\* asof_wait shows that it does not.
THEOREM SecondsAreWaitedOut ==
    ASSUME Unit = 1, Ulp = 1
    PROVE  AnswerSpec => []WaitedOut
<1>1. ASSUME NEW x \in Int PROVE HlcSeconds(x) = x
  <2>1. Ulp \div 2 = 0
    OBVIOUS
  <2>2. (x + 0) \div 1 = x /\ x * 1 = x
    OBVIOUS
  <2> QED
    BY <2>1, <2>2 DEF HlcSeconds
<1>2. ClockInv => WaitedOut
  <2> SUFFICES ASSUME ClockInv, pc = "begin", closed
               PROVE  now >= stamp + LagTicks
    BY DEF WaitedOut
  <2>1. now \in Nat /\ stamp \in Int /\ LagTicks \in Nat
    BY SpansAssumption DEF ClockInv, TypeOK
  <2>2. PICK n \in Nat : n <= now /\ Reached(n, stamp)
    BY DEF ClockInv, Polled
  <2>3. ClusterClock(n) = n /\ ClusterClock(stamp) = stamp
    BY <2>1 DEF ClusterClock
  <2>4. HlcSeconds(n) = n /\ HlcSeconds(stamp) = stamp /\ HlcSeconds(stamp + LagTicks) = stamp + LagTicks
    BY <1>1, <2>1
  <2>5. n >= stamp + LagTicks
    BY <2>2, <2>3, <2>4 DEF Reached, LagS
  <2> QED
    BY <2>1, <2>2, <2>5
<1> QED
  BY <1>2, ClockInvariant, PTL

\* The type invariant of the answering side, for any exam, texts and clock.
THEOREM AnswersTyped == AnswerSpec => []AnswerTypeOK
<1>1. ClockInv /\ GradersInv => AnswerTypeOK
  BY DEF ClockInv, GradersInv, AnswerTypes, AnswerTypeOK, RowType
<1> QED
  BY <1>1, ClockInvariant, GradersInvariant, PTL
=============================================================================
