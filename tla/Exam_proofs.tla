------------------------------ MODULE Exam_proofs ------------------------------
(****************************************************************************)
(* That learning more costs only baits is proved for any number of exams:   *)
(* first for choose_sql and the label on one item (ChoiceRegresses), then   *)
(* for the graded exams of a behaviour.  The strengthening says that every  *)
(* report on record is the grade of what choose_sql answers for the rules   *)
(* that were live, on the items that were answered.  The published curve    *)
(* is computed from what distill finds in the corrections of CURRICULUM     *)
(* (CurriculumTeaches), what is right with those rules live (RightUntaught, *)
(* RightFilters, WrongWithoutJoin, RightOfAll), and how many items that is. *)
(* That a bait fires for the rule its text overapplies is computed in the   *)
(* same way from the six pairs of gold and bait texts (BaitsOverapply).     *)
(****************************************************************************)
EXTENDS Exam, FiniteSetTheorems, TLAPS

\* What choose_sql gets right with the rules rs live.
Right(rs) == {i \in Item : SignaturesMatch(i, ChooseSql(i, rs))}

\* The exams cmd_grade can put on record: what is counted as correct is what
\* choose_sql gets right with the rules then live, and all of it if no answer
\* is missing.
GradedExam ==
    {e \in [live : SUBSET Rule,
            report : [total : {Cardinality(Item)}, correct : SUBSET Item, missing : SUBSET Item]] :
        /\ e.report.correct \subseteq Right(e.live)
        /\ e.report.missing \cap e.report.correct = {}
        /\ Whole(e) => e.report.correct = Right(e.live)}

IInv == live \subseteq Rule /\ exams \in Seq(GradedExam) /\ Len(exams) <= MaxExams

-----------------------------------------------------------------------------
\* With the exam as verified, a chosen body is right if it is the gold one, or the
\* naive one of an unaffected item.
LEMMA ChoiceMatches ==
    ASSUME NEW i \in Item, NEW rs
    PROVE  SignaturesMatch(i, ChooseSql(i, rs)) <=>
              \/ ChooseSql(i, rs) = "gold"
              \/ ChooseSql(i, rs) = "naive" /\ i \in Unaffected
BY VerifyAssumption DEF Verifies, SignaturesMatch, ChooseSql

\* An item is right if no bait of it fires and its rules are live, or if it is
\* one that is right without any.
LEMMA RightIs ==
    ASSUME NEW rs, NEW i \in Item
    PROVE  i \in Right(rs) <=>
             /\ ~ (i \in Baited /\ BaitTrigger(i) \in rs)
             /\ HouseRules(i) \subseteq rs \/ i \in Unaffected
BY ChoiceMatches DEF Right, ChooseSql

\* With every rule live the baits are what is wrong.
LEMMA RightOfAll ==
    ASSUME NEW i \in Item PROVE i \in Right(Rule) <=> i \notin Baited
<1>1. i \in Baited => BaitTrigger(i) \in Rule
  BY DEF Baited, BaitTrigger, Rule
<1>2. HouseRules(i) \subseteq Rule
  BY DEF HouseRules
<1> QED
  BY <1>1, <1>2, RightIs

\* There are fifty items ...
LEMMA FiftyItems == IsFiniteSet(Item) /\ Cardinality(Item) = 50
<1>1. PICK n \in Int : n = 50
  OBVIOUS
<1>2. IsFiniteSet(1 .. n) /\ Cardinality(1 .. n) = IF 1 > n THEN 0 ELSE n - 1 + 1
  BY FS_Interval
<1>3. IsFiniteSet(1 .. n) /\ Cardinality(1 .. n) = 50
  BY <1>1, <1>2
<1>4. Item = 1 .. n
  BY <1>1 DEF Item
<1> QED
  BY <1>3, <1>4

\* choose_sql with more rules gets an item wrong that it got right with fewer
\* only if the item is a bait and its trigger is among the new rules.
LEMMA ChoiceRegresses ==
    ASSUME NEW i \in Item, NEW few, NEW more, few \subseteq more,
           SignaturesMatch(i, ChooseSql(i, few)),
           ~SignaturesMatch(i, ChooseSql(i, more))
    PROVE  i \in Baited /\ BaitTrigger(i) \in more \ few
<1> DEFINE Fires(rs) == i \in Baited /\ BaitTrigger(i) \in rs
<1>1. ~Fires(few)
  BY ChoiceMatches DEF ChooseSql
<1>2. CASE HouseRules(i) \subseteq more
  <2>1. Fires(more)
    BY <1>2, ChoiceMatches DEF ChooseSql
  <2> QED
    BY <1>1, <2>1
<1>3. CASE ~(HouseRules(i) \subseteq more)
  <2>1. ChooseSql(i, few) = "naive"
    BY <1>1, <1>3 DEF ChooseSql
  <2>2. i \in Unaffected
    BY <2>1, ChoiceMatches
  <2>3. ChooseSql(i, more) # "naive"
    BY <2>2, ChoiceMatches
  <2>4. Fires(more)
    BY <1>3, <2>3 DEF ChooseSql
  <2> QED
    BY <1>1, <2>4
<1> QED
  BY <1>2, <1>3

\* cmd_grade of a file that answers the items in done counts as correct what
\* choose_sql gets right there, and everything if no item is left out.
LEMMA GradeOfChoices ==
    ASSUME NEW rs \in SUBSET Rule, NEW done \in SUBSET Item
    PROVE  [live |-> rs, report |-> Grade([i \in done |-> ChooseSql(i, rs)])] \in GradedExam
<1> DEFINE sql == [i \in done |-> ChooseSql(i, rs)]
           rep == Grade(sql)
           e == [live |-> rs, report |-> rep]
<1>1. rep = [total |-> Cardinality(Item),
             correct |-> {i \in DOMAIN sql : SignaturesMatch(i, sql[i])},
             missing |-> Item \ DOMAIN sql]
  BY DEF Grade
<1>2. DOMAIN sql = done /\ \A i \in done : sql[i] = ChooseSql(i, rs)
  OBVIOUS
<1>3. rep.correct = {i \in done : SignaturesMatch(i, ChooseSql(i, rs))}
  <2>1. {i \in done : SignaturesMatch(i, sql[i])} =
           {i \in done : SignaturesMatch(i, ChooseSql(i, rs))}
    BY <1>2
  <2> QED
    BY <1>1, <1>2, <2>1
<1>4. rep.missing = Item \ done /\ rep.total = Cardinality(Item)
  BY <1>1, <1>2
<1>5. e.live = rs /\ e.report = rep
  OBVIOUS
<1>6. rep.correct \subseteq Right(rs)
  BY <1>3 DEF Right
<1>7. rep.missing \cap rep.correct = {}
  BY <1>3, <1>4
<1>8. rep.missing = {} => rep.correct = Right(rs)
  <2>1. rep.missing = {} => done = Item
    BY <1>4
  <2> QED
    BY <1>3, <2>1 DEF Right
<1>9. rep \in [total : {Cardinality(Item)}, correct : SUBSET Item, missing : SUBSET Item]
  <2> HIDE DEF sql
  <2>1. rep.correct \in SUBSET Item /\ rep.missing \in SUBSET Item
    BY <1>4, <1>6 DEF Right
  <2>2. rep = [total |-> rep.total, correct |-> rep.correct, missing |-> rep.missing]
    BY <1>1
  <2> QED
    BY <1>4, <2>1, <2>2
<1> HIDE DEF rep
<1>10. e \in [live : SUBSET Rule,
             report : [total : {Cardinality(Item)}, correct : SUBSET Item, missing : SUBSET Item]]
  BY <1>9
<1>11. e \in GradedExam
  <2> HIDE DEF e
  <2> QED
    BY <1>5, <1>6, <1>8, <1>10, <1>7 DEF GradedExam, Whole
<1> QED
  BY <1>11 DEF rep

\* Sitting an exam keeps the record of exams graded.
LEMMA SitKeepsGrades ==
    ASSUME IInv, NEW done \in SUBSET Item, Sit([i \in done |-> ChooseSql(i, live)])
    PROVE  IInv'
<1> DEFINE e == [live |-> live, report |-> Grade([i \in done |-> ChooseSql(i, live)])]
<1>1. e \in GradedExam
  BY GradeOfChoices DEF IInv
<1>2. exams' = Append(exams, e) /\ live' = live /\ Len(exams) < MaxExams
  BY DEF Sit
<1> HIDE DEF e
<1> QED
  BY <1>1, <1>2, MaxExamsAssumption DEF IInv

\* distill finds nothing but the five rules of the house.
LEMMA CandidatesAreRules ==
    ASSUME NEW attempt, NEW gold, IsFiniteSet(gold.preds)
    PROVE  KeysOf(Candidates(attempt, gold)) \subseteq Rule
<1> DEFINE added == gold.preds \ attempt.preds
           kept == {p \in added : IsRule(p)}
           cal == IF MovesCalendar(attempt, gold) THEN <<F>> ELSE <<>>
           join == IF CorrectsJoin(attempt, gold) THEN <<J>> ELSE <<>>
           metric == IF gold.refund /\ ~attempt.refund THEN <<R>> ELSE <<>>
<1>1. FilterRules(added) \in Seq(Rule)
  <2>1. IsFiniteSet(kept)
    BY FS_Subset
  <2>2. Cardinality(kept) \in Nat
    BY <2>1, FS_CardinalityType
  <2>3. FilterRules(added) \in [1 .. Cardinality(kept) -> Rule]
    BY DEF FilterRules, Rule
  <2> HIDE DEF added, kept
  <2> QED
    BY <2>2, <2>3
<1>2. cal \in Seq(Rule) /\ join \in Seq(Rule) /\ metric \in Seq(Rule)
  <2>1. \A r \in Rule : <<r>> \in Seq(Rule)
    OBVIOUS
  <2>2. {R, F, J} \subseteq Rule
    BY DEF Rule
  <2>3. <<>> \in Seq(Rule)
    OBVIOUS
  <2> QED
    BY <2>1, <2>2, <2>3
<1>3. Candidates(attempt, gold) = FilterRules(added) \o cal \o join \o metric
  BY DEF Candidates
<1> HIDE DEF added, cal, join, metric
<1>4. Candidates(attempt, gold) \in Seq(Rule)
  BY <1>1, <1>2, <1>3
<1> QED
  BY <1>4 DEF KeysOf

\* Every report on record is the grade of what choose_sql answered.
THEOREM ExamsAreGraded == Spec => []IInv
<1>1. Init => IInv
  BY MaxExamsAssumption DEF Init, IInv
<1>2. IInv /\ [Next]_vars => IInv'
  <2> SUFFICES ASSUME IInv, [Next]_vars PROVE IInv'
    OBVIOUS
  <2>1. CASE Learn
    <3>1. PICK c \in Corrections : live' = live \cup KeysOf(Candidates(c[1], c[2]))
      BY <2>1 DEF Learn, Learnable
    <3>2. KeysOf(Candidates(c[1], c[2])) \subseteq Rule
      BY CorrectionsAssumption, CandidatesAreRules
    <3> QED
      BY <2>1, <3>1, <3>2 DEF Learn, IInv
  <2>2. CASE Reset
    BY <2>2 DEF Reset, IInv
  <2>3. CASE SitExam
    <3>1. Sit([i \in Item |-> ChooseSql(i, live)])
      BY <2>3 DEF SitExam, AnswersOracle
    <3> QED
      BY <3>1, SitKeepsGrades
  <2>4. CASE SitPartial
    <3>1. PICK n \in {0, 10} : Sit([i \in 1 .. n |-> ChooseSql(i, live)])
      BY <2>4 DEF SitPartial
    <3>2. 1 .. n \in SUBSET Item
      BY DEF Item
    <3> QED
      BY <3>1, <3>2, SitKeepsGrades
  <2>5. CASE UNCHANGED vars
    BY <2>5 DEF vars, IInv
  <2> QED
    BY <2>1, <2>2, <2>3, <2>4, <2>5 DEF Next
<1> QED
  BY <1>1, <1>2, PTL DEF Spec

\* The exam's type invariant, for any corrections and any number of exams: what is
\* correct was answered.
THEOREM TypeCorrect == Spec => []TypeOK
<1>1. IInv => TypeOK
  <2> SUFFICES ASSUME IInv, NEW n \in DOMAIN exams
               PROVE  /\ exams[n].live \subseteq Rule
                      /\ exams[n].report.correct \subseteq Item
                      /\ exams[n].report.missing \subseteq Item \ exams[n].report.correct
    BY DEF IInv, TypeOK
  <2>1. exams[n] \in GradedExam
    BY DEF IInv
  <2> QED
    BY <2>1 DEF GradedExam
<1> QED
  BY <1>1, ExamsAreGraded, PTL

\* Exams graded like this lose nothing but baits.
LEMMA LossesAreBaits == IInv => OnlyBaitRegresses
<1> SUFFICES ASSUME IInv, NEW m \in DOMAIN exams, NEW n \in DOMAIN exams,
                    Whole(exams[n]), exams[m].live \subseteq exams[n].live,
                    NEW i \in exams[m].report.correct \ exams[n].report.correct
             PROVE  i \in Baited /\ BaitTrigger(i) \in exams[n].live \ exams[m].live
  BY DEF OnlyBaitRegresses
<1>1. exams[m] \in GradedExam /\ exams[n] \in GradedExam
  BY DEF IInv
<1>2. i \in Right(exams[m].live) /\ i \notin Right(exams[n].live)
  BY <1>1 DEF GradedExam
<1>3. /\ i \in Item
      /\ SignaturesMatch(i, ChooseSql(i, exams[m].live))
      /\ ~SignaturesMatch(i, ChooseSql(i, exams[n].live))
  BY <1>2 DEF Right
<1> QED
  BY <1>3, ChoiceRegresses

\* For any number of exams, an item is lost by learning more only if it is a
\* published bait whose trigger was learnt in between.
THEOREM LearningCostsOnlyBaits == Spec => []OnlyBaitRegresses
BY LossesAreBaits, ExamsAreGraded, PTL

\* Accuracy is always over the whole exam, and an arm that answers less of it
\* never outscores one that answers all of it on the same memory.
THEOREM TheWholeExamIsGraded == Spec => []GradesTheWholeExam
<1>1. IInv => GradesTheWholeExam
  <2> SUFFICES ASSUME IInv, NEW m \in DOMAIN exams, NEW n \in DOMAIN exams
               PROVE  /\ exams[n].report.total = 50
                      /\ exams[m].live = exams[n].live /\ Whole(exams[n]) =>
                            exams[m].report.correct \subseteq exams[n].report.correct
    BY DEF GradesTheWholeExam
  <2>1. exams[m] \in GradedExam /\ exams[n] \in GradedExam
    BY DEF IInv
  <2> QED
    BY FiftyItems, <2>1 DEF GradedExam
<1> QED
  BY <1>1, ExamsAreGraded, PTL

\* For any number of exams, no memory costs the student an unaffected item that
\* is not a bait, and with every rule live exactly the baits are missed.
THEOREM OnlyBaitsStayOutOfReach == Spec => []BaitsAreTheCeiling
<1>1. ASSUME NEW rs \in SUBSET Rule, NEW i \in Unaffected \ Baited
      PROVE  i \in Right(rs)
  <2>1. ChooseSql(i, rs) \in {"gold", "naive"} /\ i \in Item
    BY DEF ChooseSql, Unaffected, Item
  <2> QED
    BY <2>1, ChoiceMatches DEF Right
<1>2. IInv => BaitsAreTheCeiling
  <2> SUFFICES ASSUME IInv, NEW n \in DOMAIN exams, Whole(exams[n])
               PROVE  /\ Unaffected \ Baited \subseteq exams[n].report.correct
                      /\ exams[n].live = Rule => Item \ exams[n].report.correct = Baited
    BY DEF BaitsAreTheCeiling
  <2>1. exams[n].report.correct = Right(exams[n].live) /\ exams[n].live \in SUBSET Rule
    BY DEF IInv, GradedExam
  <2>2. Baited \subseteq Item
    BY DEF Baited, Item
  <2> QED
    BY <1>1, RightOfAll, <2>1, <2>2
<1> QED
  BY <1>2, ExamsAreGraded, PTL

-----------------------------------------------------------------------------
(* What the curriculum teaches *)

\* A correction that adds the two filters of the house, and no other that
\* distill keeps, teaches their two keys.
LEMMA TwoFilters ==
    ASSUME NEW added, {p \in added : IsRule(p)} = {NotDeleted, NotCancelled}
    PROVE  /\ FilterRules(added) \in Seq(Rule)
           /\ KeysOf(FilterRules(added)) = {S, C}
<1> DEFINE kept == {NotDeleted, NotCancelled}
           f == [n \in 1 .. 2 |-> IF "deleted_at" \in Nth(kept, n).says THEN S ELSE C]
<1>1. NotDeleted.rank = 1 /\ NotCancelled.rank = 2 /\ NotDeleted # NotCancelled
  BY DEF NotDeleted, NotCancelled
<1>2. Cardinality(kept) = 2
  <2>1. IsFiniteSet({NotDeleted}) /\ Cardinality({NotDeleted}) = 1
    BY FS_Singleton
  <2>2. Cardinality({NotDeleted} \cup {NotCancelled}) = 1 + 1
    BY <1>1, <2>1, FS_AddElement
  <2>3. kept = {NotDeleted} \cup {NotCancelled}
    OBVIOUS
  <2> QED
    BY <2>2, <2>3
<1>3. FilterRules(added) = f
  <2> HIDE DEF kept
  <2>1. {p \in added : IsRule(p)} = kept
    BY DEF kept
  <2> QED
    BY <1>2, <2>1 DEF FilterRules
<1>4. Nth(kept, 1) = NotDeleted /\ Nth(kept, 2) = NotCancelled
  <2> DEFINE before(p) == Cardinality({q \in kept : q.rank < p.rank})
  <2>1. {q \in kept : q.rank < NotDeleted.rank} = {} /\ {q \in kept : q.rank < NotCancelled.rank} = {NotDeleted}
    BY <1>1
  <2>2. Cardinality({}) = 0 /\ Cardinality({NotDeleted}) = 1
    BY FS_EmptySet, FS_Singleton
  <2>3. before(NotDeleted) = 0 /\ before(NotCancelled) = 1
    BY <2>1, <2>2
  <2>4. \A p \in kept : p = NotDeleted \/ p = NotCancelled
    OBVIOUS
  <2>5. NotDeleted \in kept /\ NotCancelled \in kept
    OBVIOUS
  <2> HIDE DEF kept, before
  <2>6. (CHOOSE p \in kept : before(p) = 0) = NotDeleted
    BY <2>3, <2>4, <2>5
  <2>7. (CHOOSE p \in kept : before(p) = 1) = NotCancelled
    BY <2>3, <2>4, <2>5
  <2>8. (1 - 1 = 0) /\ (2 - 1 = 1)
    OBVIOUS
  <2> QED
    BY <2>6, <2>7, <2>8 DEF Nth, before
<1> HIDE DEF kept
<1>5. f[1] = S /\ f[2] = C /\ DOMAIN f = 1 .. 2
  <2>1. "deleted_at" \in NotDeleted.says /\ "deleted_at" \notin NotCancelled.says
    BY DEF NotDeleted, NotCancelled
  <2> QED
    BY <1>4, <2>1
<1> HIDE DEF f
<1>6. KeysOf(f) = {S, C}
  <2>1. \A n \in 1 .. 2 : n = 1 \/ n = 2
    OBVIOUS
  <2>2. 1 \in 1 .. 2 /\ 2 \in 1 .. 2
    OBVIOUS
  <2> QED
    BY <1>5, <2>1, <2>2 DEF KeysOf
<1>7. f \in Seq(Rule)
  <2>1. f \in [1 .. 2 -> Rule]
    BY <1>5 DEF f, Rule
  <2>2. \E n \in Nat : f \in [1 .. n -> Rule]
    BY <2>1
  <2> QED
    BY <2>2
<1> QED
  BY <1>3, <1>6, <1>7

\* The keys of candidates found one after the other.
LEMMA KeysOfConcat ==
    ASSUME NEW s \in Seq(Rule), NEW t \in Seq(Rule)
    PROVE  s \o t \in Seq(Rule) /\ KeysOf(s \o t) = KeysOf(s) \cup KeysOf(t)
<1>1. /\ s \o t \in Seq(Rule) /\ Len(s) \in Nat /\ Len(t) \in Nat
      /\ DOMAIN s = 1 .. Len(s) /\ DOMAIN t = 1 .. Len(t)
      /\ DOMAIN (s \o t) = 1 .. Len(s) + Len(t)
      /\ \A n \in 1 .. Len(s) + Len(t) : (s \o t)[n] = IF n <= Len(s) THEN s[n] ELSE t[n - Len(s)]
  OBVIOUS
<1>2. ASSUME NEW k \in KeysOf(s \o t) PROVE k \in KeysOf(s) \cup KeysOf(t)
  <2>1. PICK n \in 1 .. Len(s) + Len(t) : k = (s \o t)[n]
    BY <1>1 DEF KeysOf
  <2>2. CASE n <= Len(s)
    <3>1. n \in DOMAIN s /\ k = s[n]
      BY <1>1, <2>1, <2>2
    <3> QED
      BY <3>1 DEF KeysOf
  <2>3. CASE ~ (n <= Len(s))
    <3>1. n - Len(s) \in DOMAIN t /\ k = t[n - Len(s)]
      BY <1>1, <2>1, <2>3
    <3> QED
      BY <3>1 DEF KeysOf
  <2> QED
    BY <2>2, <2>3
<1>3. ASSUME NEW n \in DOMAIN s PROVE s[n] \in KeysOf(s \o t)
  <2>1. n \in DOMAIN (s \o t) /\ (s \o t)[n] = s[n]
    BY <1>1
  <2> QED
    BY <2>1 DEF KeysOf
<1>4. ASSUME NEW n \in DOMAIN t PROVE t[n] \in KeysOf(s \o t)
  <2> DEFINE m == n + Len(s)
  <2>1. m \in 1 .. Len(s) + Len(t) /\ ~ (m <= Len(s)) /\ m - Len(s) = n
    BY <1>1
  <2>2. m \in DOMAIN (s \o t) /\ (s \o t)[m] = t[n]
    BY <1>1, <2>1
  <2> QED
    BY <2>2 DEF KeysOf
<1> QED
  BY <1>1, <1>2, <1>3, <1>4 DEF KeysOf

\* The candidates of a correction: its filters, and calendar, join and metric
\* each by its own test.
LEMMA CandidatesFrom ==
    ASSUME NEW a, NEW g, NEW keys,
           FilterRules(g.preds \ a.preds) \in Seq(Rule),
           KeysOf(FilterRules(g.preds \ a.preds)) = keys
    PROVE  KeysOf(Candidates(a, g)) =
             keys \cup (IF MovesCalendar(a, g) THEN {F} ELSE {})
                    \cup (IF CorrectsJoin(a, g) THEN {J} ELSE {})
                    \cup (IF g.refund /\ ~a.refund THEN {R} ELSE {})
<1> DEFINE flt == FilterRules(g.preds \ a.preds)
           cal == IF MovesCalendar(a, g) THEN <<F>> ELSE <<>>
           join == IF CorrectsJoin(a, g) THEN <<J>> ELSE <<>>
           metric == IF g.refund /\ ~a.refund THEN <<R>> ELSE <<>>
<1>1. \A r \in Rule : <<r>> \in Seq(Rule) /\ KeysOf(<<r>>) = {r}
  BY DEF KeysOf
<1>2. <<>> \in Seq(Rule) /\ KeysOf(<<>>) = {}
  BY DEF KeysOf
<1>3. R \in Rule /\ F \in Rule /\ J \in Rule
  BY DEF Rule
<1>4. cal \in Seq(Rule) /\ KeysOf(cal) = IF MovesCalendar(a, g) THEN {F} ELSE {}
  BY <1>1, <1>2, <1>3
<1>5. join \in Seq(Rule) /\ KeysOf(join) = IF CorrectsJoin(a, g) THEN {J} ELSE {}
  BY <1>1, <1>2, <1>3
<1>6. metric \in Seq(Rule) /\ KeysOf(metric) = IF g.refund /\ ~a.refund THEN {R} ELSE {}
  BY <1>1, <1>2, <1>3
<1>7. flt \in Seq(Rule) /\ KeysOf(flt) = keys
  OBVIOUS
<1>8. Candidates(a, g) = flt \o cal \o join \o metric
  BY DEF Candidates
<1> HIDE DEF flt, cal, join, metric
<1>9. flt \o cal \in Seq(Rule) /\ KeysOf(flt \o cal) = KeysOf(flt) \cup KeysOf(cal)
  BY <1>4, <1>7, KeysOfConcat
<1>10. flt \o cal \o join \in Seq(Rule)
       /\ KeysOf(flt \o cal \o join) = KeysOf(flt) \cup KeysOf(cal) \cup KeysOf(join)
  BY <1>5, <1>9, KeysOfConcat
<1>11. KeysOf(flt \o cal \o join \o metric) =
         KeysOf(flt) \cup KeysOf(cal) \cup KeysOf(join) \cup KeysOf(metric)
  BY <1>6, <1>10, KeysOfConcat
<1> QED
  BY <1>4, <1>5, <1>6, <1>7, <1>8, <1>11

\* The candidates of a correction that adds both filters.
LEMMA CandidatesOf ==
    ASSUME NEW a, NEW g, {p \in g.preds \ a.preds : IsRule(p)} = {NotDeleted, NotCancelled}
    PROVE  KeysOf(Candidates(a, g)) =
             {S, C} \cup (IF MovesCalendar(a, g) THEN {F} ELSE {})
                    \cup (IF CorrectsJoin(a, g) THEN {J} ELSE {})
                    \cup (IF g.refund /\ ~a.refund THEN {R} ELSE {})
<1>1. /\ FilterRules(g.preds \ a.preds) \in Seq(Rule)
      /\ KeysOf(FilterRules(g.preds \ a.preds)) = {S, C}
  BY TwoFilters
<1> QED
  BY <1>1, CandidatesFrom

\* A correction that adds no filter teaches none ...
LEMMA NoFilter ==
    ASSUME NEW added, {p \in added : IsRule(p)} = {}
    PROVE  FilterRules(added) \in Seq(Rule) /\ KeysOf(FilterRules(added)) = {}
<1>1. Cardinality({p \in added : IsRule(p)}) = 0
  BY FS_EmptySet
<1>2. FilterRules(added) = [n \in 1 .. 0 |->
        IF "deleted_at" \in Nth({p \in added : IsRule(p)}, n).says THEN S ELSE C]
  BY <1>1 DEF FilterRules
<1>3. 1 .. 0 = {}
  OBVIOUS
<1>4. FilterRules(added) = <<>>
  BY <1>2, <1>3
<1> QED
  BY <1>4 DEF KeysOf

\* ... and one that adds one of the two teaches that one.
LEMMA OneFilter ==
    ASSUME NEW added, NEW p \in {NotDeleted, NotCancelled}, {q \in added : IsRule(q)} = {p}
    PROVE  /\ FilterRules(added) \in Seq(Rule)
           /\ KeysOf(FilterRules(added)) = {IF p = NotDeleted THEN S ELSE C}
<1> DEFINE kept == {p}
           key == IF "deleted_at" \in p.says THEN S ELSE C
<1>1. Cardinality(kept) = 1
  BY FS_Singleton
<1>2. Nth(kept, 1) = p
  <2>1. p.rank \in Int
    BY DEF NotDeleted, NotCancelled
  <2>2. {q \in kept : q.rank < p.rank} = {}
    BY <2>1
  <2>3. Cardinality({q \in kept : q.rank < p.rank}) = 1 - 1
    BY <2>2, FS_EmptySet
  <2> QED
    BY <2>3 DEF Nth
<1>3. FilterRules(added) = [n \in 1 .. 1 |-> IF "deleted_at" \in Nth(kept, n).says THEN S ELSE C]
  <2> HIDE DEF kept
  <2>1. {q \in added : IsRule(q)} = kept
    BY DEF kept
  <2> QED
    BY <1>1, <2>1 DEF FilterRules
<1> HIDE DEF kept
<1>4. \A n \in 1 .. 1 : n = 1
  OBVIOUS
<1>5. FilterRules(added) = [n \in 1 .. 1 |-> key]
  BY <1>2, <1>3, <1>4
<1>6. key = IF p = NotDeleted THEN S ELSE C
  <2>1. "deleted_at" \in NotDeleted.says /\ "deleted_at" \notin NotCancelled.says
    BY DEF NotDeleted, NotCancelled
  <2> QED
    BY <2>1
<1>7. key \in Rule
  BY DEF Rule
<1> HIDE DEF key
<1>8. FilterRules(added) \in Seq(Rule)
  <2>1. FilterRules(added) \in [1 .. 1 -> Rule]
    BY <1>5, <1>7
  <2>2. \E n \in Nat : FilterRules(added) \in [1 .. n -> Rule]
    BY <2>1
  <2> QED
    BY <2>2
<1>9. KeysOf(FilterRules(added)) = {key}
  <2>1. DOMAIN FilterRules(added) = 1 .. 1 /\ 1 \in 1 .. 1
    BY <1>5
  <2> QED
    BY <1>5, <2>1 DEF KeysOf
<1> QED
  BY <1>6, <1>8, <1>9

\* The five corrections of CURRICULUM.
LEMMA CurriculumTeaches ==
    /\ KeysOf(ItemCandidates("q08")) = {S, C}
    /\ KeysOf(ItemCandidates("q11")) = {S, C}
    /\ KeysOf(ItemCandidates("q01")) = {R, S, C, F}
    /\ KeysOf(ItemCandidates("q02")) = {R, S, C, F}
    /\ KeysOf(ItemCandidates("q06")) = {S, C, J}
<1>1. /\ IsRule(NotDeleted) /\ IsRule(NotCancelled) /\ ~IsRule(RefundsOf)
      /\ \A n \in {1, 2} : ~IsRule(Window(n))
      /\ NotDeleted # Window(1) /\ NotCancelled # Window(1)
  BY DEF IsRule, NotDeleted, NotCancelled, RefundsOf, Window
<1>2. KeysOf(ItemCandidates("q08")) = {S, C}
  <2> DEFINE a == Text({Window(1)}, ThisYear, ByRegion)
             g == Text({Window(1), NotDeleted, NotCancelled}, ThisYear, ByRegion)
  <2>1. ItemCandidates("q08") = Candidates(a, g)
    BY DEF ItemCandidates, Correction
  <2>2. {p \in g.preds \ a.preds : IsRule(p)} = {NotDeleted, NotCancelled}
    BY <1>1 DEF Text
  <2>3. ~MovesCalendar(a, g) /\ ~CorrectsJoin(a, g) /\ ~(g.refund /\ ~a.refund)
    BY DEF Text, MovesCalendar, CorrectsJoin, ByRegion
  <2> HIDE DEF a, g
  <2> QED
    BY <2>1, <2>2, <2>3, CandidatesOf
<1>3. KeysOf(ItemCandidates("q11")) = {S, C}
  <2> DEFINE a == Text({Window(1)}, ThisYear, Orders \cup {"products"})
             g == Text({Window(1), NotDeleted, NotCancelled}, ThisYear, Orders \cup {"products"})
  <2>1. ItemCandidates("q11") = Candidates(a, g)
    BY DEF ItemCandidates, Correction
  <2>2. {p \in g.preds \ a.preds : IsRule(p)} = {NotDeleted, NotCancelled}
    BY <1>1 DEF Text
  <2>3. ~MovesCalendar(a, g) /\ ~CorrectsJoin(a, g) /\ ~(g.refund /\ ~a.refund)
    BY DEF Text, MovesCalendar, CorrectsJoin, Orders
  <2> HIDE DEF a, g
  <2> QED
    BY <2>1, <2>2, <2>3, CandidatesOf
<1>4. KeysOf(ItemCandidates("q01")) = {R, S, C, F}
  <2> DEFINE a == Text({Window(1)}, {Calendar(3), Calendar(4)}, ByRegion)
             g == [Text({Window(2), NotDeleted, NotCancelled}, {Date(5), Date(6)},
                        ByRegion \cup {"refunds"}) EXCEPT !.refund = TRUE]
  <2>1. ItemCandidates("q01") = Candidates(a, g)
    BY DEF ItemCandidates, Correction
  <2>2. {p \in g.preds \ a.preds : IsRule(p)} = {NotDeleted, NotCancelled}
    BY <1>1 DEF Text
  <2>3. MovesCalendar(a, g)
    <3>1. Date(5) \in g.dates \ a.dates /\ Date(5).fiscal
      BY DEF Text, Date, Calendar
    <3> QED
      BY <3>1 DEF MovesCalendar
  <2>4. ~CorrectsJoin(a, g) /\ g.refund /\ ~a.refund
    BY DEF Text, CorrectsJoin, ByRegion
  <2> HIDE DEF a, g
  <2> QED
    BY <2>1, <2>2, <2>3, <2>4, CandidatesOf
<1>5. KeysOf(ItemCandidates("q02")) = {R, S, C, F}
  <2> DEFINE a == Text({Window(1)}, {Calendar(7), Calendar(3)}, Orders)
             g == [Text({Window(2), NotDeleted, NotCancelled, RefundsOf}, {Date(8), Date(5)},
                        Orders \cup {"refunds"}) EXCEPT !.refund = TRUE]
  <2>1. ItemCandidates("q02") = Candidates(a, g)
    BY DEF ItemCandidates, Correction
  <2>2. {p \in g.preds \ a.preds : IsRule(p)} = {NotDeleted, NotCancelled}
    BY <1>1 DEF Text
  <2>3. MovesCalendar(a, g)
    <3>1. Date(5) \in g.dates \ a.dates /\ Date(5).fiscal
      BY DEF Text, Date, Calendar
    <3> QED
      BY <3>1 DEF MovesCalendar
  <2>4. ~CorrectsJoin(a, g) /\ g.refund /\ ~a.refund
    BY DEF Text, CorrectsJoin, Orders
  <2> HIDE DEF a, g
  <2> QED
    BY <2>1, <2>2, <2>3, <2>4, CandidatesOf
<1>6. KeysOf(ItemCandidates("q06")) = {S, C, J}
  <2> DEFINE a == [Text({Window(1)}, {Date(9), Date(10)}, Orders \cup {"products", "regions"})
                     EXCEPT !.regionOnProduct = TRUE]
             g == Text({Window(1), NotDeleted, NotCancelled}, {Date(9), Date(10)},
                       ByRegion \cup {"products"})
  <2>1. ItemCandidates("q06") = Candidates(a, g)
    BY DEF ItemCandidates, Correction
  <2>2. {p \in g.preds \ a.preds : IsRule(p)} = {NotDeleted, NotCancelled}
    BY <1>1 DEF Text
  <2>3. ~MovesCalendar(a, g) /\ CorrectsJoin(a, g) /\ ~(g.refund /\ ~a.refund)
    BY DEF Text, MovesCalendar, CorrectsJoin, ByRegion
  <2> HIDE DEF a, g
  <2> QED
    BY <2>1, <2>2, <2>3, CandidatesOf
<1> QED
  BY <1>2, <1>3, <1>4, <1>5, <1>6

\* The rules the first n lessons teach: none, the two filters, metric and
\* calendar with them, and all five.
LEMMA TaughtRules ==
    /\ DOMAIN Taught = 0 .. 3
    /\ Taught[0] = {} /\ Taught[1] = {S, C} /\ Taught[2] = {R, S, C, F} /\ Taught[3] = Rule
<1> DEFINE lesson(i) == UNION {KeysOf(ItemCandidates(CURRICULUM[i][j])) : j \in DOMAIN CURRICULUM[i]}
<1>1. /\ Len(CURRICULUM) = 3
      /\ CURRICULUM[1] = <<"q08", "q11">> /\ CURRICULUM[2] = <<"q01", "q02">> /\ CURRICULUM[3] = <<"q06">>
  BY DEF CURRICULUM
<1>2. lesson(1) = {S, C}
  <2>1. DOMAIN CURRICULUM[1] = {1, 2} /\ CURRICULUM[1][1] = "q08" /\ CURRICULUM[1][2] = "q11"
    BY <1>1
  <2> QED
    BY <2>1, CurriculumTeaches
<1>3. lesson(2) = {R, S, C, F}
  <2>1. DOMAIN CURRICULUM[2] = {1, 2} /\ CURRICULUM[2][1] = "q01" /\ CURRICULUM[2][2] = "q02"
    BY <1>1
  <2> QED
    BY <2>1, CurriculumTeaches
<1>4. lesson(3) = {S, C, J}
  <2>1. DOMAIN CURRICULUM[3] = {1} /\ CURRICULUM[3][1] = "q06"
    BY <1>1
  <2> QED
    BY <2>1, CurriculumTeaches
<1>5. Taught = [n \in 0 .. 3 |-> UNION {lesson(i) : i \in 1 .. n}]
  BY <1>1 DEF Taught
<1> HIDE DEF lesson
<1>6. 1 .. 0 = {} /\ 1 .. 1 = {1} /\ 1 .. 2 = {1, 2} /\ 1 .. 3 = {1, 2, 3}
  OBVIOUS
<1>7. DOMAIN Taught = 0 .. 3 /\ Taught[0] = {}
  BY <1>5, <1>6
<1>8. Taught[1] = {S, C}
  BY <1>2, <1>5, <1>6
<1>9. Taught[2] = {R, S, C, F}
  BY <1>2, <1>3, <1>5, <1>6
<1>10. Taught[3] = Rule
  <2>1. UNION {lesson(i) : i \in 1 .. 3} = lesson(1) \cup lesson(2) \cup lesson(3)
    BY <1>6
  <2> QED
    BY <1>2, <1>3, <1>4, <1>5, <2>1 DEF Rule
<1> QED
  BY <1>7, <1>8, <1>9, <1>10

-----------------------------------------------------------------------------
(* What the baits overapply *)

\* A correction that adds no filter, and one that adds one: its candidates.
LEMMA CandidatesFewFilters ==
    ASSUME NEW a, NEW g
    PROVE  LET others == (IF MovesCalendar(a, g) THEN {F} ELSE {})
                           \cup (IF CorrectsJoin(a, g) THEN {J} ELSE {})
                           \cup (IF g.refund /\ ~a.refund THEN {R} ELSE {})
               added == {p \in g.preds \ a.preds : IsRule(p)}
           IN  /\ added = {} => KeysOf(Candidates(a, g)) = others
               /\ added = {NotDeleted} => KeysOf(Candidates(a, g)) = {S} \cup others
               /\ added = {NotCancelled} => KeysOf(Candidates(a, g)) = {C} \cup others
<1> DEFINE added == {p \in g.preds \ a.preds : IsRule(p)}
           others == (IF MovesCalendar(a, g) THEN {F} ELSE {})
                       \cup (IF CorrectsJoin(a, g) THEN {J} ELSE {})
                       \cup (IF g.refund /\ ~a.refund THEN {R} ELSE {})
<1>1. ASSUME added = {} PROVE KeysOf(Candidates(a, g)) = others
  <2>1. /\ FilterRules(g.preds \ a.preds) \in Seq(Rule)
        /\ KeysOf(FilterRules(g.preds \ a.preds)) = {}
    BY <1>1, NoFilter
  <2> QED
    BY <2>1, CandidatesFrom
<1>2. ASSUME added = {NotDeleted} PROVE KeysOf(Candidates(a, g)) = {S} \cup others
  <2>1. /\ FilterRules(g.preds \ a.preds) \in Seq(Rule)
        /\ KeysOf(FilterRules(g.preds \ a.preds)) = {IF NotDeleted = NotDeleted THEN S ELSE C}
    BY <1>2, OneFilter
  <2>2. KeysOf(FilterRules(g.preds \ a.preds)) = {S}
    BY <2>1
  <2> QED
    BY <2>1, <2>2, CandidatesFrom
<1>3. ASSUME added = {NotCancelled} PROVE KeysOf(Candidates(a, g)) = {C} \cup others
  <2>1. /\ FilterRules(g.preds \ a.preds) \in Seq(Rule)
        /\ KeysOf(FilterRules(g.preds \ a.preds)) = {IF NotCancelled = NotDeleted THEN S ELSE C}
    BY <1>3, OneFilter
  <2>2. NotCancelled # NotDeleted
    BY DEF NotCancelled, NotDeleted
  <2>3. KeysOf(FilterRules(g.preds \ a.preds)) = {C}
    BY <2>1, <2>2
  <2> QED
    BY <2>1, <2>3, CandidatesFrom
<1> HIDE DEF added, others
<1> QED
  BY <1>1, <1>2, <1>3 DEF added, others

\* Each bait applies the rule of BAIT_TRIGGER where its gold text does not; but q07's
\* applies soft delete, and its trigger is the cancelled filter.
LEMMA BaitsOverapply ==
    ASSUME NEW i \in Baited
    PROVE  Overapplied(i) = IF i = 7 THEN {S} ELSE {BaitTrigger(i)}
<1> DEFINE a == Overgeneralization(i)[1]
           g == Overgeneralization(i)[2]
           added == {p \in g.preds \ a.preds : IsRule(p)}
<1>1. /\ IsRule(NotDeleted) /\ IsRule(NotCancelled) /\ ~IsRule(RefundsOf)
      /\ \A n \in {1, 2} : ~IsRule(Window(n)) /\ ~IsRule([RefundsOf EXCEPT !.rank = @ + n])
      /\ IsDeleted # NotDeleted /\ IsCancelled # NotCancelled
      /\ NotDeleted # NotCancelled
      /\ NotCancelled # Window(1) /\ NotDeleted # Window(1)
  BY DEF IsRule, NotDeleted, NotCancelled, RefundsOf, Window, IsDeleted, IsCancelled
<1>2. CASE i = 3
  <2>1. /\ a = Text({IsCancelled, Window(1)}, ThisYear, {"orders"})
        /\ g = Text({IsCancelled, NotCancelled, Window(1)}, ThisYear, {"orders"})
    BY <1>2 DEF Overgeneralization
  <2> HIDE DEF a, g
  <2>2. added = {NotCancelled}
    BY <1>1, <2>1 DEF Text
  <2>3. ~MovesCalendar(a, g) /\ ~CorrectsJoin(a, g) /\ ~(g.refund /\ ~a.refund)
    BY <2>1 DEF Text, MovesCalendar, CorrectsJoin
  <2>4. KeysOf(Candidates(a, g)) = {C}
    BY <2>2, <2>3, CandidatesFewFilters
  <2> QED
    BY <1>2, <2>4 DEF Overapplied, BaitTrigger, a, g
<1>3. CASE i = 7
  <2>1. /\ a = Text({IsDeleted}, {}, {"orders"})
        /\ g = Text({IsDeleted, NotDeleted}, {}, {"orders"})
    BY <1>3 DEF Overgeneralization
  <2> HIDE DEF a, g
  <2>2. added = {NotDeleted}
    BY <1>1, <2>1 DEF Text
  <2>3. ~MovesCalendar(a, g) /\ ~CorrectsJoin(a, g) /\ ~(g.refund /\ ~a.refund)
    BY <2>1 DEF Text, MovesCalendar, CorrectsJoin
  <2>4. KeysOf(Candidates(a, g)) = {S}
    BY <2>2, <2>3, CandidatesFewFilters
  <2> QED
    BY <1>3, <2>4 DEF Overapplied, a, g
<1>4. CASE i = 31
  <2> DEFINE gross == {NotDeleted, NotCancelled, Window(2)}
             dates == {Date(8), Date(5)}
  <2>1. /\ a = Text(gross, dates, Orders)
        /\ g = NetOfRefunds(Text(gross \cup {RefundsOf}, dates, Orders))
    BY <1>4 DEF Overgeneralization
  <2> HIDE DEF a, g
  <2>2. /\ a.preds = gross /\ g.preds = gross \cup {RefundsOf} /\ a.dates = g.dates
        /\ g.tables = {"order_lines", "orders", "refunds"} /\ g.refund /\ ~a.refund
    BY <2>1 DEF Text, NetOfRefunds, Orders
  <2>3. added = {}
    BY <1>1, <2>2
  <2>4. ~MovesCalendar(a, g) /\ ~CorrectsJoin(a, g)
    BY <2>2 DEF MovesCalendar, CorrectsJoin
  <2>5. KeysOf(Candidates(a, g)) = {R}
    BY <2>2, <2>3, <2>4, CandidatesFewFilters
  <2> QED
    BY <1>4, <2>5 DEF Overapplied, BaitTrigger, a, g
<1>5. CASE i = 36
  <2> DEFINE refunds(n) == [RefundsOf EXCEPT !.rank = @ + n]
             net(n, dates) == NetOfRefunds(
                 Text({NotDeleted, NotCancelled, Window(n), refunds(n)}, dates, Orders))
  <2>1. a = net(1, {Calendar(3), Calendar(4)}) /\ g = net(2, {Date(5), Date(6)})
    BY <1>5 DEF Overgeneralization
  <2> HIDE DEF a, g
  <2>2. /\ a.preds = {NotDeleted, NotCancelled, Window(1), refunds(1)}
        /\ g.preds = {NotDeleted, NotCancelled, Window(2), refunds(2)}
        /\ a.dates = {Calendar(3), Calendar(4)} /\ g.dates = {Date(5), Date(6)}
        /\ g.tables = {"order_lines", "orders", "refunds"} /\ a.refund
    BY <2>1 DEF Text, NetOfRefunds, Orders
  <2>3. ~IsRule(Window(2)) /\ ~IsRule(refunds(2))
    BY <1>1
  <2> HIDE DEF refunds, net
  <2>4. added = {}
    BY <2>2, <2>3
  <2>5. MovesCalendar(a, g) /\ ~CorrectsJoin(a, g)
    <3>1. Date(5) \in g.dates \ a.dates /\ Date(5).fiscal
      BY <2>2 DEF Date, Calendar
    <3> QED
      BY <2>2, <3>1 DEF MovesCalendar, CorrectsJoin
  <2>6. KeysOf(Candidates(a, g)) = {F}
    BY <2>2, <2>4, <2>5, CandidatesFewFilters
  <2> QED
    BY <1>5, <2>6 DEF Overapplied, BaitTrigger, a, g
<1>6. CASE i = 47
  <2>1. a = Text({IsDeleted}, {}, Orders) /\ g = Text({IsDeleted, NotDeleted}, {}, Orders)
    BY <1>6 DEF Overgeneralization
  <2> HIDE DEF a, g
  <2>2. added = {NotDeleted}
    BY <1>1, <2>1 DEF Text
  <2>3. ~MovesCalendar(a, g) /\ ~CorrectsJoin(a, g) /\ ~(g.refund /\ ~a.refund)
    BY <2>1 DEF Text, MovesCalendar, CorrectsJoin, Orders
  <2>4. KeysOf(Candidates(a, g)) = {S}
    BY <2>2, <2>3, CandidatesFewFilters
  <2> QED
    BY <1>6, <2>4 DEF Overapplied, BaitTrigger, a, g
<1>7. CASE i = 50
  <2>1. /\ a = Text({NotDeleted, Window(1)}, ThisYear, {"orders"})
        /\ g = Text({NotDeleted, NotCancelled, Window(1)}, ThisYear, {"orders"})
    BY <1>7 DEF Overgeneralization
  <2> HIDE DEF a, g
  <2>2. added = {NotCancelled}
    BY <1>1, <2>1 DEF Text
  <2>3. ~MovesCalendar(a, g) /\ ~CorrectsJoin(a, g) /\ ~(g.refund /\ ~a.refund)
    BY <2>1 DEF Text, MovesCalendar, CorrectsJoin
  <2>4. KeysOf(Candidates(a, g)) = {C}
    BY <2>2, <2>3, CandidatesFewFilters
  <2> QED
    BY <1>7, <2>4 DEF Overapplied, BaitTrigger, a, g
<1> QED
  BY <1>2, <1>3, <1>4, <1>5, <1>6, <1>7 DEF Baited

\* For any corrections and any number of exams: when learning costs an item, its
\* bait overapplies a rule learnt in between.  Of q07 this needs that both
\* memories are the curriculum's, where the two filters come together.
THEOREM BaitsFireRightly == Spec => []BaitsFireForTheirReason
<1>1. ASSUME IInv PROVE BaitsFireForTheirReason
  <2> SUFFICES ASSUME NEW m \in DOMAIN exams, NEW n \in DOMAIN exams, m < n,
                      Whole(exams[n]), exams[m].live \subseteq exams[n].live,
                      NEW i \in exams[m].report.correct \ exams[n].report.correct,
                      i # 7 \/ (OnCurriculum(exams[m]) /\ OnCurriculum(exams[n]))
               PROVE  Overapplied(i) \cap (exams[n].live \ exams[m].live) # {}
    BY DEF BaitsFireForTheirReason
  <2>1. i \in Baited /\ BaitTrigger(i) \in exams[n].live \ exams[m].live
    BY <1>1, LossesAreBaits DEF OnlyBaitRegresses
  <2>2. CASE i # 7
    BY <2>1, <2>2, BaitsOverapply
  <2>3. CASE i = 7
    <3>1. C \in exams[n].live \ exams[m].live
      BY <2>1, <2>3 DEF BaitTrigger
    <3>2. \A l \in DOMAIN Taught : C \in Taught[l] <=> S \in Taught[l]
      <4>1. \A l \in DOMAIN Taught : l = 0 \/ l = 1 \/ l = 2 \/ l = 3
        BY TaughtRules
      <4> QED
        BY <4>1, TaughtRules DEF Rule
    <3>3. S \in exams[n].live \ exams[m].live
      BY <2>3, <3>1, <3>2 DEF OnCurriculum
    <3>4. Overapplied(i) = {S}
      BY <2>1, <2>3, BaitsOverapply
    <3> QED
      BY <3>3, <3>4
  <2> QED
    BY <2>2, <2>3
<1> QED
  BY <1>1, ExamsAreGraded, PTL

-----------------------------------------------------------------------------
(* The published curve *)

\* The lists of questions.json, rule by rule.
LEMMA Listings ==
    /\ Listing(R) = {1, 4, 8, 9, 15, 18, 21, 22, 25, 26, 28, 30, 32, 36, 42, 44, 45} \cup
                    {2, 5, 10, 12, 13, 14, 17, 20, 33, 38, 39, 41, 49}
    /\ Listing(S) = {1, 8, 9, 11, 16, 18, 19, 21, 23, 25, 26, 27, 30, 32, 36, 43, 44, 45, 50} \cup
                    {2, 5, 10, 12, 13, 14, 17, 20, 31, 33, 37, 38, 39, 41, 48, 49}
    /\ Listing(C) = {1, 9, 11, 15, 16, 18, 19, 22, 25, 30, 32, 36, 43, 44, 45} \cup
                    {2, 5, 10, 12, 13, 14, 17, 20, 31, 33, 37, 38, 39, 41, 48, 49}
    /\ Listing(F) = {1, 4, 18, 24, 25, 30, 32, 42, 44} \cup
                    {2, 5, 10, 12, 13, 14, 17, 20, 31, 33, 37, 38, 39, 41, 48, 49}
    /\ Listing(J) = {1, 6, 8, 18, 19, 25, 27, 30, 32, 40, 42, 44, 46}
BY KeysAssumption DEF Listing

\* Without rules the student is right where gold and naive agree.
LEMMA RightUntaught == Right({}) = {3, 7, 29, 34, 35, 47}
<1>1. ASSUME NEW i \in Item, i \notin Unaffected PROVE \E r \in Rule : i \in Listing(r)
  <2>1. i \in Listing(R) \cup Listing(S) \cup Listing(C) \cup Listing(F) \cup Listing(J)
    BY <1>1, Listings DEF Item, Unaffected
  <2> QED
    BY <2>1 DEF Rule
<1>2. ASSUME NEW i \in Item PROVE i \in Right({}) <=> i \in Unaffected
  BY <1>1, RightIs DEF HouseRules
<1>3. Unaffected \subseteq Item
  BY DEF Unaffected, Item
<1> QED
  BY <1>2, <1>3 DEF Right, Unaffected

\* With the two filters live ...
LEMMA RightFilters == Right({S, C}) = {11, 16, 23, 29, 34, 35, 43}
<1>1. ASSUME NEW i \in Item
      PROVE  HouseRules(i) \subseteq {S, C} <=> i \notin Listing(R) \cup Listing(F) \cup Listing(J)
  BY KeysAssumption DEF HouseRules, Rule
<1>2. ASSUME NEW i \in Item
      PROVE  i \in Baited /\ BaitTrigger(i) \in {S, C} <=> i \in {3, 7, 47, 50}
  BY KeysAssumption DEF Baited, BaitTrigger
<1>3. ASSUME NEW i \in Item PROVE i \in Right({S, C}) <=> i \in {11, 16, 23, 29, 34, 35, 43}
  <2>1. i \in Right({S, C}) <=>
          /\ i \notin {3, 7, 47, 50}
          /\ i \notin Listing(R) \cup Listing(F) \cup Listing(J) \/ i \in Unaffected
    BY <1>1, <1>2, RightIs
  <2> QED
    BY <2>1, Listings DEF Item, Unaffected
<1> QED
  BY <1>3 DEF Right, Item

\* ... with metric and calendar too ...
LEMMA WrongWithoutJoin ==
    Item \ Right({R, S, C, F}) =
      {1, 3, 6, 7, 8, 18, 19, 25, 27, 30} \cup {31, 32, 36, 40, 42, 44, 46, 47, 50}
<1>1. ASSUME NEW i \in Item
      PROVE  HouseRules(i) \subseteq {R, S, C, F} <=> i \notin Listing(J)
  BY KeysAssumption DEF HouseRules, Rule
<1>2. ASSUME NEW i \in Item PROVE i \in Baited => BaitTrigger(i) \in {R, S, C, F}
  BY DEF Baited, BaitTrigger
<1>3. ASSUME NEW i \in Item
      PROVE  i \in Right({R, S, C, F}) <=>
               i \notin {1, 3, 6, 7, 8, 18, 19, 25, 27, 30} \cup {31, 32, 36, 40, 42, 44, 46, 47, 50}
  <2>1. i \in Right({R, S, C, F}) <=> i \notin Baited /\ (i \notin Listing(J) \/ i \in Unaffected)
    BY <1>1, <1>2, RightIs
  <2> QED
    BY <2>1, Listings DEF Item, Unaffected, Baited
<1> QED
  BY <1>3 DEF Item

\* Three more elements.
LEMMA ThreeMore ==
    ASSUME NEW T, IsFiniteSet(T), NEW n \in Nat, Cardinality(T) = n,
           NEW a, NEW b, NEW c, a \notin T, b \notin T, c \notin T, a # b, a # c, b # c
    PROVE  IsFiniteSet(T \cup {a, b, c}) /\ Cardinality(T \cup {a, b, c}) = n + 3
<1> DEFINE A == T \cup {a}
           B == A \cup {b}
<1>1. IsFiniteSet(A) /\ Cardinality(A) = n + 1
  BY FS_AddElement
<1>2. b \notin A
  OBVIOUS
<1> HIDE DEF A
<1>3. IsFiniteSet(B) /\ Cardinality(B) = n + 1 + 1
  BY <1>1, <1>2, FS_AddElement
<1>4. c \notin B
  BY DEF A
<1> HIDE DEF B
<1>5. IsFiniteSet(B \cup {c}) /\ Cardinality(B \cup {c}) = n + 1 + 1 + 1
  BY <1>3, <1>4, FS_AddElement
<1>6. B \cup {c} = T \cup {a, b, c}
  BY DEF A, B
<1> QED
  BY <1>5, <1>6

\* The items that keep a student without the join rule below the ceiling.
LEMMA NineteenWrong ==
    Cardinality({1, 3, 6, 7, 8, 18, 19, 25, 27, 30} \cup {31, 32, 36, 40, 42, 44, 46, 47, 50}) = 19
<1> DEFINE Z == {}
           Y == Z \cup {1, 3, 6}
           A == Y \cup {7, 8, 18}
           B == A \cup {19, 25, 27}
           D == B \cup {30, 31, 32}
           E == D \cup {36, 40, 42}
           G == E \cup {44, 46, 47}
<1>0. IsFiniteSet(Y) /\ Cardinality(Y) = 3
  <2>1. IsFiniteSet(Z) /\ Cardinality(Z) = 0 /\ 1 \notin Z /\ 3 \notin Z /\ 6 \notin Z
    BY FS_EmptySet
  <2> HIDE DEF Z
  <2> QED
    BY <2>1, ThreeMore
<1>1. IsFiniteSet(A) /\ Cardinality(A) = 6
  <2>1. 7 \notin Y /\ 8 \notin Y /\ 18 \notin Y
    OBVIOUS
  <2> HIDE DEF Y
  <2> QED
    BY <1>0, <2>1, ThreeMore
<1>2. IsFiniteSet(B) /\ Cardinality(B) = 9
  <2>1. 19 \notin A /\ 25 \notin A /\ 27 \notin A
    OBVIOUS
  <2> HIDE DEF A
  <2> QED
    BY <1>1, <2>1, ThreeMore
<1>3. IsFiniteSet(D) /\ Cardinality(D) = 12
  <2>1. 30 \notin B /\ 31 \notin B /\ 32 \notin B
    OBVIOUS
  <2> HIDE DEF A, B
  <2> QED
    BY <1>2, <2>1, ThreeMore
<1>4. IsFiniteSet(E) /\ Cardinality(E) = 15
  <2>1. 36 \notin D /\ 40 \notin D /\ 42 \notin D
    OBVIOUS
  <2> HIDE DEF A, B, D
  <2> QED
    BY <1>3, <2>1, ThreeMore
<1>5. IsFiniteSet(G) /\ Cardinality(G) = 18
  <2>1. 44 \notin E /\ 46 \notin E /\ 47 \notin E
    OBVIOUS
  <2> HIDE DEF A, B, D, E
  <2> QED
    BY <1>4, <2>1, ThreeMore
<1>6. Cardinality(G \cup {50}) = 19
  <2>1. 50 \notin G
    OBVIOUS
  <2> HIDE DEF A, B, D, E, G
  <2> QED
    BY <1>5, <2>1, FS_AddElement
<1>7. G \cup {50} = {1, 3, 6, 7, 8, 18, 19, 25, 27, 30} \cup {31, 32, 36, 40, 42, 44, 46, 47, 50}
  OBVIOUS
<1> QED
  BY <1>6, <1>7

\* ... and what is not wrong is right.
LEMMA ScoreOfTheRest ==
    ASSUME NEW T, T \subseteq Item
    PROVE  IsFiniteSet(T) /\ Cardinality(T) = 50 - Cardinality(Item \ T)
<1>1. IsFiniteSet(T) /\ Cardinality(T) \in Nat /\ Item \cap T = T
  BY FiftyItems, FS_Subset, FS_CardinalityType
<1>2. Cardinality(Item \ T) = 50 - Cardinality(T)
  BY FiftyItems, <1>1, FS_Difference
<1> QED
  BY <1>1, <1>2

\* The items an untaught student has right, those it has right with the two
\* filters but one, and the baits.
LEMMA SixEach ==
    /\ Cardinality({3, 7, 29, 34, 35, 47}) = 6
    /\ IsFiniteSet({11, 16, 23, 29, 34, 35}) /\ Cardinality({11, 16, 23, 29, 34, 35}) = 6
    /\ Cardinality({3, 7, 31, 36, 47, 50}) = 6
<1> DEFINE Z == {}
           A == Z \cup {3, 7, 29}
           B == Z \cup {11, 16, 23}
           D == Z \cup {3, 7, 31}
<1>1. IsFiniteSet(Z) /\ Cardinality(Z) = 0
  BY FS_EmptySet
<1>2. /\ 34 \notin A /\ 35 \notin A /\ 47 \notin A
      /\ 29 \notin B /\ 34 \notin B /\ 35 \notin B
      /\ 36 \notin D /\ 47 \notin D /\ 50 \notin D
  OBVIOUS
<1>3. /\ {3, 7, 29, 34, 35, 47} = A \cup {34, 35, 47}
      /\ {11, 16, 23, 29, 34, 35} = B \cup {29, 34, 35}
      /\ {3, 7, 31, 36, 47, 50} = D \cup {36, 47, 50}
  OBVIOUS
<1> HIDE DEF Z
<1>4. IsFiniteSet(A) /\ Cardinality(A) = 3
  <2>1. 3 \notin Z /\ 7 \notin Z /\ 29 \notin Z
    BY DEF Z
  <2> QED
    BY <1>1, <2>1, ThreeMore
<1>5. IsFiniteSet(B) /\ Cardinality(B) = 3
  <2>1. 11 \notin Z /\ 16 \notin Z /\ 23 \notin Z
    BY DEF Z
  <2> QED
    BY <1>1, <2>1, ThreeMore
<1>6. IsFiniteSet(D) /\ Cardinality(D) = 3
  <2>1. 3 \notin Z /\ 7 \notin Z /\ 31 \notin Z
    BY DEF Z
  <2> QED
    BY <1>1, <2>1, ThreeMore
<1> HIDE DEF A, B, D
<1>7. Cardinality(A \cup {34, 35, 47}) = 6
  BY <1>2, <1>4, ThreeMore
<1>8. IsFiniteSet(B \cup {29, 34, 35}) /\ Cardinality(B \cup {29, 34, 35}) = 6
  BY <1>2, <1>5, ThreeMore
<1>9. Cardinality(D \cup {36, 47, 50}) = 6
  BY <1>2, <1>6, ThreeMore
<1> QED
  BY <1>3, <1>7, <1>8, <1>9

\* For any corrections and any number of exams: with what distill finds in none,
\* one, two and three lessons of CURRICULUM the student scores 6, 7, 31 and 44.
THEOREM TheCurveIsAsPublished == Spec => []PublishedCurve
<1>1. Cardinality(Right(Taught[0])) = 6
  BY SixEach, TaughtRules, RightUntaught
<1>2. Cardinality(Right(Taught[1])) = 7
  <2> DEFINE A == {11, 16, 23, 29, 34, 35}
  <2>1. 43 \notin A
    OBVIOUS
  <2>2. IsFiniteSet(A) /\ Cardinality(A) = 6
    BY SixEach
  <2>3. A \cup {43} = Right({S, C})
    BY RightFilters
  <2> HIDE DEF A
  <2>4. Cardinality(A \cup {43}) = 7
    BY <2>1, <2>2, FS_AddElement
  <2> QED
    BY <2>3, <2>4, TaughtRules
<1>3. Cardinality(Right(Taught[2])) = 31
  <2>1. Right({R, S, C, F}) \subseteq Item
    BY DEF Right
  <2>2. IsFiniteSet(Right({R, S, C, F})) /\ Cardinality(Right({R, S, C, F})) = 50 - 19
    BY <2>1, ScoreOfTheRest, WrongWithoutJoin, NineteenWrong
  <2> QED
    BY <2>2, TaughtRules
<1>4. Cardinality(Right(Taught[3])) = 44
  <2>1. Right(Rule) \subseteq Item /\ Item \ Right(Rule) = Baited
    <3>1. Baited \subseteq Item
      BY DEF Baited, Item
    <3>2. Right(Rule) \subseteq Item
      BY DEF Right
    <3> QED
      BY <3>1, <3>2, RightOfAll
  <2>2. Cardinality(Baited) = 6
    BY SixEach DEF Baited
  <2>3. Cardinality(Right(Rule)) = 50 - 6
    BY <2>1, <2>2, ScoreOfTheRest
  <2> QED
    BY <2>3, TaughtRules
<1>5. IInv => PublishedCurve
  <2> SUFFICES ASSUME IInv, NEW n \in DOMAIN exams, Whole(exams[n]),
                      NEW l \in DOMAIN Taught, exams[n].live = Taught[l]
               PROVE  Score(exams[n]) = <<6, 7, 31, 44>>[l + 1]
    BY DEF PublishedCurve
  <2>1. Score(exams[n]) = Cardinality(Right(Taught[l]))
    BY DEF IInv, GradedExam, Score
  <2>2. l = 0 \/ l = 1 \/ l = 2 \/ l = 3
    BY TaughtRules
  <2> QED
    BY <1>1, <1>2, <1>3, <1>4, <2>1, <2>2
<1> QED
  BY <1>5, ExamsAreGraded, PTL
=============================================================================
