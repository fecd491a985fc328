--------------------------------- MODULE Exam ---------------------------------
(***************************************************************************)
(* The frozen exam of eval/questions.json, the rule-gated student that     *)
(* sits it (student.choose_sql, educate.answers_oracle) and the grader     *)
(* (run_exam.cmd_grade).  A memory is taught corrections in any order and   *)
(* is now and then reset; it may sit the exam at any moment.               *)
(*                                                                         *)
(* SQL is abstracted to which of an item's three bodies it is, a body to   *)
(* the signature of its result on the seeded warehouse.  Of the signatures *)
(* only what cmd_verify finds in order is used.                            *)
(***************************************************************************)
EXTENDS Distill

CONSTANTS
    Corrections,  \* the corrections that may be taught: <<attempt_sql, gold_sql>>
    Signature,    \* Signature[i][body]: the result_signature of item i's body
    Failed,       \* in place of a signature: the body did not execute
    Label,        \* Label[i]: item i's row of labels.json
    MaxExams      \* bound: exams sat in one behaviour

ASSUME CorrectionsAssumption == \A c \in Corrections : IsFiniteSet(c[2].preds)
ASSUME MaxExamsAssumption == MaxExams \in Nat

-----------------------------------------------------------------------------
(* questions.json *)

Item == 1 .. 50

\* stratum "unaffected": gold and naive agree.
Unaffected == {3, 7, 29, 34, 35, 47}

\* regression_bait items; each has a bait_sql.
Baited == {3, 7, 31, 36, 47, 50}

\* cmd_verify's checks of an item: the bodies execute, gold reproduces the label,
\* naive agrees with gold in stratum unaffected and nowhere else, bait differs.
Verifies(i) ==
    /\ Signature[i]["gold"] # Failed
    /\ Label[i] = Signature[i]["gold"]
    /\ Signature[i]["naive"] # Failed
    /\ i \in Unaffected <=> Signature[i]["naive"] = Signature[i]["gold"]
    /\ i \in Baited => Signature[i]["bait"] \notin {Failed, Signature[i]["gold"]}

ASSUME VerifyAssumption == \A i \in Item : Verifies(i)

\* The items whose house_rules list rule r.
Listing(r) ==
    CASE r = R -> {1, 4, 8, 9, 15, 18, 21, 22, 25, 26, 28, 30, 32, 36, 42, 44, 45} \cup
                  {2, 5, 10, 12, 13, 14, 17, 20, 33, 38, 39, 41, 49}
      [] r = S -> {1, 8, 9, 11, 16, 18, 19, 21, 23, 25, 26, 27, 30, 32, 36, 43, 44, 45, 50} \cup
                  {2, 5, 10, 12, 13, 14, 17, 20, 31, 33, 37, 38, 39, 41, 48, 49}
      [] r = C -> {1, 9, 11, 15, 16, 18, 19, 22, 25, 30, 32, 36, 43, 44, 45} \cup
                  {2, 5, 10, 12, 13, 14, 17, 20, 31, 33, 37, 38, 39, 41, 48, 49}
      [] r = F -> {1, 4, 18, 24, 25, 30, 32, 42, 44} \cup
                  {2, 5, 10, 12, 13, 14, 17, 20, 31, 33, 37, 38, 39, 41, 48, 49}
      [] r = J -> {1, 6, 8, 18, 19, 25, 27, 30, 32, 40, 42, 44, 46}

HouseRules(i) == {r \in Rule : i \in Listing(r)}

-----------------------------------------------------------------------------
(* student.py *)

\* Mutation of BaitTrigger: as in the table of PROTOCOL.md, whose ids are not
\* those of the exam.
BaitTriggerOfProtocol(i) ==
    CASE i \in {3, 47} -> S
      [] i \in {7, 36} -> C
      [] i = 31 -> F
      [] i = 50 -> R

\* BAIT_TRIGGER
BaitTrigger(i) ==
    CASE i \in {3, 7, 50} -> C
      [] i = 31 -> R
      [] i = 36 -> F
      [] i = 47 -> S

\* Mutation of ChooseSql: `==` for `<=` between needed and live rules.
ChooseSqlExactRules(i, live) ==
    IF i \in Baited /\ BaitTrigger(i) \in live THEN "bait"
    ELSE IF HouseRules(i) = live THEN "gold" ELSE "naive"

\* Mutation of ChooseSql: the bait is tried after the gold.
ChooseSqlGoldFirst(i, live) ==
    IF HouseRules(i) \subseteq live THEN "gold"
    ELSE IF i \in Baited /\ BaitTrigger(i) \in live THEN "bait" ELSE "naive"

\* choose_sql(item, live_rule_keys)
ChooseSql(i, live) ==
    IF i \in Baited /\ BaitTrigger(i) \in live THEN "bait"
    ELSE IF HouseRules(i) \subseteq live THEN "gold" ELSE "naive"

\* answers_oracle(items, live_keys)
AnswersOracle(live) == [i \in Item |-> ChooseSql(i, live)]

-----------------------------------------------------------------------------
(* run_exam.py *)

\* signature_of(conn, sql) against the item's label.
SignaturesMatch(i, sql) == Signature[i][sql] = Label[i]

\* Mutation of Grade: the loop runs over the answers, not over the questions.
GradeAnswered(answers) ==
    LET graded == DOMAIN answers
    IN  [total |-> Cardinality(graded),
         correct |-> {i \in graded : SignaturesMatch(i, answers[i])},
         missing |-> {}]

\* Mutation of Grade: a label and an answer that are both absent match.
GradeAbsentMatches(answers) ==
    [total |-> Cardinality(Item),
     correct |-> {i \in Item : i \in DOMAIN answers => SignaturesMatch(i, answers[i])},
     missing |-> Item \ DOMAIN answers]

\* cmd_grade: every question is graded, one without an answer is not correct.
Grade(answers) ==
    [total |-> Cardinality(Item),
     correct |-> {i \in DOMAIN answers : SignaturesMatch(i, answers[i])},
     missing |-> Item \ DOMAIN answers]

-----------------------------------------------------------------------------
VARIABLES
    live,         \* rule keys with a live row
    exams         \* the graded exams so far: live keys and report

vars == <<live, exams>>

Init == live = {} /\ exams = <<>>

\* The sets of keys the corrections leave in memory.
Learnable == {KeysOf(Candidates(c[1], c[2])) : c \in Corrections}

\* teach_correction upserts what distill finds (upsert_rule keeps a key live).
Learn ==
    /\ \E keys \in Learnable : live' = live \cup keys
    /\ UNCHANGED exams

\* reset_memory()
Reset ==
    /\ live' = {}
    /\ UNCHANGED exams

Sit(answers) ==
    /\ Len(exams) < MaxExams
    /\ exams' = Append(exams, [live |-> live, report |-> Grade(answers)])
    /\ UNCHANGED live

\* An epoch of the oracle arm: answer every item, grade the file.
SitExam == Sit(AnswersOracle(live))

\* An answers file that lacks items (an empty one, one of the first ten) goes
\* through the same grader.
SitPartial == \E n \in {0, 10} : Sit([i \in 1 .. n |-> ChooseSql(i, live)])

Next == Learn \/ Reset \/ SitExam \/ SitPartial

Spec == Init /\ [][Next]_vars

-----------------------------------------------------------------------------
Score(e) == Cardinality(e.report.correct)

Whole(e) == e.report.missing = {}

TypeOK ==
    /\ live \subseteq Rule
    /\ Len(exams) <= MaxExams
    /\ \A n \in DOMAIN exams :
          /\ exams[n].live \subseteq Rule
          /\ exams[n].report.correct \subseteq Item
          /\ exams[n].report.missing \subseteq Item \ exams[n].report.correct

\* Accuracy is over all fifty questions whatever the answers file holds, so an
\* arm that stops early never outscores a full one on the same memory.
GradesTheWholeExam ==
    \A m, n \in DOMAIN exams :
        /\ exams[n].report.total = 50
        /\ exams[m].live = exams[n].live /\ Whole(exams[n]) =>
              exams[m].report.correct \subseteq exams[n].report.correct

\* The published oracle curve (README.md, "oracle" column): 6, 7, 31 and 44 of
\* 50 with what distill finds in none, one, two and three lessons of CURRICULUM.
PublishedCurve ==
    \A n \in DOMAIN exams : Whole(exams[n]) =>
        \A l \in DOMAIN Taught :
            exams[n].live = Taught[l] => Score(exams[n]) = <<6, 7, 31, 44>>[l + 1]

\* Learning more costs an item only through its bait: an item right in one exam
\* and wrong in a later one, sat with at least the same rules live, is a
\* published bait whose trigger came in between.
OnlyBaitRegresses ==
    \A m, n \in DOMAIN exams :
        (m < n /\ Whole(exams[n]) /\ exams[m].live \subseteq exams[n].live) =>
            \A i \in exams[m].report.correct \ exams[n].report.correct :
                i \in Baited /\ BaitTrigger(i) \in exams[n].live \ exams[m].live

OnCurriculum(e) == \E l \in DOMAIN Taught : e.live = Taught[l]

\* "Over-generalization the bait items catch, once that rule is in memory"
\* (student.py): the table of triggers and the texts of the exam agree.  When
\* learning costs an item, its bait applies a rule that the gold text does not
\* and that was learnt in between: distill, shown the bait for a correction,
\* finds it.  Of q07 this holds on the curriculum's memories only: BAIT_TRIGGER has
\* the cancelled filter where bait_sql applies soft delete, and the first
\* lesson teaches the two at once.
BaitsFireForTheirReason ==
    \A m, n \in DOMAIN exams :
        (m < n /\ Whole(exams[n]) /\ exams[m].live \subseteq exams[n].live) =>
            \A i \in exams[m].report.correct \ exams[n].report.correct :
                (i # 7 \/ (OnCurriculum(exams[m]) /\ OnCurriculum(exams[n]))) =>
                    Overapplied(i) \cap (exams[n].live \ exams[m].live) # {}

\* Whatever was taught, in whatever order, the student never does worse than
\* the untaught one by more than the bait items, and with every rule live the
\* baits are all it misses.
BaitsAreTheCeiling ==
    \A n \in DOMAIN exams : Whole(exams[n]) =>
        /\ Unaffected \ Baited \subseteq exams[n].report.correct
        /\ exams[n].live = Rule => Item \ exams[n].report.correct = Baited
=============================================================================
