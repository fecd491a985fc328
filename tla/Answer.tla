--------------------------------- MODULE Answer ---------------------------------
(***************************************************************************)
(* agent.py on top of AsOfRecall: a turn recalls the rules of one question *)
(* at a stamp, lets the model complete, extracts one SQL text and puts it  *)
(* through sql_guard.  answer_exam takes a turn per question, all at one   *)
(* stamp, and leaves an answers file; cmd_probe takes one turn and grades  *)
(* it.  Three programs grade the same SQL: cmd_grade runs a whole file on  *)
(* one SQLite connection, answer_with_receipt (probe) and                  *)
(* build_demo_recorded run each query on a warehouse of its own, and the   *)
(* last one puts a file's texts through the guard once more.               *)
(*                                                                         *)
(* The model and SQLite are external.  A text is what the guard sees of it *)
(* and what SQLite does with it: its result is the item's label or not, it *)
(* fails, it writes, or it never ends (execute_sql has no timeout).  The   *)
(* time a turn takes is the time of its recall.  cmd_baseline and the      *)
(* oracle arm leave files that no guard has seen: they rely on the exam's  *)
(* own queries writing nothing (HouseAssumption).                          *)
(***************************************************************************)
EXTENDS AsOfRecall, Sequences

CONSTANTS
    Items,        \* questions in the exam
    Text,         \* texts extract_sql may return
    House,        \* those that are a gold_sql or naive_sql of the exam
    MaxJobs       \* bound: answering jobs in one behaviour

TextType == [empty : BOOLEAN, semicolon : BOOLEAN, selects : BOOLEAN, keyword : BOOLEAN,
             does : {"right", "wrong", "fails", "writes", "endless"}]

-----------------------------------------------------------------------------
(* sql_guard.py *)

\* Mutation of Refused: what begins with SELECT or WITH is not looked at again.
RefusedByHead(t) == t.empty \/ t.semicolon \/ ~t.selects

\* reject_reason(sql) is not None: nothing there, a second statement, another
\* first word, or a word of _FORBIDDEN anywhere in the text.
Refused(t) == t.empty \/ t.semicolon \/ ~t.selects \/ t.keyword

\* SQLite writes only for words that are in _FORBIDDEN or begin no query.
ASSUME SqliteAssumption ==
    /\ Text \subseteq TextType
    /\ \A t \in Text : t.does = "writes" => t.keyword \/ ~t.selects

\* questions.json: gold and naive bodies are queries that the guard lets pass.
ASSUME HouseAssumption ==
    House \subseteq Text /\ \A t \in House : ~Refused(t) /\ t.does \in {"right", "wrong"}

ASSUME ItemsAssumption == Items \in Nat \ {0}
ASSUME MaxJobsAssumption == MaxJobs \in Nat

-----------------------------------------------------------------------------
(* Rows of an answers file, and what comes of them *)

\* row["sql"] or "-- REJECTED: ...", which SQLite takes for a comment.
Row(t) == [text |-> t, rejected |-> Refused(t)]

Runs(row, what) == ~row.rejected /\ row.text.does = what

\* The rows of a file before the i-th left the shared warehouse as seeded.
Pristine(file, i) == \A j \in 1 .. i - 1 : ~Runs(file[j], "writes")

Ends(file) == \A i \in DOMAIN file : ~Runs(file[i], "endless")

VARIABLES
    job,          \* "none", or what is answering: "exam", "probe"
    rows,         \* answers of the exam under way
    answers,      \* the answers file, <<>> if there is none
    verdicts,     \* what the graders said: [by, item, text, correct]
    jobs          \* answering jobs so far (bound only)

answerVars == <<job, rows, answers, verdicts, jobs>>
allVars == <<vars, answerVars>>

Verdict(by, i, t, ok) == [by |-> by, item |-> i, text |-> t, correct |-> ok]

-----------------------------------------------------------------------------
AnswerInit ==
    /\ Init
    /\ job = "none"
    /\ rows = <<>>
    /\ answers = <<>>
    /\ verdicts = {}
    /\ jobs = 0

\* answer_exam(as_of) or cmd_probe comes to its first recall_similar.
StartJob ==
    /\ job = "none"
    /\ jobs < MaxJobs
    /\ Recall
    /\ job' \in {"exam", "probe"}
    /\ jobs' = jobs + 1
    /\ UNCHANGED <<rows, answers, verdicts>>

\* One statement of the recall under way, or its exception.
Recalling == (RecallStep \/ Cancelled) /\ UNCHANGED answerVars

\* The job is over; its as_of and the locals of its recalls are gone.
EndJob ==
    /\ job' = "none"
    /\ rows' = <<>>
    /\ pc' = "idle"
    /\ stamp' = 0 /\ wake' = 0 /\ deadline' = 0 /\ closed' = FALSE
    /\ UNCHANGED <<now, jobs>>

\* answer_one: the model completes and the guard looks at it; then the recall
\* of the next question, with a deadline of its own and the same stamp.  (The
\* bound leaves it the time it may take.)
AnswerItem ==
    /\ job = "exam" /\ pc = "served"
    /\ Len(rows) + 1 < Items
    /\ now + TimeoutTicks + StatementTicks < MaxNow
    /\ \E t \in Text : rows' = Append(rows, Row(t))
    /\ deadline' = Deadline
    /\ wake' = 0 /\ closed' = FALSE
    /\ pc' = "poll"
    /\ UNCHANGED <<now, stamp, job, answers, verdicts, jobs>>

\* The last question's turn, and ans_path.write_text.
WriteAnswers ==
    /\ job = "exam" /\ pc = "served"
    /\ Len(rows) + 1 = Items
    /\ \E t \in Text : answers' = Append(rows, Row(t))
    /\ EndJob
    /\ UNCHANGED verdicts

\* cmd_probe: the accepted text runs on a fresh warehouse.  (An endless one
\* leaves the probe where it is.)
ProbeGrades ==
    /\ job = "probe" /\ pc = "served"
    /\ \E t \in Text, i \in 1 .. Items :
          /\ ~Runs(Row(t), "endless")
          /\ verdicts' = verdicts \cup {Verdict("probe", i, t, Runs(Row(t), "right"))}
    /\ EndJob
    /\ UNCHANGED answers

\* The recall or the model raised: no handler on the way, all answers are lost.
JobRaises ==
    /\ job # "none" /\ pc \in {"served", "raised"}
    /\ EndJob
    /\ UNCHANGED <<answers, verdicts>>

\* cmd_baseline and the oracle arm leave files that no guard has seen.
HouseAnswers ==
    /\ job = "none"
    /\ jobs < MaxJobs
    /\ jobs' = jobs + 1
    /\ \E file \in [1 .. Items -> House] :
          answers' = [i \in 1 .. Items |-> [text |-> file[i], rejected |-> FALSE]]
    /\ UNCHANGED <<vars, job, rows, verdicts>>

\* cmd_grade: every item in order, on one connection.
GradeFile ==
    /\ answers # <<>>
    /\ Ends(answers)
    /\ verdicts' = verdicts \cup
          {Verdict("grade", i, answers[i].text, Runs(answers[i], "right") /\ Pristine(answers, i)) :
              i \in 1 .. Items}
    /\ UNCHANGED <<vars, job, rows, answers, jobs>>

\* build_demo_recorded: every item on a connection of its own.
RecordDemo ==
    /\ answers # <<>>
    /\ Ends(answers)
    /\ verdicts' = verdicts \cup
          {Verdict("recorded", i, answers[i].text,
                   ~Refused(answers[i].text) /\ Runs(answers[i], "right")) : i \in 1 .. Items}
    /\ UNCHANGED <<vars, job, rows, answers, jobs>>

\* Time is a concern of recalls alone.
TimePasses ==
    /\ pc \in {"poll", "sleep", "begin", "select"}
    /\ Tick
    /\ UNCHANGED answerVars

Turn == StartJob \/ Recalling \/ AnswerItem \/ WriteAnswers \/ ProbeGrades \/ JobRaises

AnswerNext == Turn \/ HouseAnswers \/ GradeFile \/ RecordDemo \/ TimePasses

\* Time passes and a recall's statements are run, as in AsOfRecall.
AnswerSpec ==
    /\ AnswerInit /\ [][AnswerNext]_allVars
    /\ WF_allVars(TimePasses)
    /\ WF_allVars(RecallStep /\ UNCHANGED answerVars)
    /\ WF_allVars(pc = "select" /\ now >= wake /\ Cancelled /\ UNCHANGED answerVars)

-----------------------------------------------------------------------------
AnswerTypeOK ==
    /\ TypeOK
    /\ job \in {"none", "exam", "probe"} /\ (job = "none" <=> pc = "idle")
    /\ rows \in Seq([text : Text, rejected : BOOLEAN]) /\ Len(rows) < Items
    /\ answers \in Seq([text : Text, rejected : BOOLEAN]) /\ Len(answers) \in {0, Items}
    /\ verdicts \subseteq [by : {"grade", "probe", "recorded"}, item : 1 .. Items,
                           text : Text, correct : BOOLEAN]
    /\ jobs \in 0 .. MaxJobs

\* What the exam and the warehouse make of a text, whoever runs it.
Right(t) == ~Refused(t) /\ t.does = "right"

\* One SQL text, one verdict: whatever ran before it on cmd_grade's connection,
\* and whether or not a guard has looked at its file, a text is correct for all
\* three graders or for none, so the curve, the recordings and a live probe can
\* be held against each other.
GradersAgree == \A v \in verdicts : v.correct = Right(v.text)
=============================================================================
