# A TLA+ model of apprentice-crdb

`apprentice-crdb` is an agent that learns house rules for SQL from corrections. A
correction is distilled into rules, the rules are kept in CockroachDB, one live row per
key, and later questions are answered with the rules recalled AS OF a timestamp. A frozen
exam of fifty questions measures what the memory is worth, and a web page backed by an
AWS Lambda lets a visitor try it.

This directory models the parts of that system where order, concurrency or failure
matter, checks them with TLC and proves the most important results with TLAPS.
Paths below are relative to the repository's root; `memory.py`, `educate.py` etc. live
in `src/apprentice_crdb/`.

## Inventory

| Part | State it keeps | Operations | What is hard about it |
|---|---|---|---|
| Memory store (`memory.py`, `sql/001_memory.sql`) | `episodic_events`, `semantic_rules` with `superseded_by` | `record_episode`, `upsert_rule`, `reset_memory`, `cluster_now` | concurrent teaches of one key, resets in mid-teach, exceptions between transactions |
| Historical recall (`memory.py`) | none | `recall_live`, `recall_similar`, `_wait_until_closed` | clock units, deadline, stamps from the past and the future |
| Migration (`memory.py`) | schema of `semantic_rules` | `migrate`, `embedding_column_type` | one commit per statement, swallowed failures, death half way, concurrent writers |
| Education run (`educate.py`, `cli.py`) | epochs; answer, audit and manifest files; `eval/curve.json` | `run_education`, `teach_item`, `teach_correction`, `cmd_teach`, `cmd_reset_memory`, `cmd_educate` | long sequence of transactions and files without atomicity, rerun over old files |
| Distiller (`distill.py`) | none | `distill` | which difference yields which rule, two candidates of one key |
| Student, exam and grader (`student.py`, `grader.py`, `eval/`) | frozen files | `choose_sql`, `answers_oracle`, `cmd_grade`, `cmd_verify` | bait items that learning makes worse, missing answers |
| Answering agent (`agent.py`, `sql_guard.py`, `generate.py`) | an answers file | `answer_one`, `answer_with_receipt`, `answer_exam`, `reject_reason` | fifty recalls at one stamp, rejected or failing SQL that is an answer all the same, three graders |
| Demo Lambda (`lambda/demo_ask/handler.py`) | `_hits`, `_day_key`, `_day_count` per container | `handler`, `_rate_ok`, `_daily_ok`, `_ask` | limits in process memory, cold starts, midnight, queries that never end |
| Demo page (`docs/index.html`) | selector, buttons, panel, note, cached recording | `boot`, `ask`, `render`, `loadRecorded`, change listener | user events between awaits, timeout, two-stage fallback |
| Prop warehouse (`warehouse_db.py`) | an in-memory SQLite per connection | `connect_seeded`, `execute_sql` | whose connection a query runs on, and what ran there before |
| Embeddings, reports, recordings | fixtures, external services | | nothing stateful beyond what the parts above model |

Interaction: a *teach* calls the distiller, then one transaction for the episode and one
per rule. An *education run* is a client that resets the store, teaches item by item,
stamps an epoch, recalls it pinned to that stamp, has each arm answer the exam from it
and writes files. Nothing stops another client (`apprentice teach`,
`apprentice memory-reset`) from using the database meanwhile. The *agent* takes a turn
per question, each with a recall of its own, and every text the model writes passes the
guard; `cmd_grade`, `apprentice probe` and the recording script then judge the texts, each
on connections of its own making. The *Lambda* recalls with a stamp ten seconds old and
answers the *page*, which falls back to a recording on any failure.

`PROJECT.json` lists the hazards found, at their lines, with the properties that would
catch them.

## Modules

    RuleBook            what the memory promises: a book with old pages
      ^ implements
    MemoryStore         tables, transactions, teaches, resets   <-- MemoryStore_proofs
      ^ extends
    Education           the education run over the store        <-- Education_proofs,
                                                                    EducationStore_proofs

    AsOfRecall          the wait before a pinned read, the read
      ^ extends
    Answer              turns of the agent, guard, graders      <-- Answer_proofs

    Distill             what a correction teaches
      ^ extends
    Exam                the frozen exam, student, grader        <-- Exam_proofs

    Migrate             memory.migrate, whatever it finds       <-- Migrate_proofs
    LambdaAsk           the function behind the demo page       <-- LambdaAsk_proofs
    DemoPage            the page's script                       <-- DemoPage_proofs

`MC*.tla` give the constants small values; each `.cfg` is one run.
Definitions whose comment starts with "Mutation of" are deliberately wrong versions of
the definition that follows them. No specification uses them; substituting one for the
original makes the property named in `PROJECT.json` fail, which shows the property looks
at that piece of code.

### MemoryStore

CockroachDB is external and modelled by what `memory.py` relies on: commits in one order,
SERIALIZABLE transactions, foreign keys checked on commit, and reads AS OF SYSTEM TIME of
exactly the commits up to a timestamp. `hist[ts]` is what such a read returns. A row's
UUID is modelled by the timestamp of the commit that inserts it, which is unique since no
transaction inserts two rows.

| Action | Code |
|---|---|
| `RecordEpisode(t)` | `distill` and `record_episode` at the head of `teach_correction` |
| `SelectLive(t)` | `upsert_rule` up to the SELECT of the live row |
| `CommitUpsert(t)` | its INSERT, UPDATE and COMMIT; disabled if the SELECT's answer is stale or the episode is gone, since then the statement raises |
| `Report(t)` | `cmd_teach` stamps its report |
| `Raise(t)` | any exception; nothing in `teach_correction` catches or retries one |
| `WipeMemory`, `StampZero` | `reset_memory`, then `cluster_now` on another connection |

The properties: `ExactlyOneLive` and `LinearSupersession` at every instant a recall can be
pinned to; `ReceiptWhole` and `NoLessonCrossesAReset` for the fate of a teach that a reset
cuts in two; `ZeroForgetsThePast`; `AuditTrail`, an action property; and
`ImplementsRuleBook`, the refinement.

### Education

Extends the store. `run_education` is a program counter over its statements; `TeachItem`
is a step of the store's own teach actions for the item at hand, so that visitors'
teaches interleave with every transaction. The run may raise anywhere (`RunRaises`) and
be started again over the files left behind. Which rules a truncated recall returns is
left open. After the last manifest `WriteCurve` does what `cmd_educate` does: it grades
the file found at each epoch's path and publishes the rows. `ArmsShareMemory` is the
claim that makes the two published curves comparable, `ManifestSeals` the one that makes a
directory of run files trustworthy, `CurveIsEarned` the one that ties a published accuracy
to the run that claims it and to a memory anybody can still recall. `MemoryZeroEmpty` is
stated and not checked in any run: it does not hold next to a visitor, since nothing
excludes one (see the hazards).

### AsOfRecall and Answer

`AsOfRecall` has real time, the HLC string as the code parses it (with the rounding of a
float64), the polling loop, its silent deadline and the statement timeout. The unit the
HLC string counts in is a constant, and so are the three spans: 16, 100 and 80 ticks of
0.25 s in the code and in `asof_wait`, 2, 8 and 6 in `answer`, where several recalls must
fit into one behaviour. What matters is that a poll interval is far longer than a float64
ulp and an ulp longer than the lag as the code adds it, which is so with nanoseconds.

`Answer` puts a turn on top of each recall. A model's text is a record of what
`reject_reason` sees of it (empty, a second statement, its first word, a forbidden
keyword) and what SQLite does with it. `answer_exam` takes one turn per question, all
pinned to one stamp, each turn with a deadline of its own; any exception loses the whole
file. `WriteAnswers` is the last turn and the write; `HouseAnswers` are the files that
`cmd_baseline` and the oracle arm leave and no guard has seen. `GradeFile` runs a whole
file on one connection, `ProbeGrades` and `RecordDemo` each query on its own.
`SqliteAssumption` (what writes has a forbidden keyword or does not begin as a query) and
`HouseAssumption` (the exam's own queries pass the guard) are what `GradersAgree` rests on.

### Distill and Exam

`Distill` is `distill` as an operator: a SQL text is its conjuncts, dates and tables, and
the candidates come in the code's order, filters first. `Correction(q)` has the naive and
gold texts of the items of `CURRICULUM`; `Taught` what its lessons teach.

`Exam` has the tables of `eval/questions.json`, all fifty items. A memory is taught any
correction of `Corrections`, in any order, learns what `distill` finds in it, and may be
reset. SQL text is abstracted to which body of an item it is, and a body to the signature
of its result: `VerifyAssumption` states the checks `cmd_verify` makes of the signatures,
and nothing else is used of them, so the grader's claims hold for any warehouse that
`cmd_verify` passes. `Listing` is the items' `house_rules` turned around: per rule, the
items that list it.

A bait item is tied to a rule in two places that nobody compares: by hand in
`BAIT_TRIGGER`, and by its `bait_sql`, which overapplies a rule to the gold text.
`BaitsFireForTheirReason` compares them: `Overapplied(i)` is what `distill` would say the
bait adds to the gold text, and when learning costs an item, a rule of that must have been
learnt in between. The property has q07 as an exception off the curriculum, since there the
two do differ (see below); on the curriculum's own memories, which the published curve is
about, it holds of q07 too, as lesson one teaches both filters at once.

### LambdaAsk

The module globals are per container. A container handles one invocation at a time and may
be discarded at any point. `admits`, `counted`, `spent` and `generated` are logs that the
code does not keep; the properties compare the code's pruned and lazily reset counters
with them. After a generation the guard may refuse, SQLite may fail, or the query may never
end, until AWS's function timeout kills the container (`FunctionTimeout`). `Pysqlite` says
which SQLite module the build has, on which it depends whether a failing query is caught
by `answer_with_receipt` or passes it by.

### DemoPage

A step of `ask` runs from one `await` to the next, and between them the user clicks and
selects. `calls` has room for several asks at once, although the buttons are meant to
prevent that. `DemoPage` does not extend `LambdaAsk`: to the page a response is an answer,
"recorded", an error, or none. Once
`recorded.json` has been read it has the entry asked for (the file has both modes of all fifty
questions), so that "no recorded answer" (`index.html:769`) is not thrown.

### Migrate

One action per statement, each able to fail into the except branch beside it. Any
well-formed schema may be there at the start, and programs of the old and the new width
write rules while it runs. One migrate runs at a time. `FreshVectorsSurvive` says that the
cleanup before the widening never costs a vector of the new width, even after a probe that
failed silently.

## Runs

| Run | Shows | Bounds |
|---|---|---|
| `store` | the properties of MemoryStore | 2 keys, 2 concurrent teaches, lessons of 0 to 2 rules (in both orders and with one key twice), 2 resets |
| `education` | epochs, arms, manifests and curve agree; the store under it is still a rule book and `memory_zero` younger than its reset | 2 runs, 2 lessons of one item, 1 visitor, the agent's k cut to 1 |
| `answer` | one text, one verdict; no read before its stamp; a recall ends | 1 answering job over 2 questions, 9 kinds of text, stamps a second old, fresh, a tick and 15 s ahead |
| `asof_wait` | **violation**: the wait does not wait | the code's own spans, any of those stamps |
| `exam` | published curve 6, 7, 31, 44; only baits regress, and for the rule their texts overapply | 2 exams, every ordered pair of the 32 rule sets, corrections with and without each thing distill looks for |
| `lambda` | window, daily spend and refusals of a container; a day's spend over all cold starts | 1 container and 1 address (neither shares anything with another), 1 discard or hang, limits 2 and 3, a day of 3 and a window of 2 ticks, one midnight |
| `lambda_cap` | **violation**: the global cap is not global | 2 containers, cap 1 |
| `lambda_sql` | **violation**: a failing query does not stay visible | 1 container, the build with pysqlite3 |
| `page` | asks are serial, recordings labelled, asks end | 2 questions, 2 call slots |
| `page_panel` | **violation**: an answer under another question | same |
| `page_spinner` | **violation**: an ask that never ends | same, no fairness of the network |
| `migrate` | a migrate's ok is true; an undisturbed one succeeds; fresh vectors survive | 2 rows, 3 migrations |

Why these are enough: a conflict on a key takes two writers and a reset cutting through
them takes one reset, the second reset checks the stamp of one against the wipe of the
next; two lessons are needed to relate an epoch to an earlier one and two runs to mix
files; two questions for a text to run after another on one connection and for a second
recall at an older stamp; two exams to compare; a window violation takes RateMax + 1
admissions, a lazy reset one midnight; two calls to race; two disturbed migrations to
leave traces for a third. For most properties the proofs remove the bounds.

`CHECK_DEADLOCK FALSE` appears where the system really may stop: teaches are over and
resets used up, time has reached its bound, an endless query holds up a grader, a page
could not load its questions, the migrations are used up.

## Fairness

* `Answer`: time passes while a recall is under way, the loop's statements run, a SELECT
  past its statement timeout is cancelled. Exceptions before that are possible and never
  required, and neither is that a model answers.
* `DemoPage!Spec`: the browser fires its timers and runs what needs no network.
  `NetworkSpec` adds that a body that has begun and `recorded.json` arrive or break off.
  The Lambda itself may still never answer. `SpinnerResolves` holds under the second and
  fails under the first; the timer covers only the wait for the headers.
* `MemoryStore`, `Education`, `Exam`, `LambdaAsk` and `Migrate` make no liveness claim and
  assume no fairness. For an education run none would be justified: only a pinned recall
  has a statement timeout (`memory.py:291`), a teach, a reset and a stamp have no more than
  `connect_timeout` (`memory.py:76-82`), so behind a cluster that does not answer a run may
  hang. And that an invocation of the Lambda ends is AWS's doing ("timeout 25s",
  `lambda/demo_ask/README.md`), whatever the handler does; the model's question is what
  the killed container's limits were worth (`SpendPerStart`).

## Proofs

*MemoryStore_proofs*, for every set of keys, teachers and lessons and any number of
resets, from `LessonAssumption` and `MaxWipesAssumption`: type correctness, all safety
properties of the `store` run, the action property and the refinement. The inductive
invariant is `TypeInv /\ StoreInv /\ LessonInv /\ ReceiptWhole /\ ZeroInv`. `StoreInv`
says that the last snapshot of history is the current table and that every snapshot, old
or current, is in order (`TableOK`: ids no later than its stamp, one live row per key, one
line of supersession): a commit must be known to start from a page that is in order.
`LessonInv` adds that a teach at its distillation has made no rules yet, `TypeInv` that a
teach at its commit has a lesson left, and `ZeroInv` that between a reset's wipe and its
stamp every row of the table is newer than the wipe. The refinement maps a key to the id of its one live
row, and to none if it had two, so that a book with a doubtful entry implements nothing:
an upsert is `Learn`, a reset `Clear`, an episode `Elapse`, everything else stutters.

*Education_proofs*, for every curriculum of nonempty lessons, any visitors, policies and
number of runs: `EduTypeOK`, `EpochsCumulative`, `ArmsShareMemory`, `ManifestSeals`,
`CurveIsEarned`. Besides the types of the constants it assumes that there are at most
`RecallLimit` keys (five in the code, against a limit of 50): with more, an epoch's
`live_keys` would be a selection, and cumulative only by luck. Two layers of invariant,
the second proved with the first at hand. `MemoryInv` is about the memory: the current
table is the last page of history; where the run stands says how many epochs there are
(`ControlInv`); every key of an item in mid-teach is live or still to do (`ItemInv`);
every key of the lesson is live or belongs to an item still in the queue (`LessonsInv`);
the stamp in hand shows no more than is live now (`StampInv`); each epoch is what its page
shows and none of it has gone (`EpochInv`). That no step but `ResetMemory` takes a key out
of the live ones, a visitor's included, is the lemma `StoreStep`. `FileInv` is about the
files: `ProgressInv` says which files the cursor has passed, and that in a run that is
still learning no answers carry its number yet; without the latter a rerun could find an
answers file that seems its own before it has an epoch to compare it with.

*EducationStore_proofs*, for every curriculum, any visitors and number of runs: what the
store promises, it promises under `Education` too. A step of `EduNext` is a step of the
store or leaves its variables alone (`EduSteps`), but for the two where the run sets up
and puts away its own teaches (`StartRun`, `ItemTaught`); so the store's inductive
invariant carries over once one fact is added to it: the run's own teaches never
file a receipt (`NoReceipt`), since `teach_item` does not go through `cmd_teach`. Hence
one live rule per key, a linear trail, whole receipts, lessons that do not straddle a
reset, `ZeroForgetsThePast` (what is true of `memory_zero`, where `MemoryZeroEmpty` is
not), the action property `AuditTrail`, and the refinement: with runs that raise and
visitors who teach, the database is still the rule book.

*Answer_proofs*, for any exam, texts, clock unit, float spacing, spans and stamps:
`GradersAgree`, because the rows of a file are either refused or house queries or have
passed the guard, so that none can write to the warehouse the next is graded on;
`NotBeforeTheStamp`, because rounding is monotone and moves a stamp by at most one
spacing; `AnswerTypeOK`. Two theorems delimit the violation of `asof_wait`. The invariant
records what the last poll saw (`Polled`), from which `WaitAddsTheLag` says what the wait
does do: the cluster's string is `lag_s` past the stamp, less two spacings, in whatever
unit the string has. So where the string counts the clock's own ticks, the wait is the one
its name promises (`SecondsAreWaitedOut`, with `WaitedOut` the property that `asof_wait`
violates): the unit is the fault, not the loop.

*Exam_proofs*, for any corrections, any signatures that `cmd_verify` passes and any number
of exams: `TypeOK`, `LearningCostsOnlyBaits`, `OnlyBaitsStayOutOfReach`,
`TheWholeExamIsGraded`, `BaitsFireRightly`, `TheCurveIsAsPublished`. The core is `ChoiceRegresses`, a lemma
about `choose_sql` on one item; the invariant says that each report on record is the grade
of what `choose_sql` answers for the rules then live. The published curve is a computation
on top of it: `TaughtRules` evaluates `distill` on the lessons of `CURRICULUM` (with
`KeysAssumption`, that the five rule keys are five), the lemmas on `Listings` turn the
items that each rule set answers wrongly into listed sets, and these are counted.
`BaitsOverapply` evaluates `distill` on the six pairs of gold and bait text in the same way:
the result is `BAIT_TRIGGER`'s rule for all but q07.

*Migrate_proofs*, for any rows and any number of migrations: all four properties of the
run. `MigrateInv` says that every vector has the column's width, that a column about to be
widened is the old one, and, as long as nothing has disturbed this migrate, that what its
earlier statements did is still so.

*LambdaAsk_proofs*, for any limits, window, day, addresses and containers: all safety and
action properties of the `lambda` run.

* `DailySpend`. What is spent today and what a request that was counted may still spend is
  at most one more than the count, if the count is today's, and at most one if it is an
  earlier day's. The one is the request that midnight overtakes between `_daily_ok` and
  Bedrock.
* `SpendPerStart`, for any number of discards. The generations that no container counts
  any more were paid for by containers that are gone, each of which paid for at most
  `DailyCap + 1`; `Paid(d)` is the set of those that are still counted, as pairs of a
  container and a number, and its cardinality is what the invariant relates to
  `generated`. Together with the violated `GlobalCap` it says what the cap is worth.
* `TypeOK`, `WindowHolds`, `RefusalsAreEarned`. A bucket is in order of arrival, so that
  filtering it drops its first entries (`FreshIsSuffix`, by the least number that
  survives), and it always is the end of the log of what was let in, of which everything
  before it has expired (`Bucket`). So a full bucket is RateMax admissions within the
  window, and an admission RateMax after another comes after that one has expired.

The assumptions are that the limits are positive, that there is an address, and that the
containers are finitely many. `Fresh` is a recursive function, about which facts are
proved by the least counterexample (`Least`, `Induct`), since the provers cannot use an
induction theorem that takes an operator.

*DemoPage_proofs*, for any sets of questions and calls: `OneAskAtATime`, `LatestAskWins`,
`RecordingIsLabelled`, `TypeOK`. The strengthening is that a call under way is the one
last asked for and that nothing is shown before boot.

Only model-checked: the two liveness properties (`RecallEnds`, `SpinnerResolves`), since TLAPS has no support for the fairness
arguments they would take. Every safety invariant, action property and refinement that a
passing run checks is also a theorem. The violations are TLC's.

## What disagrees with the repository's own words

1. `_wait_until_closed` adds 4.0 to a nanosecond string as if it were seconds
   (`memory.py:107`), so "Wait first" does not happen (`asof_wait`).
2. The "global" daily cap is per container (`lambda_cap`).
3. "Failures stay visible" (`agent.py:117`) is not so in the Lambda's build: it connects
   with pysqlite3, whose errors the clause for `sqlite3.Error` does not catch
   (`lambda_sql`).
4. A question selected while an ask is under way receives the previous question's answer
   (`page_panel`).
5. The page's timer stops at the response headers (`page_spinner`).

Noted while modelling, without a run of their own, since each is a matter of reading two
lines: `answer_exam` says "Rejected items get empty SQL" (`agent.py:136`) and writes a
comment (`agent.py:142`); `docs/CURSOR-AGENT-SEAM-SPEC.md:90` has a fresh warehouse per
item, and a timeout that grades as wrong, and `run_exam.py:193` one connection per file
without a timeout (`GradersAgree` is why the sharing does no harm); `docs/CURSOR-LIVE-DEMO-SPEC.md:91` has the handler answer 200 on errors, and a body
that is JSON but no object raises out of it (`handler.py:284`); `BAIT_TRIGGER["q07"]` is
the cancelled filter where the note (`eval/questions.json:86`) and the bait text say soft
delete, so that a memory taught the cancelled filter alone gets q07 wrong for a rule that
has nothing to do with it, and `eval/PROTOCOL.md:79-86` lists the baits under ids that are not
those of the exam (q03 for the soft-deleted count, which is q07).

## Not modelled

* Embeddings: vector arithmetic and an external service. Which rules come nearest is a
  nondeterministic choice in `Recall`; that a table can mix vectors of two providers of
  one width is listed as a hazard, no code looks at it.
* SQL parsing (sqlglot) and execution (SQLite): external; a text is what the code reads
  off it and what execution makes of it.
* The cluster's GC TTL: a zone setting the code only reports; a read that is too old
  raises like any other failed read.
* `report.py`, `cmd_emit_labels`, the leakage check and the deployment scripts: they read
  and write frozen files in one go; nothing happens between their steps.
* Wording and layout of the page and of reports, and the notes of a migrate.
* Two education runs at once over one directory and one database, or another client's
  reset in the middle of a run. Nothing excludes them, and the epochs of a run are not
  cumulative after one; the commands are used by one operator. (In `MemoryStore` resets
  cut through teaches at any point.)

## Plan

Done: the modules above, in the order of their importance. What remains, in this order:

1. `Demo`: `DemoPage` composed with `LambdaAsk`, for what a refusal looks like on the page
   and for a question that several visitors ask of one container.
2. A shared run directory: which of `Education`'s claims two runs could keep if the files
   carried the run.
3. Proofs: `Distill` for texts in general (what a correction teaches is never more than
   the difference of the two texts holds), and the abstract promise of a `migrate`.
