------------------------------ MODULE Education ------------------------------
(***************************************************************************)
(* cli.cmd_educate on top of MemoryStore.  run_education resets the memory,*)
(* stamps memory_zero, then per lesson of CURRICULUM teaches its exam      *)
(* items, stamps an epoch and recalls it; after the last lesson it writes, *)
(* per policy, the answers and the audit of every epoch and then the       *)
(* policy's manifest.  cmd_educate grades the answers files into           *)
(* eval/curve.json.  The run shares the database with `apprentice teach`   *)
(* (a Visitor), can raise at every point, and can be started again over    *)
(* the files that an earlier run left.                                     *)
(***************************************************************************)
EXTENDS MemoryStore, FiniteSets

CONSTANTS
    Visitor,      \* teaches that do not belong to the run
    Curriculum,   \* per lesson, the exam items to teach, in order
    ItemLesson,   \* what distill returns for an item's naive and gold SQL
    Policies,     \* ("oracle", "agent") for "both"
    RecallLimit,  \* limit=50 of the epochs' recall_live
    RecallK,      \* k of the agent's recall_similar
    MaxRuns       \* bound: runs in one behaviour

Item == UNION {{Curriculum[i][j] : j \in DOMAIN Curriculum[i]} : i \in DOMAIN Curriculum}

ASSUME TeachersAssumption == Teacher = Item \cup Visitor /\ Item \cap Visitor = {}
ASSUME ItemLessonAssumption == ItemLesson \in [Item -> Lesson]
ASSUME CurriculumAssumption ==
    Curriculum \in Seq(Seq(Teacher)) /\ \A i \in DOMAIN Curriculum : Curriculum[i] # <<>>
ASSUME PoliciesAssumption == Policies \in Seq({"oracle", "agent"}) /\ Policies # <<>>
ASSUME RecallKAssumption == RecallK \in Nat
ASSUME MaxRunsAssumption == MaxRuns \in Nat
\* distill knows five keys, which the epochs' limit of 50 never cuts.
ASSUME RecallLimitAssumption ==
    RecallLimit \in Nat /\ IsFiniteSet(Key) /\ Cardinality(Key) <= RecallLimit

VARIABLES
    run,          \* number of the current or last run
    stage,        \* the statement of run_education that runs next
    queue,        \* items of the current lesson still to teach
    stampAt,      \* ts: the last cluster_now()
    epochs,       \* the run's epochs: as_of, taught, live_keys
    pol, epo,     \* indices of the policy and epoch whose files come next
    answers,      \* <pol>_<epoch>_answers.json: the run that wrote it, rules it saw
    audit,        \* <pol>_<epoch>_audit.json: the run that wrote it
    manifest,     \* <pol>_manifest.json: the run that wrote it, the stamps in it
    curve         \* eval/curve.json: the run that wrote it, its graded rows

runVars == <<run, stage, queue, stampAt, epochs, pol, epo>>
fileVars == <<answers, audit, manifest, curve>>
eduVars == <<vars, runVars, fileVars>>

EpochIndex == 1 .. Len(Curriculum) + 1
PolicyIndex == 1 .. Len(Policies)

-----------------------------------------------------------------------------
LiveKeys(tbl) == {k \in Key : LiveRows(tbl, k) # {}}

\* The key sets that `... WHERE superseded_by IS NULL ORDER BY ... LIMIT n` can
\* return; which rows come first depends on clocks and vectors not modelled.
Recall(tbl, n) ==
    LET all == LiveKeys(tbl)
    IN  {s \in SUBSET all : Cardinality(s) = IF Cardinality(all) <= n THEN Cardinality(all) ELSE n}

\* teach_item's return values, gathered over a lesson.
TaughtBy(i) ==
    UNION {{ItemLesson[t][j] : j \in DOMAIN ItemLesson[t]} :
              t \in {Curriculum[i][j] : j \in DOMAIN Curriculum[i]}}

EduInit ==
    /\ Init
    /\ run = 0
    /\ stage = "idle"
    /\ queue = <<>>
    /\ stampAt = Null
    /\ epochs = <<>>
    /\ pol = 1
    /\ epo = 1
    /\ answers = [p \in PolicyIndex |-> [e \in EpochIndex |-> [run |-> 0, saw |-> {}]]]
    /\ audit = [p \in PolicyIndex |-> [e \in EpochIndex |-> 0]]
    /\ manifest = [p \in PolicyIndex |-> [run |-> 0, stamps |-> <<>>]]
    /\ curve = [run |-> 0, rows |-> <<>>]

\* A new process: nothing of an earlier run is left but the files.
StartRun ==
    /\ stage \in {"idle", "done", "failed"}
    /\ run < MaxRuns
    /\ run' = run + 1
    /\ stage' = "reset"
    /\ queue' = <<>>
    /\ epochs' = <<>>
    /\ pol' = 1
    /\ epo' = 1
    /\ pc' = [t \in Teacher |-> IF t \in Item THEN "distill" ELSE pc[t]]
    /\ todo' = [t \in Teacher |-> IF t \in Item THEN <<>> ELSE todo[t]]
    /\ ep' = [t \in Teacher |-> IF t \in Item THEN Null ELSE ep[t]]
    /\ seen' = [t \in Teacher |-> IF t \in Item THEN {} ELSE seen[t]]
    /\ made' = [t \in Teacher |-> IF t \in Item THEN {} ELSE made[t]]
    /\ UNCHANGED <<storeVars, asOf, resetVars, stampAt, fileVars>>

\* reset_memory()
ResetMemory ==
    /\ stage = "reset"
    /\ WipeMemory
    /\ stage' = "stamp"
    /\ UNCHANGED <<run, queue, stampAt, epochs, pol, epo, fileVars>>

\* t0 = cluster_now(), and ts = cluster_now() after a lesson.
Stamp ==
    /\ stage = "stamp"
    /\ IF epochs = <<>> THEN StampZero ELSE UNCHANGED vars
    /\ stampAt' = hlc
    /\ stage' = "recall"
    /\ UNCHANGED <<run, queue, epochs, pol, epo, fileVars>>

\* Mutation of EpochTable: recall_live(limit=50) without as_of.
EpochTableUnpinned == rules

\* The table that recall_live(limit=50, as_of=ts) reads.
EpochTable == hist[stampAt]

\* live_keys of the epoch; then the next lesson, if any.
RecallEpoch ==
    /\ stage = "recall"
    /\ \E live \in Recall(EpochTable, RecallLimit) :
          epochs' = Append(epochs, [asOf |-> stampAt, live |-> live,
                        taught |-> IF epochs = <<>> THEN {} ELSE TaughtBy(Len(epochs))])
    /\ IF Len(epochs) < Len(Curriculum)
       THEN stage' = "teach" /\ queue' = Curriculum[Len(epochs) + 1]
       ELSE stage' = "answers" /\ queue' = <<>>
    /\ UNCHANGED <<vars, run, stampAt, pol, epo, fileVars>>

\* One step of teach_item for the item at hand.
TeachItem ==
    /\ stage = "teach"
    /\ LET t == Head(queue)
       IN  \/ RecordEpisode(t) /\ todo'[t] = ItemLesson[t]
           \/ SelectLive(t)
           \/ CommitUpsert(t)
    /\ UNCHANGED <<runVars, fileVars>>

\* Mutation of LessonOver: the item's last rule is not waited for.
LessonOverEarly(t) == pc[t] = "select"

\* upsert_rule has returned for the last candidate.
LessonOver(t) == pc[t] = "select" /\ todo[t] = <<>>

Rest == Tail(queue)

\* Mutation of AfterItem: the loop over the items has no end.
AfterItemAgain == "teach"

AfterItem == IF Rest = <<>> THEN "stamp" ELSE "teach"

\* teach_item returns: on to the next item, or to the stamp of the epoch.
ItemTaught ==
    /\ stage = "teach"
    /\ LessonOver(Head(queue))
    /\ pc' = [pc EXCEPT ![Head(queue)] = "done"]
    /\ queue' = Rest
    /\ stage' = AfterItem
    /\ UNCHANGED <<storeVars, todo, ep, seen, made, asOf, resetVars>>
    /\ UNCHANGED <<run, stampAt, epochs, pol, epo, fileVars>>

\* Mutation of AnswersFile: a file that is there is not written again.
AnswersFileKept(old, saw) == IF old.run = 0 THEN [run |-> run, saw |-> saw] ELSE old

\* ans_path.write_text
AnswersFile(old, saw) == [run |-> run, saw |-> saw]

\* answers_oracle over the epoch's live_keys, or answer_exam pinned to its
\* stamp; then the answers file.
WriteAnswers ==
    /\ stage = "answers"
    /\ \E saw \in IF Policies[pol] = "oracle" THEN {epochs[epo].live}
                  ELSE Recall(hist[epochs[epo].asOf], RecallK) :
          answers' = [answers EXCEPT ![pol][epo] = AnswersFile(@, saw)]
    /\ stage' = "audit"
    /\ UNCHANGED <<vars, run, queue, stampAt, epochs, pol, epo, audit, manifest, curve>>

\* Mutation of MoreEpochs: the loop stops one epoch short.
MoreEpochsShort == epo + 1 < Len(epochs)

MoreEpochs == epo < Len(epochs)

\* audit_path.write_text, then the next epoch or the manifest.
WriteAudit ==
    /\ stage = "audit"
    /\ audit' = [audit EXCEPT ![pol][epo] = run]
    /\ IF MoreEpochs
       THEN stage' = "answers" /\ epo' = epo + 1
       ELSE stage' = "manifest" /\ epo' = 1
    /\ UNCHANGED <<vars, run, queue, stampAt, epochs, pol, answers, manifest, curve>>

\* _write_manifest, then the next policy or the end of the run.
WriteManifest ==
    /\ stage = "manifest"
    /\ manifest' = [manifest EXCEPT ![pol] =
                      [run |-> run, stamps |-> [i \in DOMAIN epochs |-> epochs[i].asOf]]]
    /\ IF pol < Len(Policies)
       THEN stage' = "answers" /\ pol' = pol + 1
       ELSE stage' = "curve" /\ UNCHANGED pol
    /\ UNCHANGED <<vars, run, queue, stampAt, epochs, epo, answers, audit, curve>>

\* cmd_educate grades the file of every epoch and policy, then writes
\* eval/curve.json.
WriteCurve ==
    /\ stage = "curve"
    /\ curve' = [run |-> run,
                 rows |-> [p \in PolicyIndex |-> [e \in DOMAIN epochs |->
                             [asOf |-> epochs[e].asOf, live |-> epochs[e].live,
                              graded |-> answers[p][e]]]]]
    /\ stage' = "done"
    /\ UNCHANGED <<vars, run, queue, stampAt, epochs, pol, epo, answers, audit, manifest>>

\* Any statement raises, or the process dies: the run is over, its files stay.
RunRaises ==
    /\ stage \notin {"idle", "done", "failed"}
    /\ IF stage = "teach" THEN Raise(Head(queue)) ELSE UNCHANGED vars
    /\ stage' = "failed"
    /\ UNCHANGED <<run, queue, stampAt, epochs, pol, epo, fileVars>>

VisitorTeaches ==
    /\ \E t \in Visitor : Teach(t)
    /\ UNCHANGED <<runVars, fileVars>>

RunStep == \/ ResetMemory \/ Stamp \/ RecallEpoch \/ TeachItem \/ ItemTaught
           \/ WriteAnswers \/ WriteAudit \/ WriteManifest \/ WriteCurve

EduNext == StartRun \/ RunStep \/ RunRaises \/ VisitorTeaches

\* No fairness: connect_timeout is all that the connections of a teach, a reset
\* and a stamp have, so a statement of theirs may never return.
EduSpec == EduInit /\ [][EduNext]_eduVars

-----------------------------------------------------------------------------
EduTypeOK ==
    /\ run \in 0 .. MaxRuns
    /\ stage \in {"idle", "reset", "stamp", "recall", "teach", "answers", "audit",
                  "manifest", "curve", "done", "failed"}
    /\ queue \in Seq(Item) /\ (stage = "teach" => queue # <<>>)
    /\ stampAt \in 0 .. hlc
    /\ epochs \in Seq([asOf : 1 .. hlc, live : SUBSET Key, taught : SUBSET Key])
    /\ Len(epochs) <= Len(Curriculum) + 1
    /\ pol \in PolicyIndex /\ epo \in EpochIndex
    /\ answers \in [PolicyIndex -> [EpochIndex -> [run : 0 .. run, saw : SUBSET Key]]]
    /\ audit \in [PolicyIndex -> [EpochIndex -> 0 .. run]]
    /\ \A p \in PolicyIndex : manifest[p].run \in 0 .. run
    /\ curve.run \in 0 .. run

\* The learning curve's x axis: at each epoch everything taught so far is live,
\* nothing once live is gone, and the stamps advance, whoever else teaches.
EpochsCumulative ==
    \A i \in 1 .. Len(epochs) : \A j \in i .. Len(epochs) :
        /\ epochs[i].taught \subseteq epochs[j].live
        /\ epochs[i].live \subseteq epochs[j].live
        /\ epochs[i].asOf <= epochs[j].asOf

\* Both arms of the exam sit on the same memory: what a run's answers for an
\* epoch saw is the epoch's live_keys, in full unless there are more than k.
ArmsShareMemory ==
    \A p \in PolicyIndex, e \in 1 .. Len(epochs) :
        answers[p][e].run = run =>
            /\ answers[p][e].saw \subseteq epochs[e].live
            /\ Cardinality(epochs[e].live) <= RecallK =>
                  answers[p][e].saw = epochs[e].live

\* A manifest seals its policy: once this run's manifest is there, so are this
\* run's answers and audit of every epoch it lists.
ManifestSeals ==
    \A p \in PolicyIndex : (run > 0 /\ manifest[p].run = run) =>
        /\ Len(manifest[p].stamps) = Len(Curriculum) + 1
        /\ \A e \in EpochIndex : answers[p][e].run = run /\ audit[p][e] = run

\* The published curve is earned: every accuracy in eval/curve.json grades
\* answers that the run which wrote it produced, by a memory that a recall
\* pinned to the row's as_of still shows, whatever runs and teaches followed.
CurveIsEarned ==
    \A p \in DOMAIN curve.rows : \A e \in DOMAIN curve.rows[p] :
        LET row == curve.rows[p][e]
        IN  /\ row.graded.run = curve.run
            /\ row.graded.saw \subseteq row.live
            /\ row.live \in Recall(hist[row.asOf], RecallLimit)

\* "Wipe agent memory so an education run starts empty" (reset_memory).
MemoryZeroEmpty == Len(epochs) >= 1 => epochs[1].live = {}
=============================================================================
