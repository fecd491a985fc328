---------------------------- MODULE DemoPage_proofs ----------------------------
(***************************************************************************)
(* The safety of the demo page for any number of questions and of calls    *)
(* the browser could run at once.  The invariant adds to the properties    *)
(* that a call under way is the one last asked for and that nothing is     *)
(* shown before the page has booted.                                       *)
(***************************************************************************)
EXTENDS DemoPage, TLAPS

CallIsLatest == \A a \in InFlight : calls[a].q = asked.q /\ calls[a].mode = asked.mode

NothingBeforeBoot == boot = "loading" => ~busy /\ panel = Hidden

IInv == /\ TypeOK
        /\ OneAskAtATime
        /\ CallIsLatest
        /\ NothingBeforeBoot
        /\ LatestAskWins
        /\ RecordingIsLabelled

-----------------------------------------------------------------------------
\* A call that moves on to its next await disturbs nothing.
LEMMA AwaitKeeps ==
    ASSUME IInv, NEW a \in Call, calls[a].at # "idle",
           NEW at \in {"body", "recorded", "fallback"}, Await(a, at)
    PROVE  IInv'
<1>1. /\ calls'[a].at = at /\ calls'[a].q = calls[a].q /\ calls'[a].mode = calls[a].mode
      /\ \A b \in Call : b # a => calls'[b] = calls[b]
      /\ calls' \in [Call -> [at : {"idle", "fetch", "body", "recorded", "fallback"},
                              q : Question, mode : Mode]]
  BY DEF IInv, TypeOK, Await
<1>2. InFlight' = InFlight
  BY <1>1 DEF InFlight
<1>3. TypeOK'
  BY <1>1 DEF IInv, TypeOK, Await
<1>4. OneAskAtATime'
  BY <1>2 DEF IInv, OneAskAtATime, Await
<1>5. CallIsLatest'
  BY <1>1, <1>2 DEF IInv, CallIsLatest, InFlight, Await
<1>6. (NothingBeforeBoot /\ LatestAskWins /\ RecordingIsLabelled)'
  BY <1>2 DEF IInv, NothingBeforeBoot, LatestAskWins, RecordingIsLabelled, Hidden, Await
<1> QED
  BY <1>3, <1>4, <1>5, <1>6 DEF IInv

\* A call that renders ends as the only one, with its own answer in the panel.
LEMMA RenderKeeps ==
    ASSUME IInv, NEW a \in Call, calls[a].at # "idle",
           NEW from \in {"live", "recorded", "error"}, Render(a, from), recorded' \in BOOLEAN
    PROVE  IInv'
<1>1. calls[a].q \in Question /\ calls[a].mode \in Mode /\ a \in InFlight
  BY DEF IInv, TypeOK, InFlight
<1>2. Idle \in [at : {"idle", "fetch", "body", "recorded", "fallback"}, q : Question, mode : Mode]
  BY DefaultAssumption DEF Idle, Mode
<1>3. /\ calls' \in [Call -> [at : {"idle", "fetch", "body", "recorded", "fallback"},
                              q : Question, mode : Mode]]
      /\ calls'[a].at = "idle"
      /\ \A b \in Call : b # a => calls'[b] = calls[b]
  BY <1>2 DEF IInv, TypeOK, Render, BusyAfter, Idle
<1>4. InFlight' = {}
  BY <1>1, <1>3 DEF IInv, OneAskAtATime, InFlight
<1>5. TypeOK'
  BY <1>1, <1>3 DEF IInv, TypeOK, Render, BusyAfter, NoteOver
<1>6. OneAskAtATime' /\ CallIsLatest'
  BY <1>4 DEF OneAskAtATime, CallIsLatest, Render, BusyAfter
<1>7. NothingBeforeBoot'
  BY <1>1 DEF IInv, NothingBeforeBoot, OneAskAtATime, Render, BusyAfter
<1>8. LatestAskWins'
  BY <1>1 DEF IInv, CallIsLatest, LatestAskWins, Render, BusyAfter
<1>9. RecordingIsLabelled'
  BY DEF RecordingIsLabelled, Render, BusyAfter, NoteOver
<1> QED
  BY <1>5, <1>6, <1>7, <1>8, <1>9 DEF IInv

\* A call that starts is the only one and the one last asked for.
LEMMA AskKeeps ==
    ASSUME IInv, ~busy, NEW a \in Call, NEW mode \in Mode, Ask(a, mode), boot' = "ready"
    PROVE  IInv'
<1>1. InFlight = {}
  BY DEF IInv, OneAskAtATime
<1>2. /\ calls'[a] = [at |-> "fetch", q |-> selected, mode |-> mode]
      /\ \A b \in Call : b # a => calls'[b] = calls[b]
      /\ calls' \in [Call -> [at : {"idle", "fetch", "body", "recorded", "fallback"},
                              q : Question, mode : Mode]]
  BY DEF IInv, TypeOK, Ask, BusyAsking
<1>3. InFlight' = {a}
  BY <1>1, <1>2 DEF InFlight
<1>4. TypeOK'
  BY <1>2 DEF IInv, TypeOK, Ask, BusyAsking
<1>5. OneAskAtATime'
  BY <1>3 DEF OneAskAtATime, Ask, BusyAsking
<1>6. CallIsLatest'
  BY <1>2, <1>3 DEF CallIsLatest, Ask, BusyAsking
<1>7. (NothingBeforeBoot /\ LatestAskWins /\ RecordingIsLabelled)'
  BY <1>3 DEF NothingBeforeBoot, LatestAskWins, RecordingIsLabelled, Ask, BusyAsking
<1> QED
  BY <1>4, <1>5, <1>6, <1>7 DEF IInv

\* A new selection clears the panel and leaves the calls alone.
LEMMA SelectKeeps ==
    ASSUME IInv, NEW q \in Question, SelectQuestion(q)
    PROVE  IInv'
<1>1. InFlight' = InFlight
  BY DEF SelectQuestion, PanelAfterChange, InFlight
<1>2. TypeOK'
  BY DefaultAssumption DEF IInv, TypeOK, SelectQuestion, PanelAfterChange, Hidden, Mode
<1>3. (OneAskAtATime /\ CallIsLatest)'
  BY <1>1 DEF IInv, OneAskAtATime, CallIsLatest, SelectQuestion, PanelAfterChange
<1>4. (NothingBeforeBoot /\ LatestAskWins /\ RecordingIsLabelled)'
  BY DEF NothingBeforeBoot, LatestAskWins, RecordingIsLabelled, SelectQuestion, PanelAfterChange
<1> QED
  BY <1>2, <1>3, <1>4 DEF IInv

\* Questions that do not load leave an empty page.
LEMMA BootFailsKeeps ==
    ASSUME IInv, BootFails
    PROVE  IInv'
<1>1. InFlight' = InFlight
  BY DEF BootFails, InFlight
<1>2. TypeOK'
  BY DEF IInv, TypeOK, BootFails
<1>3. (OneAskAtATime /\ CallIsLatest)'
  BY <1>1 DEF IInv, OneAskAtATime, CallIsLatest, BootFails
<1>4. (NothingBeforeBoot /\ LatestAskWins /\ RecordingIsLabelled)'
  BY DEF IInv, NothingBeforeBoot, LatestAskWins, RecordingIsLabelled, BootFails
<1> QED
  BY <1>2, <1>3, <1>4 DEF IInv

-----------------------------------------------------------------------------
\* The page keeps its invariant through every interleaving of asks and events.
THEOREM PageInvariant == Spec => []IInv
<1>1. Init => IInv
  <2> SUFFICES ASSUME Init PROVE IInv
    OBVIOUS
  <2>1. InFlight = {}
    BY DEF Init, InFlight, Idle
  <2>2. TypeOK
    BY DefaultAssumption DEF Init, TypeOK, Hidden, Idle, Mode
  <2>3. OneAskAtATime /\ CallIsLatest
    BY <2>1 DEF Init, OneAskAtATime, CallIsLatest
  <2>4. NothingBeforeBoot /\ LatestAskWins /\ RecordingIsLabelled
    BY DEF Init, NothingBeforeBoot, LatestAskWins, RecordingIsLabelled
  <2> QED
    BY <2>2, <2>3, <2>4 DEF IInv
<1>2. IInv /\ [Next]_vars => IInv'
  <2> SUFFICES ASSUME IInv, [Next]_vars PROVE IInv'
    OBVIOUS
  <2>1. ASSUME NEW a \in Call, NEW m \in Mode, Click(a, m) PROVE IInv'
    BY <2>1, AskKeeps DEF Click
  <2>2. ASSUME NEW q \in Question, SelectQuestion(q) PROVE IInv'
    BY <2>2, SelectKeeps
  <2>3. CASE BootFails
    BY <2>3, BootFailsKeeps
  <2>4. ASSUME NEW a \in Call, Boot(a) PROVE IInv'
    <3>1. ~busy
      BY <2>4 DEF Boot, IInv, NothingBeforeBoot
    <3> QED
      BY <2>4, <3>1, AskKeeps DEF Boot, Mode
  <2>5. ASSUME NEW a \in Call, FetchOk(a) \/ FetchFails(a) \/ Timeout(a) PROVE IInv'
    BY <2>5, AwaitKeeps DEF FetchOk, FetchFails, Timeout
  <2>6. ASSUME NEW a \in Call, Body(a) PROVE IInv'
    <3>1. CASE BodyIsAnswer(a)
      <4>1. recorded' \in BOOLEAN
        BY <3>1 DEF BodyIsAnswer, IInv, TypeOK
      <4> QED
        BY <3>1, <4>1, RenderKeeps DEF BodyIsAnswer
    <3>2. CASE BodySaysRecorded(a) \/ BodyBroken(a)
      BY <3>2, AwaitKeeps DEF BodySaysRecorded, BodyBroken
    <3> QED
      BY <2>6, <3>1, <3>2 DEF Body
  <2>7. ASSUME NEW a \in Call, LoadRecorded(a) PROVE IInv'
    <3>1. CASE RecordedLoads(a)
      BY <3>1, RenderKeeps DEF RecordedLoads
    <3>2. CASE RecordedFailsOnce(a)
      BY <3>2, AwaitKeeps DEF RecordedFailsOnce
    <3>3. CASE RecordedFails(a)
      <4>1. recorded' \in BOOLEAN
        BY <3>3 DEF RecordedFails, IInv, TypeOK
      <4> QED
        BY <3>3, <4>1, RenderKeeps DEF RecordedFails
    <3> QED
      BY <2>7, <3>1, <3>2, <3>3 DEF LoadRecorded
  <2>8. CASE UNCHANGED vars
    BY <2>8 DEF vars, IInv, TypeOK, OneAskAtATime, CallIsLatest, NothingBeforeBoot,
          LatestAskWins, RecordingIsLabelled, InFlight
  <2> QED
    BY <2>1, <2>2, <2>3, <2>4, <2>5, <2>6, <2>7, <2>8 DEF Next, User
<1> QED
  BY <1>1, <1>2, PTL DEF Spec

\* Every call under way is for a question there is, and the panel
\* shows nothing, an answer or a recording.
THEOREM PageTyped == Spec => []TypeOK
<1>1. IInv => TypeOK
  BY DEF IInv
<1> QED
  BY <1>1, PageInvariant, PTL

\* At most one ask is under way, and exactly then are the buttons disabled.
THEOREM AsksAreSerial == Spec => []OneAskAtATime
<1>1. IInv => OneAskAtATime
  BY DEF IInv
<1> QED
  BY <1>1, PageInvariant, PTL

\* An answer at rest in the panel belongs to the latest ask.
THEOREM LatestAnswerStays == Spec => []LatestAskWins
<1>1. IInv => LatestAskWins
  BY DEF IInv
<1> QED
  BY <1>1, PageInvariant, PTL

\* A recording at rest in the panel is labelled as one, a live answer is not.
THEOREM RecordingsAreLabelled == Spec => []RecordingIsLabelled
<1>1. IInv => RecordingIsLabelled
  BY DEF IInv
<1> QED
  BY <1>1, PageInvariant, PTL
=============================================================================
