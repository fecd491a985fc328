------------------------------- MODULE DemoPage -------------------------------
(***************************************************************************)
(* The script of docs/index.html: a selector, two Ask buttons, a result    *)
(* panel and a note over it.  ask() is asynchronous: it awaits the Lambda, *)
(* the body of its response and, when that fails or the Lambda says        *)
(* "recorded", the site's demo/recorded.json.  Between these awaits the    *)
(* event loop runs the user's clicks and selections.  A step of an ask     *)
(* runs from one await to the next.                                        *)
(***************************************************************************)
CONSTANTS
    Question,     \* the options of the selector
    DefaultQ,     \* DEFAULT_Q
    Call          \* calls of ask() that may be in progress at once

ASSUME DefaultAssumption == DefaultQ \in Question

Mode == {"no_memory", "with_memory"}

VARIABLES
    boot,         \* "loading", "ready" or "failed"
    selected,     \* sel.value
    busy,         \* the Ask buttons are disabled
    note,         \* what noteEl says; "hidden" if it is
    panel,        \* what the panel shows; "hidden" if it is
    recorded,     \* recorded.json has been loaded
    calls,        \* calls[a]: where the call stands, and its qid and mode
    asked         \* the last question and mode a call was made for

vars == <<boot, selected, busy, note, panel, recorded, calls, asked>>

Idle == [at |-> "idle", q |-> DefaultQ, mode |-> "no_memory"]
Hidden == [from |-> "hidden", q |-> DefaultQ, mode |-> "no_memory"]

InFlight == {a \in Call : calls[a].at # "idle"}

-----------------------------------------------------------------------------
Init ==
    /\ boot = "loading"
    /\ selected = DefaultQ
    /\ busy = FALSE
    /\ note = "hidden"
    /\ panel = Hidden
    /\ recorded = FALSE
    /\ calls = [a \in Call |-> Idle]
    /\ asked = Hidden

\* Mutation of BusyAsking: the buttons are not disabled.
BusyAsBefore == busy

BusyAsking == TRUE

\* ask(mode) up to its first await: the buttons go, the note says what is going
\* on, the old answer stays in the panel, the request and its timer are started.
Ask(a, mode) ==
    /\ calls[a] = Idle
    /\ calls' = [calls EXCEPT ![a] = [at |-> "fetch", q |-> selected, mode |-> mode]]
    /\ asked' = [from |-> "asked", q |-> selected, mode |-> mode]
    /\ busy' = BusyAsking
    /\ note' = "asking"
    /\ UNCHANGED <<selected, panel, recorded>>

\* demo/questions.json is in: fill the selector, add the listeners, ask.
Boot(a) ==
    /\ boot = "loading"
    /\ boot' = "ready"
    /\ Ask(a, "no_memory")

BootFails ==
    /\ boot = "loading"
    /\ boot' = "failed"
    /\ note' = "no questions"
    /\ UNCHANGED <<selected, busy, panel, recorded, calls, asked>>

\* A click on a button that is not disabled.
Click(a, mode) ==
    /\ boot = "ready"
    /\ ~busy
    /\ Ask(a, mode)
    /\ UNCHANGED boot

\* Mutation of PanelAfterChange: the panel is left as it is.
PanelKept == panel

PanelAfterChange == Hidden

\* The change listener; the selector is never disabled.
SelectQuestion(q) ==
    /\ boot = "ready"
    /\ q # selected
    /\ selected' = q
    /\ panel' = PanelAfterChange
    /\ note' = "changed"
    /\ UNCHANGED <<boot, busy, recorded, calls, asked>>

Await(a, at) ==
    /\ calls' = [calls EXCEPT ![a].at = at]
    /\ UNCHANGED <<boot, selected, busy, note, panel, recorded, asked>>

\* Mutation of NoteOver: the note repeats what the response says of itself.
NoteOverRaw(from) == from

\* The note render() leaves, by what is rendered: none over a live answer.
NoteOver(from) == IF from = "live" THEN "hidden" ELSE "recorded"

\* Mutation of BusyAfter: the buttons come back only if an answer was rendered.
BusyUnlessAnswered(from) == from = "error"

BusyAfter(from) == FALSE

\* render(data, ...), then the finally: the buttons are back.
Render(a, from) ==
    /\ panel' = [from |-> from, q |-> calls[a].q, mode |-> calls[a].mode]
    /\ note' = NoteOver(from)
    /\ busy' = BusyAfter(from)
    /\ calls' = [calls EXCEPT ![a] = Idle]
    /\ UNCHANGED <<boot, selected, asked>>

\* fetch(API) resolves; clearTimeout; a status that is not ok throws.
FetchOk(a) == calls[a].at = "fetch" /\ Await(a, "body")

\* fetch(API) rejects, or the status is not ok: on to the recording.
FetchFails(a) == calls[a].at = "fetch" /\ Await(a, "fallback")

\* Mutation of Timeout: the request was not given ctrl.signal.
TimeoutNoSignal(a) == calls[a].at = "fetch" /\ Await(a, "fetch")

\* 25 s are over: ctrl.abort() rejects the fetch.
Timeout(a) == calls[a].at = "fetch" /\ Await(a, "fallback")

\* await res.json(), which the timer no longer covers.
BodyIsAnswer(a) == calls[a].at = "body" /\ Render(a, "live") /\ UNCHANGED recorded
BodySaysRecorded(a) == calls[a].at = "body" /\ Await(a, "recorded")
BodyBroken(a) == calls[a].at = "body" /\ Await(a, "fallback")

\* loadRecorded, from the cache or over the network.
RecordedLoads(a) ==
    /\ calls[a].at \in {"recorded", "fallback"}
    /\ recorded' = TRUE
    /\ Render(a, "recorded")

\* loadRecorded throws inside the inner try: its catch calls it again.  (It
\* throws because recorded.json did not come, never for want of an entry:
\* docs/demo/recorded.json has both modes of all fifty questions.)
RecordedFailsOnce(a) ==
    /\ calls[a].at = "recorded"
    /\ ~recorded
    /\ Await(a, "fallback")

\* loadRecorded throws inside the catch: the outer catch renders an error.
RecordedFails(a) ==
    /\ calls[a].at = "fallback"
    /\ ~recorded
    /\ Render(a, "error")
    /\ UNCHANGED recorded

User == (\E a \in Call, m \in Mode : Click(a, m)) \/ \E q \in Question : SelectQuestion(q)

Body(a) == BodyIsAnswer(a) \/ BodySaysRecorded(a) \/ BodyBroken(a)

LoadRecorded(a) == RecordedLoads(a) \/ RecordedFailsOnce(a) \/ RecordedFails(a)

Next == \/ User \/ BootFails \/ \E a \in Call : Boot(a)
        \/ \E a \in Call : \/ FetchOk(a) \/ FetchFails(a) \/ Timeout(a)
                           \/ Body(a) \/ LoadRecorded(a)

\* The browser fires its timers and runs what needs no network.
Spec == /\ Init /\ [][Next]_vars
        /\ \A a \in Call : WF_vars(Timeout(a)) /\ WF_vars(recorded /\ LoadRecorded(a))

\* And a body that has begun arrives or breaks off, and so does recorded.json.
NetworkSpec == Spec /\ \A a \in Call : WF_vars(Body(a)) /\ WF_vars(LoadRecorded(a))

-----------------------------------------------------------------------------
TypeOK ==
    /\ boot \in {"loading", "ready", "failed"}
    /\ selected \in Question
    /\ busy \in BOOLEAN
    /\ note \in {"hidden", "asking", "changed", "recorded", "no questions"}
    /\ panel \in [from : {"hidden", "live", "recorded", "error"}, q : Question, mode : Mode]
    /\ recorded \in BOOLEAN
    /\ calls \in [Call -> [at : {"idle", "fetch", "body", "recorded", "fallback"},
                           q : Question, mode : Mode]]

\* One ask at a time: the buttons are disabled exactly while a call is under
\* way, whatever the user clicks and however the call ends.
OneAskAtATime == (busy <=> InFlight # {}) /\ \A a, b \in InFlight : a = b

\* What was asked last is what is shown: an answer left in the panel when
\* nothing is under way belongs to the latest ask, not to an earlier, slower one.
LatestAskWins ==
    panel # Hidden /\ InFlight = {} => panel.q = asked.q /\ panel.mode = asked.mode

\* A recording is never passed off as live: over any answer in the panel that
\* did not come from the Lambda the note says so as soon as no ask is under
\* way, and never over one that did.
RecordingIsLabelled ==
    panel # Hidden /\ ~busy => (note = "recorded" <=> panel.from # "live")

\* "The page must never show a spinner that never resolves": every ask ends.
SpinnerResolves == busy ~> ~busy

\* "New question -> clear payoff; judge must redo Steps 2 and 3": the panel
\* never shows the answer to another question than the one selected.
PanelAnswersPrompt == panel # Hidden => panel.q = selected
=============================================================================
