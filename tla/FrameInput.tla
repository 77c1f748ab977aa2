----------------------------- MODULE FrameInput -----------------------------
(***************************************************************************)
(* The way of an event through one Engine::RunStep: the window system's    *)
(* callbacks, the pump, the agent channel's drain, the one record every    *)
(* consumer of the frame reads, and the key map InputSystem folds from it  *)
(* before the other systems ask for edges.                                 *)
(*                                                                         *)
(* Two producers run on their own: the window system, which holds events   *)
(* until glfwPollEvents, and the agent channel's reader thread, of which   *)
(* AgentQueue (implemented by AgentChannel) is all that is used here.      *)
(*                                                                         *)
(* An event carries the producer it came from for the properties only.     *)
(***************************************************************************)
EXTENDS Integers, SequencesExt, InputTranslation

CONSTANTS
    Keys,        \* GLFW's numbers of the keys there are
    Buttons,     \* and of the pointer buttons
    MaxEvents    \* bound: what the producers do in a run

ASSUME InputAssumption == Keys \cup Buttons \subseteq Int /\ MaxEvents \in Nat

\* What the callbacks make of a key and of a button.
OnKey == {TranslateGlfwKey(key) : key \in Keys}
OnPointerButton == {TranslateGlfwPointerButton(button) : button \in Buttons}

\* The codes the input system keeps.
Codes == {code \in OnKey \cup OnPointerButton : IsKeyboardCode(code) \/ IsPointerCode(code)}

Producer == {"window", "agent"}

\* What ParseCommand accepts, and what the window's callbacks report: a key GLFW
\* does not know is Unknown.
AgentEvent ==
    [from : {"agent"}, type : {"pressed", "released"}, code : Codes]
        \cup [from : {"agent"}, type : {"close", "unfocused"}, code : {Unknown}]
WindowEvent ==
    [from : {"window"}, type : {"pressed", "released"}, code : OnKey \cup OnPointerButton]
        \cup [from : {"window"}, type : {"close", "unfocused"}, code : {Unknown}]
Event == AgentEvent \cup WindowEvent

VARIABLES
    stage,          \* how far RunStep has come
    running,        \* _running
    windowServer,   \* is there one, or is the engine headless?
    windowQueue,    \* events the window system holds until it is polled
    pendingEvents,  \* WindowServerBackend::_pendingEvents
    agentQueue,     \* events the agent channel has accepted
    record,         \* Engine::_platformEvents
    copied,         \* InputSystem::_currentPlatformEventRecord
    current,        \* InputStateComponent::CurrentInputMap; absent is released
    previous,       \* InputStateComponent::PreviousInputMap
    ui,             \* ImGui: the keys and buttons it takes to be held, and its queue
    seen,           \* history: every record consumed so far, oldest first
    produced,       \* history: [Producer -> events made, oldest first]
    held            \* history: [Codes -> press edges shown less release edges]

inputVars == <<copied, current, previous, held, ui>>
vars == <<stage, running, windowServer, windowQueue, pendingEvents, agentQueue, record,
          inputVars, seen, produced>>

Init ==
    /\ stage = "clear" /\ running = TRUE /\ windowServer \in BOOLEAN
    /\ windowQueue = <<>> /\ pendingEvents = <<>> /\ agentQueue = <<>>
    /\ record = <<>> /\ copied = <<>>
    /\ current = [c \in Codes |-> "released"] /\ previous = current
    /\ ui = [held |-> {}, inputs |-> <<>>]
    /\ seen = <<>>
    /\ produced = [p \in Producer |-> <<>>]
    /\ held = [c \in Codes |-> 0]

-----------------------------------------------------------------------------
(* The producers.                                                          *)

\* Of these events the last about the code is a press, and none that ends it came since.
PressStands(code, events, ending) ==
    \E i \in DOMAIN events :
        /\ events[i].code = code /\ events[i].type = "pressed"
        /\ \A j \in i + 1 .. Len(events) : events[j].code # code /\ events[j].type \notin ending

\* A key or button GLFW holds for the window, after what it has reported.
WindowHolds(code) == PressStands(code, produced["window"], {})

\* Right after a loss of focus GLFW releases what the window held.
WindowReports(event) ==
    IF event.type = "unfocused"
    THEN <<event>> \o SetToSeq({[from |-> "window", type |-> "released", code |-> c] :
                                    c \in {d \in Codes : WindowHolds(d)}})
    ELSE <<event>>

\* GLFW reports no release of what was not held.
Produce(event) ==
    /\ Len(produced["window"]) + Len(produced["agent"]) < MaxEvents
    /\ IF event.from = "window"
       THEN /\ windowServer
            /\ event.type = "released" /\ event.code # Unknown => WindowHolds(event.code)
            /\ windowQueue' = windowQueue \o WindowReports(event)
            /\ produced' = [produced EXCEPT !["window"] = @ \o WindowReports(event)]
            /\ UNCHANGED agentQueue
       ELSE /\ agentQueue' = Append(agentQueue, event)
            /\ produced' = [produced EXCEPT !["agent"] = Append(@, event)]
            /\ UNCHANGED windowQueue
    /\ UNCHANGED <<stage, running, windowServer, pendingEvents, record, inputVars, seen>>

\* A window call other than the poll may fire callbacks; AppendEvent keeps what
\* they report until the next pump.
CallbackOutsidePoll ==
    /\ stage \in {"consume", "ui", "frame", "app", "systems"}
    /\ windowQueue # <<>>
    /\ pendingEvents' = Append(pendingEvents, Head(windowQueue))
    /\ windowQueue' = Tail(windowQueue)
    /\ UNCHANGED <<stage, running, windowServer, agentQueue, record, inputVars, seen, produced>>

-----------------------------------------------------------------------------
(* One step.                                                               *)

\* Mutant: the record of the frame before is kept.
ClearForgotten ==
    /\ stage = "clear" /\ running
    /\ stage' = "pump"
    /\ UNCHANGED <<running, windowServer, windowQueue, pendingEvents, agentQueue, record,
                   inputVars, seen, produced>>

Clear ==
    /\ stage = "clear" /\ running
    /\ record' = <<>>
    /\ stage' = "pump"
    /\ UNCHANGED <<running, windowServer, windowQueue, pendingEvents, agentQueue, inputVars,
                   seen, produced>>

\* Mutant: what callbacks left behind is cleared before the poll, as the record is.
PumpStartsAfresh ==
    /\ stage = "pump"
    /\ record' = record \o windowQueue
    /\ windowQueue' = <<>> /\ pendingEvents' = <<>>
    /\ stage' = "drain"
    /\ UNCHANGED <<running, windowServer, agentQueue, inputVars, seen, produced>>

\* The poll's callbacks append behind what earlier ones left, and the lot is
\* handed over.  Headless, both are empty.
Pump ==
    /\ stage = "pump"
    /\ record' = record \o pendingEvents \o windowQueue
    /\ windowQueue' = <<>> /\ pendingEvents' = <<>>
    /\ stage' = "drain"
    /\ UNCHANGED <<running, windowServer, agentQueue, inputVars, seen, produced>>

\* Mutant: the batch is put before the events of the pump, newest first.
DrainReversed ==
    /\ stage = "drain"
    /\ record' = Reverse(agentQueue) \o record
    /\ agentQueue' = <<>>
    /\ stage' = "consume"
    /\ UNCHANGED <<running, windowServer, windowQueue, pendingEvents, inputVars, seen, produced>>

Drain ==
    /\ stage = "drain"
    /\ record' = record \o agentQueue
    /\ agentQueue' = <<>>
    /\ stage' = "consume"
    /\ UNCHANGED <<running, windowServer, windowQueue, pendingEvents, inputVars, seen, produced>>

CloseRequested == \E i \in DOMAIN record : record[i].type = "close"

\* Mutant: only the last event of the frame is looked at.
ConsumeLastOnly ==
    /\ stage = "consume"
    /\ running' = (running /\ ~(record # <<>> /\ Last(record).type = "close"))
    /\ seen' = seen \o record
    /\ stage' = "ui"
    /\ UNCHANGED <<windowServer, windowQueue, pendingEvents, agentQueue, record, inputVars, produced>>

\* The engine's own look at the record: a close request stops the run, and the
\* step goes on to its end.
Consume ==
    /\ stage = "consume"
    /\ running' = (running /\ ~CloseRequested)
    /\ seen' = seen \o record
    /\ stage' = "ui"
    /\ UNCHANGED <<windowServer, windowQueue, pendingEvents, agentQueue, record, inputVars, produced>>

\* The debug UI, which there is with a window, submits the record to ImGui...
BeginFrame ==
    /\ stage = "ui"
    /\ IF windowServer
       THEN /\ ui' = [ui EXCEPT !.inputs = @ \o SubmitPlatformEvents(record)]
            /\ stage' = "frame"
       ELSE /\ stage' = "app"
            /\ UNCHANGED ui
    /\ UNCHANGED <<running, windowServer, windowQueue, pendingEvents, agentQueue, record, copied,
                   current, previous, held, seen, produced>>

\* ...which then begins its frame.
UiFrame ==
    /\ stage = "frame"
    /\ ui' \in NewFrame(ui)
    /\ stage' = "app"
    /\ UNCHANGED <<running, windowServer, windowQueue, pendingEvents, agentQueue, record, copied,
                   current, previous, held, seen, produced>>

\* App::OnStep hands the record to the input system.
OnStep ==
    /\ stage = "app"
    /\ copied' = record
    /\ stage' = "systems"
    /\ UNCHANGED <<running, windowServer, windowQueue, pendingEvents, agentQueue, record, current,
                   previous, held, ui, seen, produced>>

\* One event's effect on the key map: only a code makes a difference, and
\* whatever is not a press is a release.
Press(map, event) ==
    IF event.code \in Codes
    THEN [map EXCEPT ![event.code] = IF event.type = "pressed" THEN "pressed" ELSE "released"]
    ELSE map

Fold(map, events) ==
    LET after[n \in 0 .. Len(events)] ==
            IF n = 0 THEN map ELSE Press(after[n - 1], events[n])
    IN  after[Len(events)]

WasPressedThisFrame(c) == current[c] = "pressed" /\ previous[c] = "released"
WasReleasedThisFrame(c) == current[c] = "released" /\ previous[c] = "pressed"

\* Mutant: a frame without events leaves the state alone.
InputStepWhenNeeded ==
    /\ stage = "systems"
    /\ IF copied = <<>> THEN UNCHANGED <<current, previous>>
       ELSE /\ previous' = current
            /\ current' = Fold(current, copied)
    /\ held' = [c \in Codes |->
                    held[c] + (CASE WasPressedThisFrame(c)' -> 1
                                 [] WasReleasedThisFrame(c)' -> -1
                                 [] OTHER -> 0)]
    /\ running' = (running /\ windowServer)
    /\ stage' = "clear"
    /\ UNCHANGED <<windowServer, windowQueue, pendingEvents, agentQueue, record, copied, ui, seen, produced>>

\* Ecs::Step: the input system runs before those that ask it for edges.  A
\* headless run ends with its first step.
SystemsStep ==
    /\ stage = "systems"
    /\ previous' = current
    /\ current' = Fold(current, copied)
    /\ held' = [c \in Codes |->
                    held[c] + (CASE WasPressedThisFrame(c)' -> 1
                                 [] WasReleasedThisFrame(c)' -> -1
                                 [] OTHER -> 0)]
    /\ running' = (running /\ windowServer)
    /\ stage' = "clear"
    /\ UNCHANGED <<windowServer, windowQueue, pendingEvents, agentQueue, record, copied, ui, seen, produced>>

RunStep == Clear \/ Pump \/ Drain \/ Consume \/ BeginFrame \/ UiFrame \/ OnStep \/ SystemsStep

Next == (\E event \in Event : Produce(event)) \/ CallbackOutsidePoll \/ RunStep

\* Engine::Run loops as long as it is running, and no part of a step blocks.
Spec == Init /\ [][Next]_vars /\ WF_vars(RunStep)

-----------------------------------------------------------------------------
(* What must hold.                                                         *)

TypeOK ==
    /\ stage \in {"clear", "pump", "drain", "consume", "ui", "frame", "app", "systems"}
    /\ running \in BOOLEAN /\ windowServer \in BOOLEAN
    /\ windowQueue \in Seq(Event) /\ pendingEvents \in Seq(Event) /\ agentQueue \in Seq(Event)
    /\ record \in Seq(Event) /\ copied \in Seq(Event) /\ seen \in Seq(Event)
    /\ current \in [Codes -> {"pressed", "released"}]
    /\ previous \in [Codes -> {"pressed", "released"}]
    /\ produced \in [Producer -> Seq(Event)]
    /\ held \in [Codes -> Int]

\* A producer's events among these, as SelectSeq would pick them.
By(producer, events) ==
    LET picked[n \in 0 .. Len(events)] ==
            IF n = 0 THEN <<>>
            ELSE IF events[n].from = producer THEN Append(picked[n - 1], events[n])
            ELSE picked[n - 1]
    IN  picked[Len(events)]

\* The record of the frame at hand, as long as the engine has not looked at it.
Unseen == IF stage \in {"drain", "consume"} THEN record ELSE <<>>

\* What the frames were given of a producer's events, this one included.
Given(producer) == By(producer, seen \o Unseen)

\* Every event is in the record of exactly one frame, those of one producer in
\* the order they were made, callbacks outside the poll included: none is lost
\* between the callback and the pump, none is handed over twice.
EveryEventInOneFrame ==
    /\ produced["window"] = Given("window") \o pendingEvents \o windowQueue
    /\ produced["agent"] = Given("agent") \o agentQueue

\* A system that counts edges never loses track of the map: press and release
\* edges alternate, however many presses, repeats and empty frames there were.
EdgesMatchTheMap ==
    \A c \in Codes : held[c] = (IF current[c] = "pressed" THEN 1 ELSE 0)

\* What ImGui takes the codes in the set to be.
Images(codes) ==
    ({<<"key", TranslateKeyCode(c)>> : c \in codes} \cup {<<"button", TranslatePointerButton(c)>> : c \in codes})
        \ {<<"key", Unknown>>, <<"button", -1>>}

\* By an agent that has not released it, or by the window, which lets go of
\* everything with its focus.
HeldBySomebody(c) ==
    \E p \in Producer :
        PressStands(c, By(p, seen), IF p = "window" THEN {"unfocused"} ELSE {})

\* No key sticks: between steps, what the key map has as pressed somebody holds.
\* And the panels agree with the game: once ImGui has worked off its queue it
\* holds nothing the key map does not, and all of it, as far as it has names,
\* unless a loss of focus made it let go.
NothingSticks ==
    stage = "clear" =>
        LET pressed == {c \in Codes : current[c] = "pressed"}
            settled == HeldAfter(ui.held, ui.inputs)[Len(ui.inputs)]
        IN  /\ \A c \in pressed : HeldBySomebody(c)
            /\ windowServer =>
                 /\ settled \subseteq Images(pressed)
                 /\ (\A i \in DOMAIN seen : seen[i].type # "unfocused") => settled = Images(pressed)

\* The agent channel is used for no more than AgentQueue promises.
Agent == INSTANCE AgentQueue WITH
            Command <- AgentEvent,
            pending <- agentQueue,
            delivered <- Given("agent")
UsesAgentQueue == Agent!Spec

\* A close request, from the window or from an agent, ends the run.
CloseEndsTheLoop ==
    \A p \in Producer :
        (\E i \in DOMAIN produced[p] : produced[p][i].type = "close") ~> ~running
=============================================================================
