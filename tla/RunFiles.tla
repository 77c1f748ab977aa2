------------------------------ MODULE RunFiles ------------------------------
(***************************************************************************)
(* What the runs of the engine leave to each other on disk: the log        *)
(* history (Log.cpp), the agent channel's socket name (AgentChannel.cpp),  *)
(* captured pictures (FrameCapture.cpp, waited for by scripts/pge) and the *)
(* debug UI's settings (DebugUI.cpp).  Runs start one after the other but  *)
(* may overlap, and may be killed between any two steps; a write is a      *)
(* truncation and then the bytes (Files.cpp).  Within a run the main       *)
(* thread does all of this, in the order of Engine::Boot, RunStep and      *)
(* Shutdown.                                                               *)
(***************************************************************************)
EXTENDS Integers, FiniteSets, Functions

CONSTANTS
    Runs,          \* 1 .. n, in the order they start
    Clients,       \* 1 .. n, calls of pge screenshot
    MaximumFiles,  \* LogConfiguration::MaximumFiles
    Scales,        \* font scales in thousandths, as typed or dragged
    DefaultScale,
    Sessions       \* what may happen, with its bounds: runs in all and at a time, calls of
                   \* pge, ticks of the clock, presses of the capture key

ASSUME RunsAssumption ==
    /\ MaximumFiles \in Nat \ {0}
    /\ 0 \notin Runs \cup Clients
    /\ Scales \subseteq Int /\ DefaultScale \in Int

VARIABLES
    session,   \* an element of Sessions
    clock,     \* the system clock in milliseconds; it does not go back
    run,       \* run -> its state
    logs,      \* log file on disk -> the lines in it; a name is its time
    socket,    \* the run the socket file was bound by, or Nobody
    captures,  \* picture on disk -> who asked for it, and how much is there
    settings,  \* DebugUi.ini: how much is there, and its scale
    client,    \* client -> its state
    past       \* history, for the properties only

vars == <<session, clock, run, logs, socket, captures, settings, client, past>>

Nobody == 0
NoFile == <<>>
Unknown == -1

Fresh ==
    [phase |-> "off", log |-> 0, buffered |-> {}, listening |-> FALSE,
     pressed |-> {}, pending |-> NoFile, asked |-> {}, index |-> 0,
     scale |-> DefaultScale, drawn |-> FALSE, dirty |-> FALSE, file |-> NoFile, saved |-> Unknown,
     failed |-> FALSE, met |-> FALSE]

\* A call that may fail does, in the sessions that look at it.
MayFail(what) == what \in session.faults

Init ==
    /\ session \in Sessions
    /\ clock = 1
    /\ run = [r \in Runs |-> Fresh]
    /\ logs = <<>> /\ captures = <<>>
    /\ socket = Nobody
    /\ settings = [state |-> "absent", value |-> DefaultScale]
    /\ client = [c \in Clients |-> [phase |-> "idle", before |-> {}, answer |-> <<>>, others |-> FALSE]]
    /\ past = [created |-> {}, warned |-> {}, crowded |-> FALSE, presses |-> 0,
               expected |-> Unknown, writer |-> Nobody]

-----------------------------------------------------------------------------
(* The log.                                                                *)

Alive(r) == run[r].phase \notin {"off", "done", "crashed"}

\* What is left of a run once it has ended.
Ended(r, phase) ==
    [Fresh EXCEPT !.phase = phase, !.log = run[r].log, !.failed = run[r].failed, !.met = run[r].met]

LogFiles == DOMAIN logs

\* Mutant: the newest go first.
NewestBeyond(keep) ==
    {n \in LogFiles : Cardinality({m \in LogFiles : m < n}) >= keep}

\* What PruneLogHistory removes: names sort by their time.
OldestBeyond(keep) ==
    {n \in LogFiles : Cardinality({m \in LogFiles : m > n}) >= keep}

Start(r) ==
    /\ run[r].phase = "off"
    /\ r <= session.runs
    /\ \A q \in Runs : q < r => run[q].phase # "off"
    /\ Cardinality({q \in Runs : Alive(q)}) < session.together
    /\ run' = [run EXCEPT ![r].phase = "configure"]
    /\ UNCHANGED <<session, clock, logs, socket, captures, settings, client, past>>

\* The path is settled and the history pruned for one more file; a directory or
\* a file that cannot be read or removed is left alone.
Configure(r) ==
    /\ run[r].phase = "configure"
    /\ IF session.located
       THEN /\ \E removed \in {OldestBeyond(MaximumFiles - 1)} \cup (IF MayFail("prune") THEN {{}} ELSE {}) :
                 /\ logs' = Restrict(logs, LogFiles \ removed)
                 /\ past' = [past EXCEPT !.crowded =
                        @ \/ removed # OldestBeyond(MaximumFiles - 1)
                          \/ \E q \in Runs : run[q].phase = "openLog"]
            /\ run' = [run EXCEPT ![r].phase = "openLog", ![r].log = clock]
       ELSE /\ run' = [run EXCEPT ![r].phase = "ui"]
            /\ UNCHANGED <<logs, past>>
    /\ UNCHANGED <<session, clock, socket, captures, settings, client>>

\* The probe and the sink both truncate.  A directory that cannot be made or a
\* file that cannot be opened leaves the sinks as they are.
MakeFileSink(r) ==
    /\ run[r].phase = "openLog"
    /\ \/ /\ session.logs
          /\ logs' = [n \in LogFiles \cup {run[r].log} |-> IF n = run[r].log THEN {} ELSE logs[n]]
          /\ run' = [run EXCEPT ![r].phase = "ui", ![r].buffered = {"info"}]
          /\ past' = [past EXCEPT !.created = @ \cup {run[r].log}]
       \/ /\ MayFail("log")
          /\ run' = [run EXCEPT ![r].phase = "ui", ![r].log = 0]
          /\ UNCHANGED <<logs, past>>
    /\ UNCHANGED <<session, clock, socket, captures, settings, client>>

Lines(r, levels) == {<<r, level>> : level \in levels}

Flushed(r) ==
    IF run[r].log \in LogFiles
    THEN [logs EXCEPT ![run[r].log] = @ \cup Lines(r, run[r].buffered)]
    ELSE logs

\* Mutant: nothing is flushed before the end of the run.
NoFlushOn == {}

\* Levels that are flushed at once.
FlushOn == {"warn"}

\* A line goes into the sink's buffer; a file that was pruned meanwhile takes
\* its lines along.
LogLine(r, level) ==
    /\ run[r].phase = "run" /\ run[r].log # 0
    /\ level \notin run[r].buffered
    /\ ~ (level = "warn" /\ r \in past.warned)
    /\ IF level \in FlushOn
       THEN /\ logs' = (IF run[r].log \in LogFiles
                        THEN [logs EXCEPT ![run[r].log] = @ \cup Lines(r, run[r].buffered \cup {level})]
                        ELSE logs)
            /\ run' = [run EXCEPT ![r].buffered = {}]
       ELSE /\ run' = [run EXCEPT ![r].buffered = @ \cup {level}]
            /\ UNCHANGED logs
    /\ past' = [past EXCEPT !.warned = IF level = "warn" THEN @ \cup {r} ELSE @]
    /\ UNCHANGED <<session, clock, socket, captures, settings, client>>

-----------------------------------------------------------------------------
(* Writing a file: Files.cpp.                                              *)

\* The end of a write that was opened; `after` is where the run goes on.
Writing(r) == run[r].file # NoFile

\* Others that are in the middle of the same file.
Rivals(r, file) == {q \in Runs \ {r} : run[q].file = file}

SettingsFile == <<"DebugUi.ini">>

\* "%.2f", in thousandths.
Stored(scale) == ((scale + 5) \div 10) * 10

\* What a number cut short after the point, or after one more digit, reads as.
CutShort(value) == {(value \div 1000) * 1000, (value \div 100) * 100, value}

\* What LoadSettings and ReadSettingsLine make of the file: a scale that is not
\* positive, or no scale at all, leaves the default.
Readings ==
    LET found == CASE settings.state = "absent" -> {}
                   [] settings.state = "whole" -> {settings.value}
                   [] settings.state = "cut" -> {0} \cup CutShort(settings.value)
    IN  IF found = {} THEN {DefaultScale}
        ELSE {IF value > 0 THEN value ELSE DefaultScale : value \in found}

\* Opening truncates; it may fail and leave the file alone.
OpenSettings(r, phase) ==
    \/ /\ session.located
       /\ settings' = [state |-> "cut", value |-> Stored(run[r].scale)]
       /\ run' = [run EXCEPT ![r].phase = phase, ![r].file = SettingsFile, ![r].dirty = FALSE,
                             ![r].saved = Stored(run[r].scale)]
       /\ past' = [past EXCEPT !.expected = Unknown, !.writer = r]
    \/ /\ MayFail("write") \/ ~session.located
       /\ run' = [run EXCEPT ![r].phase = phase, ![r].dirty = FALSE, ![r].saved = Unknown]
       /\ UNCHANGED <<settings, past>>

\* The bytes and the flush: all of them, or an error with some.
FinishWrite(r) ==
    /\ Writing(r)
    /\ IF run[r].file = SettingsFile
       THEN /\ \/ /\ settings' = [state |-> "whole", value |-> run[r].saved]
                  /\ run' = [run EXCEPT ![r].file = NoFile]
               \/ /\ MayFail("write")
                  /\ settings' = [state |-> "cut", value |-> run[r].saved]
                  /\ run' = [run EXCEPT ![r].file = NoFile, ![r].saved = Unknown]
            /\ past' = [past EXCEPT !.writer = r]
            /\ UNCHANGED captures
       ELSE /\ \/ captures' = [captures EXCEPT ![run[r].file].state =
                      IF @ = "mixed" \/ Rivals(r, run[r].file) # {} THEN "mixed" ELSE "whole"]
               \/ MayFail("write") /\ UNCHANGED captures
            /\ run' = [run EXCEPT ![r].file = NoFile]
            /\ UNCHANGED <<settings, past>>
    /\ UNCHANGED <<session, clock, logs, socket, client>>

-----------------------------------------------------------------------------
(* The debug UI's settings and the agent channel's name, at boot.          *)

\* DebugUi's constructor, which reads the file in one go.
LoadSettings(r) ==
    /\ run[r].phase = "ui"
    /\ \E scale \in (IF session.located THEN Readings ELSE {DefaultScale}) :
          run' = [run EXCEPT ![r].scale = scale, ![r].phase = IF session.channel THEN "unlink" ELSE "run"]
    /\ UNCHANGED <<session, clock, logs, socket, captures, settings, client, past>>

\* The renderer does not come up: no frame is drawn and no channel started.
BootFails(r) ==
    /\ run[r].phase = "ui" /\ MayFail("boot")
    /\ run' = [run EXCEPT ![r].phase = "close"]
    /\ UNCHANGED <<session, clock, logs, socket, captures, settings, client, past>>

\* The run has, or is about to have, a channel of its own.
InChannel(r) == run[r].phase \in {"bind", "listen"} \/ run[r].listening

\* Whoever touches the name meets those who use it.
Touch(r) ==
    LET others == {q \in Runs \ {r} : InChannel(q)}
    IN  [q \in Runs |-> IF q \in others \/ (q = r /\ others # {})
                        THEN [run[q] EXCEPT !.met = TRUE] ELSE run[q]]

\* A call failed: there is no channel and the run goes on without.
Unavailable(r) == MayFail("channel") /\ run' = [Touch(r) EXCEPT ![r].phase = "run", ![r].failed = TRUE]

\* Mutant: whatever has the name is left where it is.
SpareLeftover(r) ==
    /\ run[r].phase = "unlink"
    /\ \/ run' = [Touch(r) EXCEPT ![r].phase = "bind"] /\ UNCHANGED socket
       \/ Unavailable(r) /\ UNCHANGED socket
    /\ UNCHANGED <<session, clock, logs, captures, settings, client, past>>

\* AgentChannel::Start: the path fits and the socket is made, or not.
UnlinkLeftover(r) ==
    /\ run[r].phase = "unlink"
    /\ \/ run' = [Touch(r) EXCEPT ![r].phase = "bind"] /\ socket' = Nobody
       \/ Unavailable(r) /\ UNCHANGED socket
    /\ UNCHANGED <<session, clock, logs, captures, settings, client, past>>

\* A name that is there again cannot be bound.
Bind(r) ==
    /\ run[r].phase = "bind"
    /\ \/ /\ socket = Nobody
          /\ run' = [Touch(r) EXCEPT ![r].phase = "listen"]
          /\ socket' = r
       \/ socket # Nobody /\ run' = [Touch(r) EXCEPT ![r].phase = "run"] /\ UNCHANGED socket
       \/ Unavailable(r) /\ UNCHANGED socket
    /\ UNCHANGED <<session, clock, logs, captures, settings, client, past>>

\* chmod, listen and the wake descriptor: one that fails takes the name away.
Listen(r) ==
    /\ run[r].phase = "listen"
    /\ \/ run' = [Touch(r) EXCEPT ![r].phase = "run", ![r].listening = TRUE] /\ UNCHANGED socket
       \/ Unavailable(r) /\ socket' = Nobody
    /\ UNCHANGED <<session, clock, logs, captures, settings, client, past>>

-----------------------------------------------------------------------------
(* Frames.                                                                 *)

Idle(r) == run[r].phase = "run" /\ ~Writing(r)

\* Somebody presses F12.
PressKey(r) ==
    /\ Idle(r)
    /\ past.presses < session.presses
    /\ run' = [run EXCEPT ![r].pressed = @ \cup {Nobody}]
    /\ past' = [past EXCEPT !.presses = @ + 1]
    /\ client' = [c \in Clients |-> [client[c] EXCEPT !.others = @ \/ client[c].phase # "idle"]]
    /\ UNCHANGED <<session, clock, logs, socket, captures, settings>>

\* The time, and a number that starts anew with every run.
GenerateCapturePath(r) == <<clock, run[r].index>>

\* The debug UI's frame, where there is a debug UI.
AfterRequests == IF session.debugUi THEN "panel" ELSE "draw"

\* One request is kept: a newer one displaces it.  The captures directory may
\* be missing or unusable.
ServiceRequests(r) ==
    /\ Idle(r) /\ run[r].pressed # {}
    /\ \/ /\ session.located
          /\ run' = [run EXCEPT ![r].phase = AfterRequests, ![r].pressed = {}, ![r].asked = run[r].pressed,
                                ![r].pending = GenerateCapturePath(r), ![r].index = @ + 1]
       \/ /\ MayFail("capture") \/ ~session.located
          /\ run' = [run EXCEPT ![r].phase = AfterRequests, ![r].pressed = {}]
    /\ UNCHANGED <<session, clock, logs, socket, captures, settings, client, past>>

\* A frame without a request.
NoRequest(r) ==
    /\ Idle(r) /\ run[r].pressed = {}
    /\ run[r].pending # NoFile \/ session.debugUi
    /\ run' = [run EXCEPT ![r].phase = AfterRequests]
    /\ UNCHANGED <<session, clock, logs, socket, captures, settings, client, past>>

\* The scale is dragged or typed in the panel, which marks the settings dirty.
DrawSettingsPanel(r) ==
    /\ run[r].phase = "panel"
    /\ \/ \E scale \in Scales \ {run[r].scale} :
             run' = [run EXCEPT ![r].scale = scale, ![r].dirty = TRUE, ![r].drawn = TRUE,
                                ![r].phase = "end"]
       \/ run' = [run EXCEPT ![r].drawn = TRUE,
                              ![r].phase = IF run[r].dirty THEN "end" ELSE "draw"]
    /\ UNCHANGED <<session, clock, logs, socket, captures, settings, client, past>>

\* What is dirty is saved once ImGui says the time has come.
EndFrame(r) ==
    /\ run[r].phase = "end"
    /\ \/ OpenSettings(r, "draw")
       \/ /\ run' = [run EXCEPT ![r].phase = "draw"]
          /\ UNCHANGED <<settings, past>>
    /\ UNCHANGED <<session, clock, logs, socket, captures, client>>

\* DrawFrame: a skipped frame keeps the request, and one that is served is
\* dropped whether the picture can be read, encoded and opened or not.
DrawFrame(r) ==
    /\ run[r].phase = "draw" /\ ~Writing(r)
    /\ \/ /\ run[r].pending # NoFile
          /\ \/ LET name == run[r].pending IN
                /\ captures' = [n \in DOMAIN captures \cup {name} |->
                       IF n = name
                       THEN [asked |-> run[r].asked, state |-> IF Rivals(r, name) # {} THEN "mixed" ELSE "cut"]
                       ELSE captures[n]]
                /\ run' = [run EXCEPT ![r].phase = "run", ![r].pending = NoFile,
                                      ![r].asked = {}, ![r].file = name]
             \/ /\ MayFail("capture")
                /\ run' = [run EXCEPT ![r].phase = "run", ![r].pending = NoFile,
                                      ![r].asked = {}]
                /\ UNCHANGED captures
       \/ /\ run' = [run EXCEPT ![r].phase = "run"]
          /\ UNCHANGED captures
    /\ UNCHANGED <<session, clock, logs, socket, settings, client, past>>

-----------------------------------------------------------------------------
(* The end of a run.                                                       *)

Close(r) ==
    /\ Idle(r)
    /\ run' = [run EXCEPT ![r].phase = "close"]
    /\ UNCHANGED <<session, clock, logs, socket, captures, settings, client, past>>

\* Mutant: the socket file is left behind.
StopKeepingName(r) ==
    /\ run[r].phase = "close"
    /\ IF run[r].listening
       THEN run' = [Touch(r) EXCEPT ![r].phase = "save", ![r].listening = FALSE]
       ELSE run' = [run EXCEPT ![r].phase = "save"]
    /\ UNCHANGED <<session, clock, logs, socket, captures, settings, client, past>>

\* AgentChannel::Stop takes the name away, whosever it is by now.
Stop(r) ==
    /\ run[r].phase = "close"
    /\ IF run[r].listening
       THEN /\ run' = [Touch(r) EXCEPT ![r].phase = "save", ![r].listening = FALSE]
            /\ socket' = Nobody
       ELSE /\ run' = [run EXCEPT ![r].phase = "save"]
            /\ UNCHANGED socket
    /\ UNCHANGED <<session, clock, logs, captures, settings, client, past>>

\* Mutant: what changed since the last save is not saved.
DestroyWithoutSaving(r) ==
    /\ run[r].phase = "save"
    /\ run' = [run EXCEPT ![r].phase = "flush"]
    /\ UNCHANGED <<session, clock, logs, socket, captures, settings, client, past>>

\* ~DebugUi saves once more if a frame was ever run.
DestroyDebugUi(r) ==
    /\ run[r].phase = "save"
    /\ IF run[r].drawn THEN OpenSettings(r, "flush")
       ELSE /\ run' = [run EXCEPT ![r].phase = "flush"]
            /\ UNCHANGED <<settings, past>>
    /\ UNCHANGED <<session, clock, logs, socket, captures, client>>

\* The end in order.  What the next run should find is known if this run was
\* the last to write its settings, and could.
Flush(r) ==
    /\ run[r].phase = "flush" /\ ~Writing(r)
    /\ logs' = Flushed(r)
    /\ run' = [run EXCEPT ![r] = Ended(r, "done")]
    /\ past' = [past EXCEPT !.expected =
           IF ~run[r].drawn THEN @
           ELSE IF \/ run[r].saved = Unknown \/ Stored(run[r].scale) <= 0
                   \/ past.writer # r \/ Rivals(r, SettingsFile) # {}
                THEN Unknown
                ELSE run[r].scale]
    /\ UNCHANGED <<session, clock, socket, captures, settings, client>>

\* The run is killed: its descriptors are closed, its files stay as they are.
Crash(r) ==
    /\ Alive(r) /\ MayFail("run")
    /\ run' = [run EXCEPT ![r] = Ended(r, "crashed")]
    /\ UNCHANGED <<session, clock, logs, socket, captures, settings, client, past>>

Tick ==
    /\ clock < session.ticks
    /\ clock' = clock + 1
    /\ UNCHANGED <<session, run, logs, socket, captures, settings, client, past>>

-----------------------------------------------------------------------------
(* scripts/pge screenshot.                                                 *)

\* Somebody other than the client has a picture coming.
Outstanding ==
    \E r \in Runs :
        /\ run[r].pressed # {} \/ run[r].pending # NoFile \/ Writing(r)

Snapshot(c) ==
    /\ c <= session.clients /\ client[c].phase = "idle"
    /\ \A d \in Clients : d < c => client[d].phase # "idle"
    /\ client' = [client EXCEPT ![c].phase = "send", ![c].before = DOMAIN captures,
                                ![c].others = @ \/ Outstanding]
    /\ UNCHANGED <<session, clock, run, logs, socket, captures, settings, past>>

\* The key is injected into the run the name leads to, if it leads anywhere;
\* no answer in time leaves it there.
SendCommand(c) ==
    /\ client[c].phase = "send"
    /\ IF socket # Nobody /\ run[socket].listening
       THEN /\ run' = [run EXCEPT ![socket].pressed = @ \cup {c}]
            /\ \E phase \in {"poll", "gone"} :
                  client' = [d \in Clients |->
                      IF d = c THEN [client[d] EXCEPT !.phase = phase]
                      ELSE [client[d] EXCEPT !.others = @ \/ client[d].phase # "idle"]]
       ELSE /\ client' = [client EXCEPT ![c].phase = "gone"]
            /\ UNCHANGED run
    /\ UNCHANGED <<session, clock, logs, socket, captures, settings, past>>

\* Mutant: a file that is there is finished.
CompleteWhenThere(name) == name \in DOMAIN captures

\* is_complete_png: a signature at the start and IEND at the end.
Complete(name) == captures[name].state # "cut"

Earlier(a, b) == a[1] < b[1] \/ (a[1] = b[1] /\ a[2] <= b[2])

\* The first new file, by name, that is finished.
Poll(c) ==
    /\ client[c].phase = "poll"
    /\ \E name \in {n \in DOMAIN captures \ client[c].before : Complete(n)} :
         /\ \A n \in DOMAIN captures \ client[c].before : Complete(n) => Earlier(name, n)
         /\ client' = [client EXCEPT ![c].phase = "answered", ![c].answer = captures[name]]
    /\ UNCHANGED <<session, clock, run, logs, socket, captures, settings, past>>

GiveUp(c) ==
    /\ client[c].phase = "poll"
    /\ client' = [client EXCEPT ![c].phase = "gone"]
    /\ UNCHANGED <<session, clock, run, logs, socket, captures, settings, past>>

-----------------------------------------------------------------------------
Over == \A r \in Runs : run[r].phase \in {"done", "crashed"} \/ r > session.runs

\* Nothing is left to happen.
Finished ==
    /\ Over /\ clock = session.ticks
    /\ UNCHANGED vars

Next ==
    \/ \E r \in Runs :
          \/ Start(r) \/ Configure(r) \/ MakeFileSink(r) \/ LoadSettings(r) \/ BootFails(r)
          \/ UnlinkLeftover(r) \/ Bind(r) \/ Listen(r)
          \/ \E level \in {"info", "warn"} : LogLine(r, level)
          \/ PressKey(r) \/ ServiceRequests(r) \/ NoRequest(r)
          \/ DrawSettingsPanel(r) \/ EndFrame(r) \/ DrawFrame(r) \/ FinishWrite(r)
          \/ Close(r) \/ Stop(r) \/ DestroyDebugUi(r) \/ Flush(r) \/ Crash(r)
    \/ \E c \in Clients : Snapshot(c) \/ SendCommand(c) \/ Poll(c) \/ GiveUp(c)
    \/ Tick
    \/ Finished

Spec == Init /\ [][Next]_vars

-----------------------------------------------------------------------------
(* Properties.                                                             *)

\* Runs that start one at a time, with every old file removable, never leave
\* more logs than are to be kept; and whatever a run warned about can be read
\* afterwards, however it ended, until there are enough newer logs to push its
\* own out (or a second run was named in the same millisecond).
LogHistory ==
    /\ ~past.crowded => Cardinality(LogFiles) <= MaximumFiles
    /\ \A r \in past.warned :
          LET name == run[r].log IN
          \/ name \in LogFiles /\ <<r, "warn">> \in logs[name]
          \/ Cardinality({m \in past.created : m > name}) >= MaximumFiles - 1
          \/ \E q \in Runs \ {r} : run[q].log = name

\* A run that asked for a channel, had no call fail and met no other run at the
\* name is the one clients reach, whatever crashed before it; and when every
\* run has ended in order the name is gone.
OneRunIsReached ==
    /\ \A r \in Runs :
          run[r].phase \in {"run", "panel", "end", "draw"} /\ session.channel
             /\ ~run[r].failed /\ ~run[r].met
          => socket = r /\ run[r].listening
    /\ (\A r \in Runs : run[r].phase \in {"off", "done"} /\ ~run[r].failed /\ ~run[r].met)
          => socket = Nobody

\* A client is never handed a picture that is cut short; and if nobody else had
\* or got a picture coming since it looked at the directory, the picture is
\* whole and was taken because it asked.
PictureIsTheOneAsked ==
    \A c \in Clients :
        client[c].phase = "answered" =>
            LET picture == client[c].answer IN
            /\ picture.state # "cut"
            /\ ~client[c].others => picture.state = "whole" /\ c \in picture.asked

\* A run finds the font scale that the last run showed when it ended, up to the
\* hundredth that is stored, provided that run ended alone and could save and
\* nobody has written since.
ScaleRemembered ==
    [][\A r \in Runs :
          (run[r].phase = "ui" /\ run'[r].phase \in {"unlink", "run"} /\ past.expected # Unknown)
          => run'[r].scale - past.expected \in -5 .. 5]_vars
=============================================================================
