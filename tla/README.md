# PlaygroundEngine in TLA+

A verification development of the C++ game engine in this repository: models
of its stateful parts written from the source, model-checked by TLC on small
instances, with theorems about them checked by TLAPS for every value of the
constants. `PROJECT.json` ties every definition to the lines it models, every
property to a mutant of the code it catches, and every hazard to its line.

## The system

The engine is one process. The main thread runs `Engine::Boot`, then
`StartRun` and the loop `Engine::Run`/`RunStep`, then `Shutdown`. One more
thread exists, the agent channel's reader. The GPU and the window system work
beside both. In one step the main thread clears the event record, pumps the
window server into it, drains the agent channel into it, looks for a resize, a
capture key and a close request, opens the debug UI frame, hands the record to
the application, steps the ECS systems in order, closes the debug UI frame,
loads meshes it has not seen, extracts what is to be drawn, and draws.

| component | state | operations | correct when |
|---|---|---|---|
| agent channel (`AgentChannel/`) | `_stagedEvents` under a mutex, `_drainBuffer`, `_stopping`, listening and wake descriptors, the socket file | `Start`, reader loop, `DrainInto`, `Stop` | each accepted command reaches one frame, in order; replies are true; `Stop` ends and nothing runs after it; no client starves the others; the name leads to a run that listens |
| pge client (`scripts/pge`) | captures directory as it was | `send_command`, `take_screenshot` | its command runs once, its picture is its own |
| ECS (`Ecs/`) | `_lastEntityId`, components by entity and by type | add, destroy, query, `Step` | two indices with the same contents; handles never mean another entity |
| input system (`Ecs/InputSystem/`) | copy of the record, current and previous key map | `UpdatePlatformInput`, `Step` | edges alternate; no key sticks |
| window server (`WindowServer/`, `PlatformEvents/`) | `_pendingEvents`, windows, cursors, the record | callbacks, `Pump`, `CreateWindow` | every event is in one frame's record; every key has its own code |
| renderer (`Renderer/`) | some forty Vulkan objects, swap chain, frame index, resize flag, pending capture, meshes | `Create`, `DrawFrame`, `RecreateSwapChain`, `AcquireMesh`, `Teardown` | nothing is reused or destroyed while the GPU works on it; images are accessed in order; no wait is for ever |
| frame capture (`FrameCapture`) | capture counter | `ServiceRequests` | the next presented frame is the one captured, under a name of its own |
| engine (`Engine`) | owners of all the above, `_running` | `Boot`, `StartRun`, `RunStep`, `Shutdown` | the parts are torn down in order after any failure |
| mesh catalog, render extraction | path to handle | `SyncMeshCatalog`, `ExtractFrame` | a frame shows the world as it stands |
| debug UI (`DebugUI/`, `Ecs/EntityDebugPanelSystem/`) | open frame, settings, ImGui's own state | `BeginFrame`, `EndFrame`, load, save, the panel's rows | edits reach what is edited and nothing const; settings survive |
| log (`Log`) | sinks, files, interned names | `Configure`, `Write`, pruning | what was warned about can be read after a crash; old files are bounded |
| reflection (`Reflection/`) | constant tables | borrows, conversions, overload choice | constness is kept; a choice does not depend on declaration order |
| game (`PlaygroundGame/`) | spawned entities, components | the spawner, movement, camera control | the spawner destroys what it spawned |

Hard to get right, and to test: the two threads around the staging buffer and
around `Stop`; a single reader that clients can hold; two frames in flight
under a window that resizes, minimizes and makes chains of another length; a
failure at any one of a few hundred calls, with half of the objects made; a
capture request that has to wait; two producers and a record that is cleared
every frame; handles, components and widgets that outlive their entities; and
what one run leaves on disk for another, or for itself after a crash.

## Modules

| module | models | state and actions |
|---|---|---|
| `AgentQueue` | the promise of the agent channel | a queue; `Accept`, `Deliver` of any prefix |
| `AgentChannel` | `AgentChannel.cpp`, its clients and the main thread around it | one program counter for the reader (`ReaderLoop`, `HandleConnection`, `WaitReadable`), one for the main thread (`DrainInto`, `Stop`); per client what it sent, whether it ended, what it was told |
| `AgentChannelTimed` | the same with a clock in the poll | `Tick` passes time only while `WaitReadable` waits on a connection |
| `AgentCommand` | `ParseCommand` and what it calls | operators over lines of words; what a prefix of a line means |
| `ComponentTable` | the promise of the ECS | entities that are created once and carry at most one component of each type |
| `Ecs` | `Ecs.cpp`, `Ecs.cppm` | the two maps; one action per operation, for any handle a caller still has |
| `FramesInFlight` | `DrawFrame`, `RecreateSwapChain`, the capture request, `Teardown` | one program counter along `DrawFrame`; fences, semaphores and images; the GPU, the presentation engine and the window as actions of their own |
| `DeviceChoice` | the choices of `VulkanUtils.cpp` | operators: device, queue family, formats, samples, memory, extent, image count; what makes a choice legal |
| `GpuAccess` | Vulkan's rules for one image | operators: layouts, what is dirty, what a barrier made visible |
| `RendererCalls` | every function of `VulkanUtils.cpp` and `RendererVulkan.cpp` that makes, uses or destroys an object | operators that give a function's steps in source order |
| `EngineLifecycle` | `Engine::Boot`, `RunStep`, `Shutdown` | runs those steps: one action per kind of step, `Fail` at any call, locals unwound in reverse |
| `InputTranslation` | the tables from GLFW's numbers to `InputCode` to ImGui's, and ImGui's input queue | tables as sets of stretches |
| `FrameInput` | the callbacks, `Pump`, the drain, `RunStep`, `DebugUi::BeginFrame`, `InputSystem` | a program counter along `RunStep`; the queues an event passes through, the key maps, what ImGui holds |
| `Reflected` | borrows, fields, conversions and overload choice of `Reflection/` | operators over type descriptions |
| `ConstructorChoice` | a question asked of `SelectConstructor` | no steps: any overload set, any arguments |
| `DebugPanel` | `DebugPanelDrawer.cpp` | the rows drawn for an object of any described type |
| `EulerAngles` | the two conversions of `Math/Types.cppm` | operators over whole angles |
| `World` | the systems of `App.cpp`, the entity panel, `SyncMeshCatalog`, `ExtractFrame` | one action per stage of a frame, and the user's gestures in the panel |
| `RunFiles` | log files, socket file, captures and settings over several runs, and `pge screenshot` | one action for each step that another run, a client or a crash can come after |
| `AgentChannelProofs`, `EcsProofs`, `EngineLifecycleProofs`, `EngineImagesProofs`, `FrameInputProofs`, `FramesInFlightProofs`, `RunFilesProofs`, `WorldProofs` | theorems | |
| `MC...` | instances for TLC | |

How they are composed:

- `AgentChannel` implements `AgentQueue`, and `FrameInput`, which knows nothing
  of threads or sockets, uses the agent channel for exactly what `AgentQueue`
  says (`UsesAgentQueue`). `AgentChannelTimed` extends `AgentChannel` with two
  clocks and changes none of its steps. `Ecs` implements `ComponentTable`.
- The lines of the channel's instances (`MCAgentLines`) get their meaning, and
  that of each prefix, from `AgentCommand`.
- `FrameInput` extends `InputTranslation`: what a callback reports, and what
  ImGui is told, go through the tables.
- `EngineLifecycle` extends `RendererCalls`, which extends `DeviceChoice` and
  `GpuAccess`: the steps of a function depend on what was chosen. It has no
  GPU that runs by itself: work ends only when it is waited for, which is the
  worst case for destroying and the wrong one for waiting, so the fences and
  semaphores of two frames in flight are `FramesInFlight`'s.
- `World` extends `EulerAngles`. `MCWorld` puts it beside `DebugPanel`, which
  extends `Reflected`: a row the user edits has to be one that `DrawObject`
  really makes editable (`RowsAssumption`).
- `MCWorld` asks besides, in behaviours of their own, what the panel makes of
  the objects of the tests and what `SelectConstructor` makes of small overload
  sets. `MCRunFiles` gives each kind of file its own sessions, since nothing
  but the runs connects them.

Definitions marked `Mutant` or `Not the code` are variants of the definition
after them, each a slip someone could make there. No specification uses them;
each property of a passing run is known to fail when one takes its place.

### What the models leave out

- Text. A line is a sequence of units that the kernel delivers together, and
  `Line[c][k]` is what `ParseCommand` makes of its first `k` units; in
  `AgentCommand` it is a sequence of words. Paths, mesh
  names and typed texts are members of small sets. A timestamp's role, telling
  two equal events apart, is played by the client's name.
- Vulkan, GLFW, ImGui and the kernel, of which there is what the code relies
  on. `waitIdle` is taken to cover the semaphore wait of a present; the Vulkan
  standard does not promise it and the code, like most, relies on it. Barrier
  stages are left out of `GpuAccess`. ImGui is in `InputTranslation` with its
  queue (a frame takes inputs until one changes what has changed in it), and in
  `World` with what it keeps of a widget by its id.
- Steps that touch only one thread's own state are merged with the next that
  touches shared state; the body of a critical section is one step, since
  nothing outside one touches `_stagedEvents`. In `RunFiles` a file is
  truncated and then written, unlinking and binding are two steps, and a
  buffered log line reaches the disk only when it is flushed.
- Geometry. A position is the number of displacements it has had, an angle is
  a whole number of small turns, a distance is in millimetres and rounds as a
  float does where it matters.
- In `InputTranslation`: modifiers, characters, pointer positions, `FocusGained`.
- In `RunFiles` the system clock does not go back, which the order of log
  names relies on, and a picture written by two runs at once is `mixed`,
  neither's.
- Contracts. The shipped compiler drops those of the ECS (the tests say so),
  and a Release build evaluates none, so they guard nothing in `Ecs`.

## Runs

| run | question | bounds |
|---|---|---|
| `AgentChannelSafety` | can an event be lost, repeated, made up, reordered, or a reply lie? is anything touched after the join? is it a queue? | three clients: a short command, one exactly as long as the cap, an empty line; the reader may die of a failed call |
| `AgentChannelLiveness` | does `Stop` end, is every client served, does an accepted command reach a frame, does `CloseRequested` end the run? | two clients |
| `AgentChannelTimed` | for how long can one client hold the reader? | a line longer than the cap, a timeout of two ticks |
| `AgentChannelHeld` | is that the five seconds of `docs/AgentChannel.md`? *violated* | the same |
| `EcsSafety` | do the indices agree, do handles stay dead, is it a table? | three entities, two types, four components |
| `EcsReplacement` | can a component be replaced silently? *violated* | two entities, three components |
| `FramesInFlight` | is a buffer, semaphore or image used while the GPU has it? is a resize forgotten? is a capture served by the next presented frame? does every step return? | two frames in flight as in the code, chains of two and three images, two sizes |
| `CaptureSameFrame` | is a capture served by the frame it was asked in? *violated* | the same |
| `EngineLifecycle` | is anything used, destroyed or left behind out of order, whatever fails? are images accessed in the layout and order Vulkan wants? is what was chosen there? | eight machines (a desktop, a plain one with a shipping build, six unfit ones), with and without a window and a renderer, two frames, two failures of calls that need not fail |
| `FrameInput` | is each event in one frame, do edges alternate, does a key stick, do panels and game agree, does a close end the loop? | three events of two producers over a letter, F25 (unknown to ImGui), a key unknown to GLFW, a button, focus loss and close, with a window and headless |
| `World` | is a frame the world as it stands? does an edit reach the entity it was typed for, a drag turn one angle, a view project? does the panel edit anything const? does a choice depend on declaration order? | two spawned entities; users who type while spawning, drag while steering, and set the camera while files come and go, five or so gestures each; thirteen questions about panels, some twelve thousand about overloads |
| `RunFiles` | can what was warned about be read afterwards? does the channel's name lead to the run? is a picture the one that was asked for? is the scale remembered? | three runs, two or three at a time, with crashes and failing calls; two clients, or one and a person at the keyboard |

What they show: all passing properties hold; the three violated ones are
statements of a doc, a comment and a test that the code does not keep (see
Findings).

Why the bounds are enough. For the channel: three clients are one being
served, one in the backlog and one beyond it; the cap and the read size of two
units give lines below, at and above the cap whose bytes arrive together or
apart; frames are not bounded at all. For `FramesInFlight` nothing is bounded
but the sets: the state space is finite and complete, with two frames, the
number the code uses. For the ECS an action touches one entity and one type,
and two of each are enough for one to disturb another; a third component
replaces. For `EngineLifecycle` every function is run at every place it is
called; two frames are a first and one that meets what the first left, with a
chain that may be remade in either; a second failure is one while the first is
handled. The machines differ where a choice branches. For the input, three
events cover press, release and press again, and a code disturbed by another,
by focus or by a close; frames are not bounded. For `World`, the spawner needs
two entities to take the wrong one, the panel two entities with the same rows;
a drag passes the vertical with `RightAngle` 2 in a few turns. For `RunFiles`,
three runs are one that leaves something behind and two that meet over it; of
three logs two are kept.

`CHECK_DEADLOCK FALSE` stands where the modelled program stops: an ECS whose
bounds are used up, a loop that has ended.

### Fairness

`AgentChannel` assumes both threads are scheduled, and that `poll` returns when
its timeout is over; clients owe nothing, so a client may stop at any byte.
`FrameInput` assumes the loop goes on, none of whose modelled steps blocks.
`FramesInFlight` assumes the main thread goes on when it can, that a
submission ends, and that the presentation engine shows or passes over what it
was given and so gives images back. A call that fails, or reports a chain out
of date, is never assumed: fairness is on the steps that get on (`Proceed`), so
a frame may not end by way of an error that has to come. The last assumption is the
platform's: a compositor that holds every image of a hidden window blocks the
main thread in `acquireNextImage`, as the code does without a timeout. The
other modules state no liveness: their programs are sequences of steps that end.

## Findings

- A held connection blocks the channel longer than documented. The timeout is
  that of one read. `HeldForLongestRequest`, proved, is the bound that holds.
- A second component of a type replaces the first in both indices.
- A capture asked for in a frame that is not presented waits. What holds is the
  renderer's own comment: the next presented frame is captured
  (`NextPresentedIsCaptured`).

Seen while modelling. The properties are stated so that they allow these, and
say where they do:

- `docs/AgentChannel.md` says that a second capture request in one frame
  displaces the first. `ServiceRequests` asks for at most one capture a frame,
  so two keys in one frame make one request, and only a request that had to
  wait is ever displaced.
- `ToExtractedView` keeps the planes a millimetre apart in float. From 32768 m
  on the sum is the near plane itself and the two coincide
  (`ViewCanBeProjected` excepts it).
- `SelectConstructor` ranks candidates that later cannot bind, so a set can be
  ambiguous, or choose one that fails, where another would have bound
  (`ChoiceIsTheCallers` claims only what the ranking gives).
- Letters typed into the panel drive the spawner too; nothing arbitrates, as
  `docs/WindowServer.md` says. `EditsReachTheirTarget` is what is safe
  nevertheless.
- ImGui drops every key at a loss of focus, the key map drops none. A key an
  agent holds is held in the game and not in the panel afterwards
  (`NothingSticks` excepts it).
- A device is chosen before it is asked for present support, so a machine whose
  first suitable device cannot present is given up though a second could (one
  of `MCEngineLifecycle`'s unfit machines).
- When the wait of `EndSingleTimeCommands` fails, the staging buffer goes while
  its copy may be pending (`GpuDoneFirst` takes the device for lost then).
- The settings keep two digits of the scale: 0.004 is stored as 0.00 and read
  back as none (`ScaleRemembered` allows it). They and pictures are written in
  place, so a crash leaves them cut.
- A capture's name is its millisecond and a number that starts anew in each
  run, so two runs can choose the same, though the comment in `FrameCapture.cpp`
  says names are unique across runs. Two logs of the same millisecond share a file.
- A run that goes on while `MaximumFiles` newer ones start loses its log file
  under its hands (`LogHistory`'s second alternative).
- A `pge screenshot` that gave up leaves its key in the engine, and the next
  caller may be handed its picture (`PictureIsTheOneAsked` excepts callers with
  company).
- A second engine on the same socket path takes the name from the first, and
  whoever stops first removes it (`OneRunIsReached` excepts runs that met).

## Proofs

TLAPS checks, for every value of the constants that the ASSUMEs allow:

- `AgentChannelProofs`. The inductive invariant `TypeInv` is the type invariant
  with the reader's place tied to the connection it serves, and `Handover`: the
  reader accepts only with someone in the backlog, without which `Accept` would
  take the head of an empty queue, and the main thread is past the join only
  with the reader done. `ExactlyOnceInOrder`
  is inductive with the drain buffer's role (`InHand`). `QuietAfterJoin` needs
  the second half of `Handover`.
  `ImplementsQueue` maps each step: `Respond` to `Accept`, `AppendToRecord` to
  `Deliver`, all others to stutters.
  `RepliesTellTheTruth` and `OnlyFinishedLinesRun` speak of clients long gone,
  so the invariants say of every client how far its one request has come: it
  waits in the queue once, it is open exactly while it is served, nothing is
  staged for it before its answer (`Protocol`); what is read was sent, a read
  follows a poll that found something, and an answer a newline, the cap or the
  end of input (`Progress`).
  `HeldIsBounded`, of the channel with a clock, needs `WaitsArePaidFor`: each
  finished wait of a connection is paid for by a unit read, so the time held
  is at most `Timeout` for each unit read plus the wait at hand; and a read
  is entered only with less than the cap.
- `EcsProofs`. `IndicesAgree` with types is inductive; `DeadStaysDead` follows
  from ids only growing; the refinement maps the table to what the queries see.
- `EngineLifecycleProofs`. The functions of the engine and the renderer are
  data in the model, sequences of steps with branches and failures, so the
  proof types them. A `Mode` says which names are bound locally and as members,
  whether the GPU is idle, may be at work, or may be at work on a local, and
  whether the run goes on. A step is `Allowed` in a mode: `make` where all that
  is needed is bound, `release` where nothing bound needs what goes and the GPU
  is done with it, and so on. A set of pairs of a mode and a program is
  `Closed` if each program's first step is allowed in its mode and the pairs it
  may lead to, of both outcomes of a call and all branches of a choice, are in
  the set; a program is `Typed` in a mode if some closed set has the pair.
  There is a lemma for each function (`Runs...`, `Leads...`), built from those
  of what it calls, and so `TypedBoot`, `TypedRunStep` and `TypedShutdown`, for
  every machine and every set of members they can be entered with.
  `IInv` ties this to what runs: the steps ahead are typed in the mode of the
  objects alive (`Working`), or they unwind the locals after a failure and go
  on with a handler that is typed once these are gone (`Unwinding`). `Made`
  says that bindings are as the mode has them, each name once among the
  members, each object from bound ones; `AtWork` that submitted work refers
  only to what the mode lets the GPU have. Each action keeps `IInv`, and
  `UsersGoFirst`, `GpuDoneFirst` and `NothingOutlivesTheRun` follow. TLC cannot
  evaluate `Typed`, which quantifies over all sets; `Made` and `AtWork` were
  checked on the run's instance before they were proved.
- `EngineImagesProofs`. It types the same programs by what they do to images.
  A `Sight` is the machine, every image's state, the swap chain, whether
  the renderer has come up and whether the run goes on. A step `Fits` a sight:
  a transition and a use find the image as they name it, the views of a swap
  chain are made when the chain is a choice for some surface of the machine, the
  fences, which come last, when all that had to be found was found (`Fit`), a
  readback buffer when the chain's images may be read (`CanCapture`). `Orderly`
  is to `Fits` what `Typed` is to `Allowed`. The lemmas are triples: from every
  sight of one set a function comes to a sight of another, and fails only into
  sights its handler deals with (`Brings`); those without images are `Calm` and
  keep every set that is `Steady` under waits. The set that matters is `Viewed`:
  the attachments in one of the layouts and accesses given, each level of the
  texture ready to be sampled, each at least as large as the passes take it to
  be. `BringsFrame` shows that a frame, with a new swap chain or a capture or
  neither, and however it fails, leaves the images as it may find them, and
  `BootSeen`, `TurnSeen` and `ShutdownSeen` follow for what runs on the main
  thread. `IInvSeen` ties this to the states: the steps ahead are orderly in
  the sight of the moment (`Onward`), and what was asked of the sight when a
  part was made still holds while it is there (`Chosen`), which is why a chain
  may only be noted where no readback buffer is at hand. `ImagesAccessedInOrder`
  follows, and `ChoicesLegal` with `FitIsLegal`, `ChainIs` and `CapturableFits`,
  which are about the choices of `DeviceChoice` themselves.
- `FrameInputProofs`, in the order in which the theorems build on each other.
  The tables: one whose stretches neither overlap nor have images that do
  (`Apart`) is injective; both tables are apart, so no key's release can end
  another key's press; of the 120 keys two have no name in ImGui.
  The edges: `TypeOK` and `EdgesMatchTheMap` are inductive together, given that
  `Fold` returns a key map whatever the events are.
  The way of the events: what waits is with its own side (`OnTheWay`), and a
  step adds events at a queue's end, hands over all that waits, or moves
  nothing; `EveryEventInOneFrame` and the refinement `UsesAgentQueue` follow.
  `NothingSticks`: the key map is the fold of every record so far
  (`MapIsTheFold`), so a press that stands in it stands for one of the
  producers; the window's queue has a release after a loss of focus for all it
  held (`LetsGo`); and what ImGui will hold once its queue is worked off
  follows the key map event by event (`UiFollowsTheMap`), a frame that takes
  part of the queue changing nothing about it but to let go.
- `FramesInFlightProofs`. Four accounts and the types are inductive together: a
  reset fence goes with the one submission of its frame (`FencesTell`); the
  chain is as long as there are semaphores, and the frame's image is its own
  (`ImagesAreHeld`); a semaphore that is not free belongs to a submission, a
  queued image or the frame at hand (`SemaphoresTell`); a frame knows the
  window's size or the event waits (`SizesAreKnown`). Early returns leave them
  broken only when no frame follows (`Over`).
- `RunFilesProofs`. The channel's name: runs with a channel at one time have
  met; one that met nobody finds the name free until it binds it and has it
  from then on; the name on disk is of a run that uses it, was killed, or met
  another. Most steps are not about the name at all (`Calm`).
  The logs: unless two runs prune at one time, pruning leaves room for one
  (`RoomForOne`). A run's log is there, with what it warned about, until newer
  logs or one named alike push it out (`LogsLast`), and what is pushed out
  stays so (`PushedOutForGood`).
  The pictures: before the key of a client without company, it knows every
  picture there is and none is coming (`NothingComing`); from its key on one run
  at most has a picture to make, and what is new in the directory is the
  client's (`OnlyItsOwn`).
  The settings: what is on disk is the last run's write (`LastWriteStands`), a
  frame ends with the scale it shows saved (`SavedIsShown`), and what the next
  run may expect is what is there (`ExpectedIsOnDisk`).
- `WorldProofs`. `ViewCanBeProjected` from how the view is extracted.
  `EditsReachTheirTarget`: an edit in hand is of one kind and goes by the id
  of its target's widget (`WhatIsEdited`), which no other entity's has.
  `DraggingTurnsOneAngle`: while a box is dragged its row shows the triple the
  user has said, and is not read back from the quaternion (`HeldIsSaid`).
  `DrawnAsEdited`: the catalog knows each upload by its place and a path
  that failed by the handle of none (`CatalogKnowsUploads`), each path of the
  frame has been asked for before the extraction (`AllAsked`), and a list by id
  has every entity once (`EntitiesListedOnce`).
  `ChoiceIsTheCallers`: the sweep ends with a candidate if there is one, and with
  the one that beats all others if there is such a one (`SweepFinds`), since what
  takes over from it would beat it and be beaten by it. So the answer follows
  from the set of candidates alone (`ChoiceByTheSet`).

An induction theorem with an operator parameter cannot be instantiated by the
provers at hand, so induction is over sets: a set of numbers, or of sequences,
that has the first and with each the next has all (`InductionUpTo`,
`InductionByAppend`). It rests on `LeastElement`, and this on the
well-foundedness of finite sets. The modules that need these lemmas each begin
with them. Each recursive function (`Fold`, `By`, `SubmitPlatformEvents`,
`HeldAfter`, `ById`, `Sweep`) is first shown to exist, then to be what its
recursion says.

The assumptions are what the code's types give: counts that are positive
(`MaximumFiles`, `RightAngle`), and numbers where the code has numbers (`Scales`,
`Distances`). `EngineLifecycle` assumes of its machines what no code checks:

- a texture has between one mip level and 32 (`TextureAssumption`): the sides
  that `CreateTextureImage` takes the levels from are 32-bit and a decoded
  image has a pixel; the framebuffer's sides are numbers (`SizeAssumption`);
- a surface's limits are in order, it offers the mode that waits for the blank
  and images to draw into (`SurfaceAssumption`), and an attachment may have one
  sample (`SampleAssumption`): Vulkan requires this of every implementation,
  and the code falls back on it;
- a machine is asked for presentation or not and for rendering or not
  (`CapabilityAssumption`).

Only model-checked:

- Liveness, which TLAPS does not reach: that `Stop` ends, that clients are
  served, that a close ends the loop, that each step returns.
- `PanelEditsWhatItMay`, since `DebugPanel` recurs over types of any depth
  with RECURSIVE operators, which the prover cannot use.

## Not modelled

- Of the renderer: what shaders, vertices and uniforms contain; pipeline state
  that nothing later depends on.
- Image and mesh decoders, PNG encoding, mathematics but for Euler angles:
  sequential functions of their input, which the tests reach.
- Of reflection: the consteval builders, which run in the compiler; maps and
  numeric conversion; invoking functions.
- Of the debug UI: modifiers, characters, the clipboard, pointer shapes but
  for the making of cursors.
- Of the log: formatting, the console, the interning of names.
- The reflection scratch project, the native AOT sample, benchmarks, tests,
  build scripts: not part of the running program.

## Left to do

The clipboard and the window's other calls; invoking reflected functions.
