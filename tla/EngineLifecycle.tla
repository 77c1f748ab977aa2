-------------------------- MODULE EngineLifecycle --------------------------
(***************************************************************************)
(* PlaygroundEngine/src/Engine.cpp: Boot, Run and Shutdown with everything *)
(* they construct, use and destroy: the window server, the window, the     *)
(* debug UI, and through RendererCalls every Vulkan object of the renderer.*)
(* Any call of the window system or of Vulkan may fail; the error travels  *)
(* up as the code passes it, the locals constructed so far are destroyed   *)
(* in reverse order, and a failed boot or frame ends in Shutdown.          *)
(* The GPU is as slow as can be: work ends only when it is waited for.     *)
(***************************************************************************)
EXTENDS RendererCalls

CONSTANTS
    Hosts,         \* machines: loader, devices, memory, the surface at boot and later on
    Capabilities,  \* records [presentation, rendering]
    FramebufferSizes,
    MaxFrames,     \* bound: the last frame brings a close request
    MaxFailures    \* bound: calls that fail though they need not

\* A texture has a pixel at least, and its sides are 32-bit numbers.
ASSUME TextureAssumption ==
    \A h \in Hosts : h.texture \in [1..2 -> Nat] /\ MipLevels(h.texture) \in 1..32

\* What Vulkan promises of every surface: its limits are in order, it can wait
\* for the vertical blank, and its images can be drawn into.
ASSUME SurfaceAssumption ==
    \A h \in Hosts : \A surface \in {h.surface} \cup h.surfaces :
        /\ surface.minExtent \in [1..2 -> Nat] /\ surface.maxExtent \in [1..2 -> Nat]
        /\ \A i \in 1..2 : surface.minExtent[i] <= surface.maxExtent[i]
        /\ surface.minCount \in Nat /\ surface.maxCount \in Nat
        /\ surface.maxCount = 0 \/ surface.minCount <= surface.maxCount
        /\ "fifo" \in surface.modes /\ "colour" \in surface.usages

\* And of every device: an attachment may have a single sample.
ASSUME SampleAssumption ==
    \A h \in Hosts : \A i \in 1 .. Len(h.devices) :
        1 \in h.devices[i].colourSamples \cap h.devices[i].depthSamples

ASSUME SizeAssumption == FramebufferSizes \subseteq [1..2 -> Nat]

ASSUME CapabilityAssumption == Capabilities \subseteq [presentation : BOOLEAN, rendering : BOOLEAN]

VARIABLES
    host, capabilities,
    phase,      \* boot, run, shutdown, done
    running,    \* _running
    todo,       \* the steps ahead
    locals,     \* local objects, in order of construction
    members,    \* objects owned by the engine and the renderer
    needs,      \* object -> the objects it was made from
    inUse,      \* objects that submitted work refers to
    images,     \* subresource -> its state
    chain,      \* what the swap chain was made from
    lost,       \* a wait has failed: the device is lost
    failures, frames

vars == <<host, capabilities, phase, running, todo, locals, members, needs, inUse,
          images, chain, lost, failures, frames>>

\* What each object is constructed from.
Needs ==
    [server |-> {}, window |-> {"server"}, cursor |-> {"server"}, ui |-> {"server"},
     uiFrame |-> {"ui"}, channel |-> {}, ecs |-> {}, app |-> {},
     instance |-> {}, messenger |-> {"instance"}, surface |-> {"instance", "window"},
     device |-> {"instance"}, swapChain |-> {"device", "surface"}, swapViews |-> {"swapChain"},
     msaa |-> {"device"}, msaaView |-> {"msaa"}, depth |-> {"device"}, depthView |-> {"depth"},
     setLayout |-> {"device"}, pipelineLayout |-> {"setLayout"}, shaders |-> {"device"},
     pipeline |-> {"device"}, commandPool |-> {"device"}, single |-> {"commandPool"},
     staging |-> {"device"}, readback |-> {"device"}, vertices |-> {"device"},
     indices |-> {"device"}, texture |-> {"device"}, textureView |-> {"texture"},
     sampler |-> {"device"}, uniforms |-> {"device"}, descriptorPool |-> {"device"},
     descriptorSets |-> {"descriptorPool"}, commandBuffers |-> {"commandPool"},
     renderFinished |-> {"device"}, presentComplete |-> {"device"}, fences |-> {"device"},
     backend |-> {"device", "ui"}]

-----------------------------------------------------------------------------
(* Engine.cpp, DebugUI.cpp and WindowServer as steps.                      *)

BootPresentation == Make("server") \o Adopt \o Make("window") \o Adopt

\* DebugUi's constructor reads the window's scale, sets the clipboard up and
\* loads its settings; a shipping build's does nothing.
BootDebugUi(h) == IF h.dev THEN Surely({"window"}) \o Own("ui") \o Adopt ELSE <<>>

BootRendering(h, presentation, framebufferSize) ==
    Needed(presentation) \o BootDebugUi(h) \o Create(h, framebufferSize)
    \o (IF h.dev THEN InitializeDebugUiBackend ELSE <<>>)

\* A channel that does not open is no reason to fail.
StartIfRequested == Choose(<<<<>>, Guarded(Make("channel") \o Adopt, <<>>)>>)

Boot(h, c, framebufferSize) ==
    (IF c.presentation THEN BootPresentation ELSE <<>>)
    \o (IF c.rendering THEN BootRendering(h, c.presentation, framebufferSize) ELSE <<>>)
    \o StartIfRequested \o Own("ecs") \o Own("app") \o Adopt
    \o Catch(Stop)

\* ~WindowServer: the windows with their cursors, then the connection.
ReleaseWindowServer == Release("cursor") \o Release("window") \o Release("server")

\* Mutant: the debug UI is left to the engine's destructor.
ShutdownWithoutUi(has) ==
    Release("channel") \o Release("app") \o Release("ecs")
    \o (IF "fences" \in has THEN Teardown \o ReleaseMembers ELSE <<>>)
    \o ReleaseWindowServer

\* Destroying the debug UI saves its settings first.
Shutdown(has) ==
    Release("channel") \o Release("app") \o Release("ecs")
    \o (IF "fences" \in has THEN Teardown \o ReleaseMembers ELSE <<>>)
    \o (IF "ui" \in has THEN Surely({"ui"}) \o Release("ui") ELSE <<>>)
    \o ReleaseWindowServer

BeginFrame(has) ==
    IF {"ui", "window"} \subseteq has
    THEN Surely({"window"} \cup ({"backend"} \cap has)) \o Own("uiFrame") ELSE <<>>

\* The settings panel and the simulation draw inside the frame.
EndFrame(has) ==
    IF "ui" \in has THEN Surely({"uiFrame"}) \o Drop("uiFrame") ELSE <<>>

\* A shape that is new to the window makes its cursor; one the theme lacks
\* leaves the system's.
SetCursorShape(has) ==
    IF "window" \notin has THEN <<>>
    ELSE Choose(<<<<>>, IF "cursor" \in has THEN Surely({"cursor"}) ELSE Own("cursor") \o Adopt>>)

\* A mesh that cannot be loaded is logged; see World for the catalog.
SyncMeshCatalog(h, has) ==
    IF "vertices" \in has THEN <<>> ELSE Choose(<<<<>>, Guarded(AcquireMesh(h), <<>>)>>)

RunStep(h, has, size, surface, closing) ==
    Surely({"server"} \cap has) \o (IF closing THEN Stop ELSE <<>>)
    \o BeginFrame(has) \o Surely({"app", "ecs"}) \o EndFrame(has) \o SetCursorShape(has)
    \o (IF "fences" \in has
        THEN SyncMeshCatalog(h, has) \o DrawFrame(h, surface, size, chain, has) ELSE <<>>)
    \o (IF "server" \in has THEN <<>> ELSE Stop)
    \o Catch(Stop)

-----------------------------------------------------------------------------
(* Running the steps.  An object is a name and a number that tells a new   *)
(* one from the one it replaces.                                           *)

Alive == DOMAIN needs
step == Head(todo)
Succeed == FALSE \in step.fails
Doing(op) == todo # <<>> /\ step.op = op /\ Succeed

\* The object a name stands for: the last local of that name, else the member.
LocalAt(name) == SelectLastInSeq(locals, LAMBDA o : o[1] = name)
Local(name) == IF LocalAt(name) = 0 THEN {} ELSE {locals[LocalAt(name)]}
Member(name) == {o \in members : o[1] = name}
Bound(name) == IF Local(name) # {} THEN Local(name) ELSE Member(name)
Bounds(names) == UNION {Bound(name) : name \in names}

Name == CHOOSE name \in step.on : TRUE
Has == {o[1] : o \in members}

Init ==
    /\ host \in Hosts /\ capabilities \in Capabilities
    /\ phase = "boot" /\ running = TRUE
    /\ \E size \in FramebufferSizes : todo = Boot(host, capabilities, size)
    /\ locals = <<>> /\ members = {} /\ needs = <<>> /\ inUse = {}
    /\ images = <<>> /\ chain = <<>>
    /\ lost = FALSE /\ failures = 0 /\ frames = 0

given == <<host, capabilities, phase, frames>>

MakeObject ==
    /\ Doing("make")
    /\ LET taken == {p[2] : p \in {p \in Alive : p[1] = Name}}
           o == <<Name, Min((0 .. Cardinality(Alive)) \ taken)>> IN
       /\ locals' = Append(locals, o)
       /\ needs' = [p \in Alive \cup {o} |-> IF p = o THEN Bounds(Needs[Name]) ELSE needs[p]]
    /\ todo' = Tail(todo)
    /\ UNCHANGED <<given, running, members, inUse, images, chain, lost, failures>>

CallObject ==
    /\ Doing("call")
    /\ todo' = Tail(todo)
    /\ UNCHANGED <<given, running, locals, members, needs, inUse, images, chain, lost, failures>>

SubmitWork ==
    /\ Doing("submit")
    /\ inUse' = inUse \cup Bounds(step.on)
    /\ todo' = Tail(todo)
    /\ UNCHANGED <<given, running, locals, members, needs, images, chain, lost, failures>>

WaitForWork ==
    /\ Doing("wait")
    /\ inUse' = {}
    /\ images' = [i \in DOMAIN images |-> Available(images[i])]
    /\ todo' = Tail(todo)
    /\ UNCHANGED <<given, running, locals, members, needs, chain, lost, failures>>

AccessImage ==
    /\ LET i == step.with.image IN
       \/ /\ Doing("image")
          /\ images' = [j \in DOMAIN images \cup {i} |->
                           IF j = i THEN NewImage(step.with.extent) ELSE images[j]]
       \/ /\ Doing("transition")
          /\ images' = [images EXCEPT ![i] = Transitioned(@, step.with)]
       \/ /\ Doing("use")
          /\ images' = [images EXCEPT ![i] = Used(@, step.with)]
       \/ Doing("present") /\ UNCHANGED images
    /\ todo' = Tail(todo)
    /\ UNCHANGED <<given, running, locals, members, needs, inUse, chain, lost, failures>>

\* What a step destroys: a local that is dropped, a member that is released or
\* moved over.  A name that stands for nothing is a null object.
Destroyed == IF step.op = "drop" THEN Local(Name) ELSE Member(Name)

Destroy ==
    /\ Doing("drop") \/ Doing("release") \/ Doing("replace")
    /\ needs' = [o \in Alive \ Destroyed |-> needs[o]]
    /\ locals' = IF step.op = "release" \/ LocalAt(Name) = 0 THEN locals
                 ELSE RemoveAt(locals, LocalAt(Name))
    /\ members' = CASE step.op = "drop"    -> members
                    [] step.op = "release" -> members \ Destroyed
                    [] step.op = "replace" -> (members \ Destroyed) \cup Local(Name)
    /\ todo' = Tail(todo)
    /\ UNCHANGED <<given, running, inUse, images, chain, lost, failures>>

AdoptLocals ==
    /\ Doing("adopt")
    /\ members' = members \cup Range(locals) /\ locals' = <<>>
    /\ todo' = Tail(todo)
    /\ UNCHANGED <<given, running, needs, inUse, images, chain, lost, failures>>

NoteChain ==
    /\ Doing("chain")
    /\ chain' = step.with /\ todo' = Tail(todo)
    /\ UNCHANGED <<given, running, locals, members, needs, inUse, images, lost, failures>>

RequestStop ==
    /\ Doing("stop")
    /\ running' = FALSE /\ todo' = Tail(todo)
    /\ UNCHANGED <<given, locals, members, needs, inUse, images, chain, lost, failures>>

Decide ==
    /\ Doing("choose")
    /\ \E i \in DOMAIN step.with : todo' = step.with[i] \o Tail(todo)
    /\ UNCHANGED <<given, running, locals, members, needs, inUse, images, chain, lost, failures>>

\* Nothing failed before it.
PassCatch ==
    /\ Doing("catch")
    /\ todo' = Tail(todo)
    /\ UNCHANGED <<given, running, locals, members, needs, inUse, images, chain, lost, failures>>

\* The locals go in reverse order of construction.
Unwind == [i \in DOMAIN locals |-> Head(Drop(Reverse(locals)[i][1]))]

\* The functions in between return the error they were given, each destroying
\* its locals, up to the one that handles it.
Fail ==
    /\ todo # <<>> /\ TRUE \in step.fails
    /\ IF Succeed THEN failures < MaxFailures /\ failures' = failures + 1
                  ELSE UNCHANGED failures
    /\ LET catch == SelectInSeq(todo, LAMBDA s : s.op = "catch")
           handled == todo[catch].with \o SubSeq(todo, catch + 1, Len(todo))
       IN todo' = Unwind \o handled
    /\ lost' = (lost \/ step.op = "wait")
    /\ UNCHANGED <<given, running, locals, members, needs, inUse, images, chain>>

StartRun ==
    /\ phase = "boot" /\ todo = <<>> /\ running
    /\ phase' = "run"
    /\ UNCHANGED <<host, capabilities, running, todo, locals, members, needs, inUse, images,
                   chain, lost, failures, frames>>

NextFrame ==
    /\ phase = "run" /\ todo = <<>> /\ running
    /\ frames' = frames + 1
    /\ \E size \in FramebufferSizes, surface \in host.surfaces, closing \in BOOLEAN :
          /\ frames' = MaxFrames => closing
          /\ todo' = RunStep(host, Has, size, surface, closing)
    /\ UNCHANGED <<host, capabilities, phase, running, locals, members, needs, inUse, images,
                   chain, lost, failures>>

BeginShutdown ==
    /\ phase \in {"boot", "run"} /\ todo = <<>> /\ ~running
    /\ phase' = "shutdown" /\ todo' = Shutdown(Has)
    /\ UNCHANGED <<host, capabilities, running, locals, members, needs, inUse, images, chain,
                   lost, failures, frames>>

Exit ==
    /\ phase = "shutdown" /\ todo = <<>>
    /\ phase' = "done"
    /\ UNCHANGED <<host, capabilities, running, todo, locals, members, needs, inUse, images,
                   chain, lost, failures, frames>>

Terminated == phase = "done" /\ UNCHANGED vars

Next ==
    \/ MakeObject \/ CallObject \/ SubmitWork \/ WaitForWork \/ AccessImage \/ Destroy
    \/ AdoptLocals \/ NoteChain \/ RequestStop \/ Decide \/ PassCatch \/ Fail
    \/ StartRun \/ NextFrame \/ BeginShutdown \/ Exit \/ Terminated

Spec == Init /\ [][Next]_vars

-----------------------------------------------------------------------------
(* Properties.                                                             *)

\* No object outlives one it was made from, and no step names an object that
\* is not there: the order members are declared in, the order locals unwind
\* in, the order of Shutdown and what a half-done boot or a half-done new swap
\* chain leaves behind all have to agree.
UsersGoFirst ==
    /\ \A o \in Alive : needs[o] \subseteq Alive
    /\ \A o \in Alive : Cardinality(needs[o]) = Cardinality(Needs[o[1]])
    /\ todo # <<>> /\ step.op \notin {"make", "drop", "release"}
          => \A name \in step.on : (IF step.op = "replace" THEN Local(name) ELSE Bound(name)) # {}

\* Nothing the GPU may still read or write is destroyed, unless a wait failed
\* and with it the device.
GpuDoneFirst ==
    todo # <<>> /\ step.op \in {"drop", "release", "replace"} /\ ~lost
        => Destroyed \cap inUse = {}

\* Every access of an image finds it in the layout it names, after a barrier or
\* a wait that orders it behind the writes before it and inside its bounds:
\* across uploads, mip levels, two rendering passes, a capture between submit
\* and present, and chains of different sizes.
ImagesAccessedInOrder ==
    todo # <<>> =>
        LET i == step.with.image IN
        CASE step.op = "transition" -> TransitionAllowed(images[i], step.with)
          [] step.op = "use"        -> UseAllowed(images[i], step.with)
          [] step.op = "present"    -> images[i].layout = "present"
          [] OTHER                  -> TRUE

\* However the boot went and whatever failed since, main returns with every
\* object destroyed.
NothingOutlivesTheRun == phase = "done" => Alive = {} /\ members = {}

\* A renderer that came up runs on a device, a depth format, a sample count and
\* a swap chain the machine really offers, and a capture reads no more than its
\* buffer holds from an image that allows it.
ChoicesLegal ==
    /\ "fences" \in Has =>
          LegalDevice(Device(host), FindGraphicsPresentQueueFamily(Device(host)),
                      FindDepthFormat(Device(host)), GetMaxUsableSampleCount(Device(host)))
    /\ Bound("swapViews") # {} => LegalSwapChain(chain.surface, chain.choice)
    /\ Doing("use") /\ "readback" \in {o[1] : o \in Range(locals)} =>
          /\ "transferSource" \in chain.choice.usage
          /\ BytesPerPixel(SelectSurfaceFormat(host.surface.formats)) <= 4
=============================================================================
