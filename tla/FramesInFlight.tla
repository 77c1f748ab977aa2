--------------------------- MODULE FramesInFlight ---------------------------
(***************************************************************************)
(* PlaygroundEngine/src/Renderer: DrawFrame and RecreateSwapChain, called  *)
(* once per Engine::RunStep on the main thread, with the frames the GPU is *)
(* still working on, the images the presentation engine still holds, the   *)
(* window being resized and minimized under all three, and the capture     *)
(* request FrameCapture files before the frame is drawn.                   *)
(*                                                                         *)
(* Of Vulkan there is what the code relies on: a fence, or a semaphore, is *)
(* signalled when the work it belongs to ends; waitIdle returns when no    *)
(* submission and no semaphore wait of a present is outstanding; an image  *)
(* can be acquired when nobody holds it.  Submissions may end in any order.*)
(* Every call that can fail may fail.                                      *)
(***************************************************************************)
EXTENDS Naturals

CONSTANTS
    MaxFramesInFlight,  \* RendererVulkan's constant, 2 in the code
    ImageCounts,        \* numbers of images a swap chain may come with
    Sizes,              \* drawable sizes of a window that is not minimized
    NoImage             \* no swap chain image

ASSUME FramesAssumption ==
    /\ MaxFramesInFlight \in Nat \ {0}
    /\ ImageCounts \subseteq Nat \ {0} /\ ImageCounts # {}
    /\ Sizes # {} /\ NoImage \notin Nat

Frames == 0..(MaxFramesInFlight - 1)

VARIABLES
    main,             \* where the main thread is in RunStep
    running,          \* _running
    frameIndex,       \* _frameIndex
    fence,            \* _inFlightFences: [Frames -> signalled?]
    presentComplete,  \* _presentCompleteSemaphores: [Frames -> Semaphore]
    renderFinished,   \* _renderFinishedSemaphores: [1..n -> Semaphore]
    image,            \* imageIndex, while the frame owns the image
    chain,            \* _swapChainImages
    chainSize,        \* _swapChainExtent
    resized,          \* _framebufferResized
    frameSize,        \* the framebufferSize DrawFrame was called with
    capture,          \* _pendingCapturePath: filed this step, earlier, or none
    inFlight,         \* submissions the GPU has not finished
    presenting,       \* images queued for presentation
    displayed,        \* the image on the screen
    size,             \* the window's drawable size, when not minimized
    minimized,
    resizeQueued      \* a WindowResized event waits for the next pump

drawVars == <<frameIndex, fence, presentComplete, renderFinished, image, chain, chainSize>>
gpuVars == <<inFlight, presenting, displayed>>
windowVars == <<size, minimized, resizeQueued>>
vars == <<main, running, drawVars, resized, frameSize, capture, gpuVars, windowVars>>

\* A semaphore is free, has its signal queued, or is signalled and not yet
\* waited on.
Semaphore == {"free", "queued", "signalled"}

Submission == [frame : Frames, image : Nat]

Init ==
    /\ main = "step" /\ running = TRUE
    /\ frameIndex = 0
    /\ fence = [f \in Frames |-> TRUE]
    /\ presentComplete = [f \in Frames |-> "free"]
    /\ \E n \in ImageCounts :
          /\ chain = 1..n
          /\ renderFinished = [i \in 1..n |-> "free"]
    /\ image = NoImage
    /\ size \in Sizes /\ chainSize = size /\ frameSize = size
    /\ minimized = FALSE /\ resizeQueued = FALSE
    /\ resized = FALSE /\ capture = "none"
    /\ inFlight = {} /\ presenting = {} /\ displayed = NoImage

-----------------------------------------------------------------------------
(* The window, the GPU and the presentation engine.                        *)

Resize ==
    /\ size' \in Sizes \ {size}
    /\ resizeQueued' = TRUE
    /\ UNCHANGED <<main, running, drawVars, resized, frameSize, capture, gpuVars, minimized>>

\* Minimizing and restoring need not be reported as a change of size.
MinimizeOrRestore ==
    /\ minimized' = ~minimized
    /\ UNCHANGED <<main, running, drawVars, resized, frameSize, capture, gpuVars, size, resizeQueued>>

FinishSubmission ==
    \E s \in inFlight :
        /\ presentComplete[s.frame] = "signalled"
        /\ presentComplete' = [presentComplete EXCEPT ![s.frame] = "free"]
        /\ renderFinished' = [renderFinished EXCEPT ![s.image] = "signalled"]
        /\ fence' = [fence EXCEPT ![s.frame] = TRUE]
        /\ inFlight' = inFlight \ {s}
        /\ UNCHANGED <<main, running, frameIndex, image, chain, chainSize, resized, frameSize,
                       capture, presenting, displayed, windowVars>>

\* An image that was presented is shown, or passed over for a newer one.
Show ==
    \E i \in presenting :
        /\ renderFinished[i] = "signalled"
        /\ renderFinished' = [renderFinished EXCEPT ![i] = "free"]
        /\ presenting' = presenting \ {i}
        /\ displayed' \in {i, displayed}
        /\ UNCHANGED <<main, running, frameIndex, fence, presentComplete, image, chain, chainSize,
                       resized, frameSize, capture, inFlight, windowVars>>

Available == chain \ (presenting \cup {displayed, image})
Idle == inFlight = {} /\ presenting = {}

-----------------------------------------------------------------------------
(* The main thread.                                                        *)

\* RunStep up to the draw: the pump, the resize notification, and the capture
\* request, which displaces one that is still pending.
BeginStep ==
    /\ main = "step" /\ running
    /\ main' = "draw"
    /\ resized' = (resized \/ resizeQueued)
    /\ resizeQueued' = FALSE
    /\ capture' \in {"filed", IF capture = "none" THEN "none" ELSE "waiting"}
    /\ running' \in BOOLEAN
    /\ UNCHANGED <<drawVars, frameSize, gpuVars, size, minimized>>

\* Mutant: the early return takes the resize for handled.
DrawForgetsResize ==
    /\ main = "draw"
    /\ IF minimized
       THEN main' = "step" /\ resized' = FALSE /\ UNCHANGED frameSize
       ELSE main' = "fence" /\ frameSize' = size /\ UNCHANGED resized
    /\ UNCHANGED <<running, drawVars, capture, gpuVars, windowVars>>

\* DrawFrame's size, and its return for a minimized window.
Draw ==
    /\ main = "draw"
    /\ IF minimized
       THEN main' = "step" /\ UNCHANGED frameSize
       ELSE main' = "fence" /\ frameSize' = size
    /\ UNCHANGED <<running, drawVars, resized, capture, gpuVars, windowVars>>

\* Mutant: the fence is reset as soon as it was waited for.
WaitForFenceAndReset ==
    /\ main = "fence"
    /\ fence[frameIndex]
    /\ fence' = [fence EXCEPT ![frameIndex] = FALSE]
    /\ main' = "acquire"
    /\ UNCHANGED <<running, frameIndex, presentComplete, renderFinished, image, chain, chainSize,
                   resized, frameSize, capture, gpuVars, windowVars>>

WaitForFence ==
    /\ main = "fence"
    /\ fence[frameIndex]
    /\ main' = "acquire"
    /\ UNCHANGED <<running, drawVars, resized, frameSize, capture, gpuVars, windowVars>>

\* acquireNextImage: an image (eSuboptimalKHR gives one too), or out of date.
AcquireImage ==
    /\ main = "acquire"
    /\ image' \in Available
    /\ presentComplete' = [presentComplete EXCEPT ![frameIndex] = "signalled"]
    /\ main' = "record"
    /\ UNCHANGED <<running, frameIndex, fence, renderFinished, chain, chainSize, resized,
                   frameSize, capture, gpuVars, windowVars>>

OutOfDate ==
    /\ main = "acquire"
    /\ main' = "recreate"
    /\ UNCHANGED <<running, drawVars, resized, frameSize, capture, gpuVars, windowVars>>

\* Mutant: the fence keeps the signal of the frame before.
RecordForgetsReset ==
    /\ main = "record"
    /\ main' = "submit"
    /\ UNCHANGED <<running, drawVars, resized, frameSize, capture, gpuVars, windowVars>>

\* resetFences, UpdateUniformBuffer and RecordCommandBuffer: everything here
\* writes what belongs to the frame index.
Record ==
    /\ main = "record"
    /\ fence' = [fence EXCEPT ![frameIndex] = FALSE]
    /\ main' = "submit"
    /\ UNCHANGED <<running, frameIndex, presentComplete, renderFinished, image, chain, chainSize,
                   resized, frameSize, capture, gpuVars, windowVars>>

\* Mutant: only a capture filed in this step is served.
SubmitServesFiledOnly ==
    /\ main = "submit"
    /\ inFlight' = inFlight \cup {[frame |-> frameIndex, image |-> image]}
    /\ renderFinished' = [renderFinished EXCEPT ![image] = "queued"]
    /\ main' = IF capture = "filed" THEN "capture" ELSE "present"
    /\ UNCHANGED <<running, frameIndex, fence, presentComplete, image, chain, chainSize, resized,
                   frameSize, capture, presenting, displayed, windowVars>>

Submit ==
    /\ main = "submit"
    /\ inFlight' = inFlight \cup {[frame |-> frameIndex, image |-> image]}
    /\ renderFinished' = [renderFinished EXCEPT ![image] = "queued"]
    /\ main' = IF capture # "none" THEN "capture" ELSE "present"
    /\ UNCHANGED <<running, frameIndex, fence, presentComplete, image, chain, chainSize, resized,
                   frameSize, capture, presenting, displayed, windowVars>>

\* The request is taken, whatever comes of it: the picture is read from an
\* image whose rendering has ended, or the failure is only logged.
Capture ==
    /\ main = "capture"
    /\ Idle
    /\ capture' = "none"
    /\ main' = "present"
    /\ UNCHANGED <<running, drawVars, resized, frameSize, gpuVars, windowVars>>

CaptureFails ==
    /\ main = "capture"
    /\ capture' = "none"
    /\ main' = "present"
    /\ UNCHANGED <<running, drawVars, resized, frameSize, gpuVars, windowVars>>

\* presentKHR, then the swap chain if it or the window has asked for one.
Present ==
    /\ main = "present"
    /\ presenting' = presenting \cup {image}
    /\ image' = NoImage
    /\ frameIndex' = (frameIndex + 1) % MaxFramesInFlight
    /\ \/ main' = "recreate" /\ resized' = FALSE
       \/ ~resized /\ main' = "step" /\ UNCHANGED resized
    /\ UNCHANGED <<running, fence, presentComplete, renderFinished, chain, chainSize, frameSize,
                   capture, inFlight, displayed, windowVars>>

\* Mutant: the old chain goes while the GPU still works on it.
ReleaseWithoutWait ==
    /\ main = "recreate"
    /\ chain' = {}
    /\ displayed' = NoImage
    /\ main' = "build"
    /\ UNCHANGED <<running, frameIndex, fence, presentComplete, renderFinished, image, chainSize,
                   resized, frameSize, capture, inFlight, presenting, windowVars>>

\* RecreateSwapChain, first half: wait for the device, let the old chain go.
Release ==
    /\ main = "recreate"
    /\ Idle
    /\ chain' = {}
    /\ displayed' = NoImage
    /\ main' = "build"
    /\ UNCHANGED <<running, frameIndex, fence, presentComplete, renderFinished, image, chainSize,
                   resized, frameSize, capture, inFlight, presenting, windowVars>>

\* Mutant: the semaphores stay as many as they were.
BuildKeepsSemaphores ==
    /\ main = "build"
    /\ \E n \in ImageCounts : chain' = 1..n
    /\ chainSize' \in {frameSize, size}
    /\ main' = "step"
    /\ UNCHANGED <<running, frameIndex, fence, presentComplete, renderFinished, image, resized,
                   frameSize, capture, gpuVars, windowVars>>

\* Second half: the extent is the surface's own or the size DrawFrame was given,
\* and the semaphores indexed by image are replaced if there are now more or fewer.
Build ==
    /\ main = "build"
    /\ \E n \in ImageCounts :
          /\ chain' = 1..n
          /\ renderFinished' = IF DOMAIN renderFinished = 1..n THEN renderFinished
                               ELSE [i \in 1..n |-> "free"]
    /\ chainSize' \in {frameSize, size}
    /\ main' = "step"
    /\ UNCHANGED <<running, frameIndex, fence, presentComplete, image, resized, frameSize,
                   capture, gpuVars, windowVars>>

\* DrawFrame's early error returns.  RunStep answers each with RequestStop, and
\* nothing is undone: the fence may be reset, the image stays acquired, a new
\* chain may stand beside the old semaphores.
DrawFails ==
    /\ main \in {"fence", "acquire", "record", "submit", "recreate", "build"}
    /\ fence' \in IF main = "record" THEN {fence, [fence EXCEPT ![frameIndex] = FALSE]} ELSE {fence}
    /\ chain' \in IF main = "build" THEN {chain} \cup {1..n : n \in ImageCounts} ELSE {chain}
    /\ chainSize' \in IF chain' = chain THEN {chainSize} ELSE {frameSize, size}
    /\ main' = "step"
    /\ running' = FALSE
    /\ UNCHANGED <<frameIndex, presentComplete, renderFinished, image, resized, frameSize,
                   capture, gpuVars, windowVars>>

\* presentKHR fails for another reason, and no resize asks for a rebuild: the
\* error is returned after the frame index has moved on.
PresentFails ==
    /\ main = "present"
    /\ ~resized
    /\ frameIndex' = (frameIndex + 1) % MaxFramesInFlight
    /\ main' = "step"
    /\ running' = FALSE
    /\ UNCHANGED <<fence, presentComplete, renderFinished, image, chain, chainSize, resized,
                   frameSize, capture, gpuVars, windowVars>>

\* The renderer's destructor, once the run is over.
Teardown ==
    /\ main = "step" /\ ~running
    /\ inFlight = {}
    /\ chain' = {} /\ image' = NoImage /\ displayed' = NoImage /\ presenting' = {}
    /\ main' = "gone"
    /\ UNCHANGED <<running, frameIndex, fence, presentComplete, renderFinished, chainSize, resized,
                   frameSize, capture, inFlight, windowVars>>

Proceed ==
    \/ Draw \/ WaitForFence \/ AcquireImage \/ Record \/ Submit \/ Capture
    \/ Present \/ Release \/ Build
GoWrong == OutOfDate \/ CaptureFails \/ PresentFails \/ DrawFails

Next ==
    \/ Resize \/ MinimizeOrRestore
    \/ FinishSubmission \/ Show
    \/ BeginStep \/ Proceed \/ GoWrong \/ Teardown

\* The main thread runs; the GPU ends what it was given and shows what is
\* presented, so it gives images back.  No call has to fail to get on, and
\* nothing makes the loop go on for ever.
Spec == Init /\ [][Next]_vars
        /\ WF_vars(Proceed) /\ WF_vars(Teardown)
        /\ WF_vars(FinishSubmission) /\ WF_vars(Show)

-----------------------------------------------------------------------------
(* What must hold.                                                         *)

TypeOK ==
    /\ main \in {"step", "draw", "fence", "acquire", "record", "submit", "capture", "present",
                 "recreate", "build", "gone"}
    /\ running \in BOOLEAN
    /\ frameIndex \in Frames
    /\ fence \in [Frames -> BOOLEAN]
    /\ presentComplete \in [Frames -> Semaphore]
    /\ \E n \in ImageCounts : renderFinished \in [1..n -> Semaphore]
    /\ chain = {} \/ \E n \in ImageCounts : chain = 1..n
    /\ image \in Nat \cup {NoImage} /\ displayed \in Nat \cup {NoImage}
    /\ {chainSize, frameSize, size} \subseteq Sizes
    /\ resized \in BOOLEAN /\ resizeQueued \in BOOLEAN /\ minimized \in BOOLEAN
    /\ capture \in {"none", "filed", "waiting"}
    /\ inFlight \subseteq Submission /\ presenting \subseteq Nat

\* While UpdateUniformBuffer and RecordCommandBuffer write the uniform buffer
\* and the command buffer of a frame index, the GPU is reading neither: the
\* fence waited for is that of the last submission that used them.
NoWriteInFlight ==
    main = "record" => \A s \in inFlight : s.frame # frameIndex

\* A semaphore is given to acquireNextImage, or to submit as the one to signal,
\* only with no signal pending on it, and there is one for every image: across
\* frames, chains of another length, and early returns.
SemaphoresUsable ==
    /\ main = "acquire" => presentComplete[frameIndex] = "free"
    /\ main = "submit" => /\ image \in DOMAIN renderFinished
                          /\ renderFinished[image] = "free"

\* No image is destroyed while the GPU draws to it, while it waits to be shown,
\* or while the frame being recorded holds it.
ImagesOutliveTheirUse ==
    /\ \A s \in inFlight : s.image \in chain
    /\ presenting \subseteq chain
    /\ image # NoImage => image \in chain

\* A swap chain of the wrong size is on its way to being replaced: the event is
\* queued, or noticed, or the replacement is under way; or the run is over.
NoResizeForgotten ==
    chainSize # size => \/ resizeQueued \/ resized
                        \/ main \in {"recreate", "build"}
                        \/ ~running

\* "Queues a capture of the next presented frame": a frame is presented only
\* with no capture still asked for.
NextPresentedIsCaptured ==
    [][frameIndex' # frameIndex => capture = "none"]_vars

\* RunStep returns: no frame waits for a fence, an image or an idle device for ever.
StepTerminates == (main = "draw") ~> (main \in {"step", "gone"})

\* "... so the key pressed this frame is served by this frame" (FrameCapture.cppm):
\* no step ends with a capture still pending.
ServedThisFrame == main = "step" /\ running => capture = "none"
=============================================================================
