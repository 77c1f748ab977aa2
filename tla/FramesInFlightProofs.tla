------------------------ MODULE FramesInFlightProofs ------------------------
(***************************************************************************)
(* The renderer's frames for any number of them in flight, swap chains of  *)
(* any lengths, any window sizes, submissions that end in any order, and   *)
(* any call that fails.                                                    *)
(***************************************************************************)
EXTENDS FramesInFlight, TLAPS

\* A frame that failed, or the last one, is behind and none follows: only then
\* are semaphores and images left as an early return left them.
Over == main \in {"step", "gone"} /\ ~running

\* The places where the frame owns an image.
Owning == {"record", "submit", "capture", "present"}

\* A fence is reset while a submission of its frame is in flight, and there is
\* at most one; the frame being recorded has none.
FencesTell ==
    /\ \A s \in inFlight : ~fence[s.frame]
    /\ \A s, t \in inFlight : s.frame = t.frame => s = t
    /\ main \in {"acquire", "record"} => fence[frameIndex]
    /\ main = "submit" => ~fence[frameIndex] /\ \A s \in inFlight : s.frame # frameIndex

\* The chain is as long as there are semaphores for, the frame's image is its
\* own, and nothing is in use while there is no chain.
ImagesAreHeld ==
    /\ ImagesOutliveTheirUse
    /\ main \notin {"build", "gone"} /\ ~Over => chain = DOMAIN renderFinished
    /\ main = "build" => inFlight = {} /\ presenting = {}
    /\ main \in Owning => image \in chain \ presenting
    /\ main \notin Owning => image = NoImage \/ Over

\* A semaphore that is not free belongs to a submission in flight, to an image
\* queued for presentation, or to the frame at hand.
SemaphoresTell ==
    /\ \A f \in Frames : presentComplete[f] # "free" =>
           \/ \E s \in inFlight : s.frame = f
           \/ f = frameIndex /\ main \in {"record", "submit"}
           \/ Over
    /\ \A i \in DOMAIN renderFinished : renderFinished[i] # "free" =>
           \/ i \in presenting
           \/ i = image /\ main \in {"capture", "present"}
           \/ Over
    /\ \A s \in inFlight :
           \/ s.image \in presenting
           \/ s.image = image /\ main \in {"capture", "present"}
           \/ Over
    /\ \A s \in inFlight : s.image \in DOMAIN renderFinished /\ renderFinished[s.image] = "queued"
    /\ \A s, t \in inFlight : s.image = t.image => s = t

\* A frame on its way knows the window's size, or the event is in the queue.
SizesAreKnown ==
    /\ NoResizeForgotten
    /\ main \notin {"step", "draw", "gone"} => frameSize = size \/ resizeQueued

-----------------------------------------------------------------------------
\* Frame indices come round.
LEMMA NextFrame == frameIndex \in Frames => (frameIndex + 1) % MaxFramesInFlight \in Frames
BY FramesAssumption DEF Frames

\* Every variable keeps its type; what is drawn and presented is an image because
\* the frame owns one.
LEMMA StepKeepsTypes ==
    ASSUME TypeOK, ImagesAreHeld, [Next]_vars
    PROVE  TypeOK'
<1> USE FramesAssumption DEF TypeOK, Frames, Semaphore, Submission, Available, Owning,
        ImagesAreHeld, drawVars, gpuVars, windowVars
<1>1. CASE FinishSubmission
  <2>1. PICK n \in ImageCounts : renderFinished \in [1..n -> Semaphore]
    OBVIOUS
  <2>2. renderFinished' \in [1..n -> Semaphore]
    BY <1>1, <2>1 DEF FinishSubmission
  <2> QED
    BY <1>1, <2>2 DEF FinishSubmission
<1>2. CASE Show
  <2>1. PICK n \in ImageCounts : renderFinished \in [1..n -> Semaphore]
    OBVIOUS
  <2>2. renderFinished' \in [1..n -> Semaphore]
    BY <1>2, <2>1, ZenonT(40) DEF Show
  <2> QED
    BY <1>2, <2>2 DEF Show
<1>3. CASE Submit
  <2>1. PICK n \in ImageCounts : renderFinished \in [1..n -> Semaphore]
    OBVIOUS
  <2>2. renderFinished' \in [1..n -> Semaphore]
    BY <1>3, <2>1 DEF Submit
  <2>3. image \in Nat
    BY <1>3 DEF Submit
  <2>4. inFlight' \subseteq Submission
    BY <1>3, <2>3 DEF Submit
  <2> QED
    BY <1>3, <2>2, <2>4 DEF Submit
<1>4. CASE Present
  <2>1. image \in Nat
    BY <1>4 DEF Present
  <2> QED
    BY <1>4, <2>1, NextFrame DEF Present
<1>5. CASE PresentFails
  BY <1>5, NextFrame DEF PresentFails
<1>6. CASE Resize
  BY <1>6 DEF Resize
<1>7. CASE MinimizeOrRestore
  BY <1>7 DEF MinimizeOrRestore
<1>8. CASE BeginStep
  BY <1>8 DEF BeginStep
<1>9. CASE Draw
  BY <1>9 DEF Draw
<1>10. CASE WaitForFence
  BY <1>10 DEF WaitForFence
<1>11. CASE OutOfDate
  BY <1>11 DEF OutOfDate
<1>12. CASE AcquireImage
  BY <1>12 DEF AcquireImage
<1>13. CASE Record
  BY <1>13 DEF Record
<1>14. CASE Capture
  BY <1>14 DEF Capture
<1>15. CASE Release
  BY <1>15 DEF Release
<1>16. CASE Build
  BY <1>16, ZenonT(40) DEF Build
<1>17. CASE CaptureFails
  BY <1>17 DEF CaptureFails
<1>18. CASE DrawFails
  BY <1>18 DEF DrawFails
<1>19. CASE Teardown
  BY <1>19 DEF Teardown
<1>20. CASE UNCHANGED vars
  BY <1>20 DEF vars
<1> QED
  BY <1>1, <1>2, <1>3, <1>4, <1>5, <1>6, <1>7, <1>8, <1>9, <1>10, <1>11,
     <1>12, <1>13, <1>14, <1>15, <1>16, <1>17, <1>18, <1>19, <1>20 DEF Next, Proceed, GoWrong

\* A fence is reset before its frame is submitted and signalled when it has ended.
LEMMA StepKeepsFences ==
    ASSUME TypeOK, FencesTell, [Next]_vars
    PROVE  FencesTell'
<1> USE FramesAssumption DEF TypeOK, FencesTell, Frames, Submission, drawVars, gpuVars,
        windowVars
<1>1. CASE FinishSubmission
  BY <1>1 DEF FinishSubmission
<1>2. CASE Record
  BY <1>2 DEF Record
<1>3. CASE Submit
  BY <1>3 DEF Submit
<1>4. CASE Resize \/ MinimizeOrRestore \/ BeginStep
  BY <1>4 DEF Resize, MinimizeOrRestore, BeginStep
<1>5. CASE Draw \/ WaitForFence \/ OutOfDate
  BY <1>5 DEF Draw, WaitForFence, OutOfDate
<1>6. CASE Show \/ AcquireImage \/ Capture
  BY <1>6 DEF Show, AcquireImage, Capture
<1>7. CASE Present \/ Release \/ Build
  BY <1>7 DEF Present, Release, Build
<1>8. CASE CaptureFails \/ PresentFails \/ DrawFails
  BY <1>8 DEF CaptureFails, PresentFails, DrawFails
<1>9. CASE Teardown
  BY <1>9 DEF Teardown
<1>10. CASE UNCHANGED vars
  BY <1>10 DEF vars
<1> QED
  BY <1>1, <1>2, <1>3, <1>4, <1>5, <1>6, <1>7, <1>8, <1>9, <1>10 DEF Next, Proceed, GoWrong

\* An image is acquired when nobody has it, and a chain is let go when nobody has
\* any of its images.
LEMMA StepKeepsImages ==
    ASSUME TypeOK, ImagesAreHeld, [Next]_vars
    PROVE  ImagesAreHeld'
<1> USE FramesAssumption DEF TypeOK, ImagesAreHeld, ImagesOutliveTheirUse, Over, Owning,
        Available, Idle, Submission, drawVars, gpuVars, windowVars
<1>1. CASE AcquireImage
  BY <1>1 DEF AcquireImage
<1>2. CASE Submit
  BY <1>2 DEF Submit
<1>3. CASE Present
  BY <1>3 DEF Present
<1>4. CASE Release
  BY <1>4 DEF Release
<1>5. CASE Build
  BY <1>5 DEF Build
<1>6. CASE DrawFails
  BY <1>6 DEF DrawFails
<1>7. CASE Resize
  BY <1>7 DEF Resize
<1>8. CASE MinimizeOrRestore
  BY <1>8 DEF MinimizeOrRestore
<1>9. CASE BeginStep
  BY <1>9 DEF BeginStep
<1>10. CASE Draw
  BY <1>10 DEF Draw
<1>11. CASE WaitForFence
  BY <1>11 DEF WaitForFence
<1>12. CASE OutOfDate
  BY <1>12 DEF OutOfDate
<1>13. CASE FinishSubmission
  BY <1>13 DEF FinishSubmission
<1>14. CASE Show
  BY <1>14 DEF Show
<1>15. CASE Record
  BY <1>15 DEF Record
<1>16. CASE Capture
  BY <1>16 DEF Capture
<1>17. CASE CaptureFails
  BY <1>17 DEF CaptureFails
<1>18. CASE PresentFails
  BY <1>18 DEF PresentFails
<1>19. CASE Teardown
  BY <1>19 DEF Teardown
<1>20. CASE UNCHANGED vars
  BY <1>20 DEF vars
<1> QED
  BY <1>1, <1>2, <1>3, <1>4, <1>5, <1>6, <1>7, <1>8, <1>9, <1>10, <1>11,
     <1>12, <1>13, <1>14, <1>15, <1>16, <1>17, <1>18, <1>19, <1>20 DEF Next, Proceed, GoWrong

\* A semaphore is free again when its frame has ended or its image was shown.
LEMMA StepKeepsSemaphores ==
    ASSUME TypeOK, FencesTell, ImagesAreHeld, SemaphoresTell, [Next]_vars
    PROVE  SemaphoresTell'
<1> USE FramesAssumption DEF TypeOK, FencesTell, ImagesAreHeld, ImagesOutliveTheirUse,
        SemaphoresTell, Over, Owning, Available, Idle, Frames, Semaphore, Submission,
        drawVars, gpuVars, windowVars
<1>1. CASE FinishSubmission
  BY <1>1 DEF FinishSubmission
<1>2. CASE Show
  BY <1>2 DEF Show
<1>3. CASE AcquireImage
  BY <1>3 DEF AcquireImage
<1>4. CASE Submit
  <2> DEFINE new == [frame |-> frameIndex, image |-> image]
  <2>1. /\ main = "submit" /\ main' \in {"capture", "present"} /\ inFlight' = inFlight \cup {new}
        /\ renderFinished' = [renderFinished EXCEPT ![image] = "queued"]
        /\ UNCHANGED <<running, frameIndex, presentComplete, image, presenting>>
    BY <1>4 DEF Submit
  <2>2. image \in DOMAIN renderFinished /\ image \notin presenting
    BY <2>1
  <2>3. \A s \in inFlight : s.image # image
    BY <2>1, <2>2
  <2>4. DOMAIN renderFinished' = DOMAIN renderFinished
        /\ \A i \in DOMAIN renderFinished :
               renderFinished'[i] = IF i = image THEN "queued" ELSE renderFinished[i]
    BY <2>1
  <2>5. \A f \in Frames : presentComplete'[f] # "free" =>
            (\E s \in inFlight' : s.frame = f) \/ Over'
    <3> SUFFICES ASSUME NEW f \in Frames, presentComplete[f] # "free"
                 PROVE  \E s \in inFlight' : s.frame = f
      BY <2>1
    <3>1. f = frameIndex \/ \E s \in inFlight : s.frame = f
      BY <2>1
    <3>2. new \in inFlight' /\ new.frame = frameIndex /\ inFlight \subseteq inFlight'
      BY <2>1
    <3> QED
      BY ONLY <3>1, <3>2
  <2>6. \A i \in DOMAIN renderFinished' : renderFinished'[i] # "free" =>
            i \in presenting \/ i = image
    BY <2>1, <2>4
  <2>7. \A s \in inFlight' : /\ s.image \in presenting \/ s.image = image
                            /\ s.image \in DOMAIN renderFinished' /\ renderFinished'[s.image] = "queued"
    BY <2>1, <2>2, <2>3, <2>4
  <2>8. \A s, t \in inFlight' : s.image = t.image => s = t
    BY <2>1, <2>3
  <2> QED
    BY <2>1, <2>5, <2>6, <2>7, <2>8
<1>5. CASE Present
  BY <1>5 DEF Present
<1>6. CASE Build
  BY <1>6 DEF Build
<1>7. CASE Resize \/ MinimizeOrRestore \/ BeginStep
  BY <1>7 DEF Resize, MinimizeOrRestore, BeginStep
<1>8. CASE Draw \/ WaitForFence \/ OutOfDate
  BY <1>8 DEF Draw, WaitForFence, OutOfDate
<1>9. CASE Record \/ Capture \/ Release
  BY <1>9 DEF Record, Capture, Release
<1>10. CASE CaptureFails \/ PresentFails \/ DrawFails
  BY <1>10 DEF CaptureFails, PresentFails, DrawFails
<1>11. CASE Teardown
  BY <1>11 DEF Teardown
<1>12. CASE UNCHANGED vars
  BY <1>12 DEF vars
<1> QED
  BY <1>1, <1>2, <1>3, <1>4, <1>5, <1>6, <1>7, <1>8, <1>9, <1>10, <1>11, <1>12 DEF Next, Proceed, GoWrong

\* A frame reads the window's size after it has heard of the last change.
LEMMA StepKeepsSizes ==
    ASSUME TypeOK, SizesAreKnown, [Next]_vars
    PROVE  SizesAreKnown'
<1> USE DEF TypeOK, SizesAreKnown, NoResizeForgotten, drawVars, gpuVars, windowVars
<1>1. CASE Present
  BY <1>1 DEF Present
<1>2. CASE Build
  BY <1>2 DEF Build
<1>3. CASE DrawFails
  BY <1>3 DEF DrawFails
<1>4. CASE Resize \/ MinimizeOrRestore \/ BeginStep
  BY <1>4 DEF Resize, MinimizeOrRestore, BeginStep
<1>5. CASE Draw \/ WaitForFence \/ OutOfDate
  BY <1>5 DEF Draw, WaitForFence, OutOfDate
<1>6. CASE FinishSubmission \/ Show \/ AcquireImage
  BY <1>6 DEF FinishSubmission, Show, AcquireImage
<1>7. CASE Record \/ Submit \/ Capture
  BY <1>7 DEF Record, Submit, Capture
<1>8. CASE Release \/ CaptureFails \/ PresentFails
  BY <1>8 DEF Release, CaptureFails, PresentFails
<1>9. CASE Teardown
  BY <1>9 DEF Teardown
<1>10. CASE UNCHANGED vars
  BY <1>10 DEF vars
<1> QED
  BY <1>1, <1>2, <1>3, <1>4, <1>5, <1>6, <1>7, <1>8, <1>9, <1>10 DEF Next, Proceed, GoWrong

-----------------------------------------------------------------------------
Invariant == TypeOK /\ FencesTell /\ ImagesAreHeld /\ SemaphoresTell /\ SizesAreKnown

\* All of it holds while nothing has been drawn.
LEMMA InitInvariant == Init => Invariant
<1> SUFFICES ASSUME Init PROVE Invariant
  OBVIOUS
<1> USE FramesAssumption DEF Init
<1>1. TypeOK
  <2>1. frameIndex \in Frames /\ fence \in [Frames -> BOOLEAN] /\ presentComplete \in [Frames -> Semaphore]
    BY DEF Frames, Semaphore
  <2>2. \E n \in ImageCounts : chain = 1..n /\ renderFinished \in [1..n -> Semaphore]
    BY DEF Semaphore
  <2> QED
    BY <2>1, <2>2 DEF TypeOK
<1>2. FencesTell
  BY DEF FencesTell
<1>3. ImagesAreHeld
  BY DEF ImagesAreHeld, ImagesOutliveTheirUse, Over, Owning
<1>4. SemaphoresTell
  BY DEF SemaphoresTell
<1>5. SizesAreKnown
  BY DEF SizesAreKnown, NoResizeForgotten
<1> QED
  BY <1>1, <1>2, <1>3, <1>4, <1>5 DEF Invariant

\* The four accounts and the types are inductive together.
LEMMA InvariantHolds == Spec => []Invariant
<1>1. Invariant /\ [Next]_vars => Invariant'
  BY StepKeepsTypes, StepKeepsFences, StepKeepsImages, StepKeepsSemaphores, StepKeepsSizes
  DEF Invariant
<1> QED
  BY <1>1, InitInvariant, PTL DEF Spec

\* Every variable keeps its type, whatever fails: a frame that was given up never
\* leaves an index or an image behind that the next one could trip over.
THEOREM TypeCorrect == Spec => []TypeOK
<1>1. Invariant => TypeOK
  BY DEF Invariant
<1> QED
  BY <1>1, InvariantHolds, PTL

\* While a frame's uniform and command buffers are written, no submission that
\* reads them is in flight, for any number of frames in flight.
THEOREM WritesAreAlone == Spec => []NoWriteInFlight
<1>1. Invariant => NoWriteInFlight
  BY DEF Invariant, FencesTell, NoWriteInFlight
<1> QED
  BY <1>1, InvariantHolds, PTL

\* A semaphore is handed out only when nothing is pending on it, and there is
\* one for each image of whatever chain there is.
THEOREM SemaphoresAreFree == Spec => []SemaphoresUsable
<1>1. Invariant => SemaphoresUsable
  <2> SUFFICES ASSUME Invariant PROVE SemaphoresUsable
    OBVIOUS
  <2>1. CASE main = "acquire"
    BY <2>1 DEF Invariant, TypeOK, FencesTell, SemaphoresTell, SemaphoresUsable, Over
  <2>2. CASE main = "submit"
    BY <2>2 DEF Invariant, ImagesAreHeld, SemaphoresTell, SemaphoresUsable, Owning, Over
  <2> QED
    BY <2>1, <2>2 DEF SemaphoresUsable
<1> QED
  BY <1>1, InvariantHolds, PTL

\* No image goes while it is drawn to, queued or held, whichever call fails.
THEOREM ImagesAreKept == Spec => []ImagesOutliveTheirUse
<1>1. Invariant => ImagesOutliveTheirUse
  BY DEF Invariant, ImagesAreHeld
<1> QED
  BY <1>1, InvariantHolds, PTL

\* A chain of the wrong size is always on its way to being replaced.
THEOREM ResizesAreHeard == Spec => []NoResizeForgotten
<1>1. Invariant => NoResizeForgotten
  BY DEF Invariant, SizesAreKnown
<1> QED
  BY <1>1, InvariantHolds, PTL

\* Between Submit and Present stands the capture: a frame is presented with no
\* capture still asked for.
THEOREM PresentedIsCaptured == Spec => NextPresentedIsCaptured
<1> DEFINE Served == main = "present" => capture = "none"
<1> USE DEF drawVars, gpuVars, windowVars
<1>1. Init => Served
  BY DEF Init
<1>2. Served /\ [Next]_vars => Served'
  <2> SUFFICES ASSUME Served, [Next]_vars PROVE Served'
    OBVIOUS
  <2>1. CASE Resize \/ MinimizeOrRestore \/ FinishSubmission \/ Show \/ UNCHANGED vars
    BY <2>1 DEF Resize, MinimizeOrRestore, FinishSubmission, Show, vars
  <2>2. CASE BeginStep \/ Proceed \/ GoWrong \/ Teardown
    BY <2>2 DEF BeginStep, Proceed, GoWrong, Teardown, Draw, WaitForFence, AcquireImage, Record,
                Submit, Capture, Present, Release, Build, OutOfDate, CaptureFails,
                PresentFails, DrawFails
  <2> QED
    BY <2>1, <2>2 DEF Next
<1>3. Served /\ [Next]_vars => [frameIndex' # frameIndex => capture = "none"]_vars
  BY DEF Next, Proceed, GoWrong, Resize, MinimizeOrRestore, FinishSubmission, Show, BeginStep,
         Draw, WaitForFence, AcquireImage, Record, Submit, Capture, Present, Release, Build,
         OutOfDate, CaptureFails, PresentFails, DrawFails, Teardown
<1> QED
  BY <1>1, <1>2, <1>3, PTL DEF Spec, NextPresentedIsCaptured
=============================================================================
