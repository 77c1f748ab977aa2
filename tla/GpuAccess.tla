----------------------------- MODULE GpuAccess -----------------------------
(***************************************************************************)
(* What Vulkan's synchronization rules ask of one image subresource, as    *)
(* far as PlaygroundEngine's barriers rely on it: the layout it is in, the *)
(* writes no barrier has made available yet, the accesses the last barrier *)
(* made it visible to, and its size.  Stages are left out: a barrier of    *)
(* the code always names the stages its accesses happen in.                *)
(***************************************************************************)
EXTENDS Integers, FiniteSets

Writes == {"transferWrite", "colourWrite", "depthWrite"}

\* An image as CreateImage leaves it.
NewImage(extent) == [layout |-> "undefined", dirty |-> {}, visible |-> {}, extent |-> extent]

\* A transition is in order when it names the layout the image is in, or gives
\* up its contents, and waits for every write before it.
TransitionAllowed(image, barrier) ==
    /\ barrier.from \in {"undefined", image.layout}
    /\ image.dirty \subseteq barrier.src

\* The change of layout is a write of its own, which the barrier makes visible
\* to the accesses it names; one that names none leaves that to a later wait.
Transitioned(image, barrier) ==
    [image EXCEPT !.layout = barrier.to, !.visible = barrier.dst,
                  !.dirty = IF barrier.dst = {} THEN {"transition"} ELSE {}]

\* A copy, blit, sample or attachment use is in order when the image is in the
\* layout it names, the last barrier made it visible to the access, nothing was
\* written since, and the region lies inside the image.
UseAllowed(image, use) ==
    /\ image.layout = use.layout
    /\ use.access \subseteq image.visible
    /\ image.dirty = {}
    /\ \A i \in 1..2 : use.extent[i] <= image.extent[i]

Used(image, use) == [image EXCEPT !.dirty = use.access \cap Writes]

\* After a wait for the device, or for the semaphore an acquire signals.
Available(image) == [image EXCEPT !.dirty = {}]
=============================================================================
