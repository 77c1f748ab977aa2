-------------------------- MODULE MCFramesInFlight --------------------------
(* Two frames in flight, as in the code, swap chains of two and of three    *)
(* images, and a window that takes two sizes.                               *)
EXTENDS FramesInFlight

MCImageCounts == {2, 3}
=============================================================================
