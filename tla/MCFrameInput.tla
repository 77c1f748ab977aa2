---------------------------- MODULE MCFrameInput ----------------------------
(* Events over a letter, a key ImGui has no name for and a key GLFW does    *)
(* not know, a pointer button, a loss of focus and a close request, from    *)
(* either producer, in a run with a window and in a headless one.           *)
EXTENDS FrameInput

MCKeys == {80, 314, -1}
=============================================================================
