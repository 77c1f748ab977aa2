------------------------------- MODULE MCEcs -------------------------------
(* Instances of Ecs for TLC.                                               *)
EXTENDS Ecs
=============================================================================
