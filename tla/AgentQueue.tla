----------------------------- MODULE AgentQueue -----------------------------
(***************************************************************************)
(* What the agent channel promises the engine, without sockets, threads,   *)
(* buffers or locks: commands are accepted one at a time, and what was     *)
(* accepted is handed to the frame's event record in batches, in order,    *)
(* each command exactly once.  A command accepted too late to be handed    *)
(* over before the run ends may stay pending for ever.                     *)
(***************************************************************************)
EXTENDS Sequences, Naturals

CONSTANT Command   \* what can be accepted

VARIABLES
    pending,       \* accepted, not yet handed to the record, oldest first
    delivered      \* everything the record has been given, oldest first

vars == <<pending, delivered>>

Init == pending = <<>> /\ delivered = <<>>

Accept(command) ==
    /\ pending' = Append(pending, command)
    /\ UNCHANGED delivered

\* A batch is some prefix of what is pending: a command accepted while the
\* batch is in the engine's hands waits for the next one.
Deliver ==
    \E n \in 1..Len(pending) :
        /\ delivered' = delivered \o SubSeq(pending, 1, n)
        /\ pending' = SubSeq(pending, n + 1, Len(pending))

Next == (\E command \in Command : Accept(command)) \/ Deliver

Spec == Init /\ [][Next]_vars
=============================================================================
