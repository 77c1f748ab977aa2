--------------------------- MODULE MCAgentChannel ---------------------------
(* Instances of AgentChannel for TLC.                                      *)
EXTENDS AgentChannel, MCAgentLines

\* Three commands.  "a" is one unit and a newline.  "b" is as long as the cap,
\* so its newline is beyond it: whether it is seen depends on how the bytes
\* arrive.  "c" is a line that was left empty.
MCClients == {"a", "b", "c"}
MCLine == [a |-> Meanings(Key), b |-> Meanings(Move), c |-> <<>>]
MCEvents == EventsOf(MCLine) \cup {MCCloseRequested}

\* Two of them, for the liveness runs.
MCTwoClients == {"a", "b"}
MCTwoLines == [a |-> Meanings(Key), b |-> Meanings(Close)]
MCTwoEvents == EventsOf(MCTwoLines)
=============================================================================
