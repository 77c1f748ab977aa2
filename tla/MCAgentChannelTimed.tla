------------------------ MODULE MCAgentChannelTimed ------------------------
(* Instances of AgentChannelTimed for TLC.                                 *)
EXTENDS AgentChannelTimed, MCAgentLines

MCClients == {"a", "b"}

\* "b" is longer than the cap by two units and its newline.
MCLine == [a |-> Meanings(Key), b |-> Meanings(SlowMove)]
MCEvents == EventsOf(MCLine) \cup {MCCloseRequested}
=============================================================================
