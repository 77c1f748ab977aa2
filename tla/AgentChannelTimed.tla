------------------------- MODULE AgentChannelTimed -------------------------
(***************************************************************************)
(* AgentChannel with the passing of time: how long one client can keep the *)
(* reader, and so every client behind it, waiting.  The timeout belongs to *)
(* WaitReadable, which is entered anew for each read of a connection.      *)
(* Time passes only in the poll; what the reader computes takes none.      *)
(***************************************************************************)
EXTENDS AgentChannel

CONSTANT Timeout     \* ConnectionTimeoutMilliseconds, in ticks

ASSUME TimeoutAssumption == Timeout \in Nat \ {0}

VARIABLES
    quiet,    \* ticks since the current poll began
    held      \* ticks the current connection has been waited for

timedVars == <<vars, quiet, held>>

TimedInit == Init /\ quiet = 0 /\ held = 0

\* Mutant: the poll goes on past its timeout.
TickOversleeps ==
    /\ reader = "pollConnection"
    /\ ~Readable /\ ~wake
    /\ quiet' = quiet + 1
    /\ held' = held + 1
    /\ UNCHANGED vars

\* The poll on a connection waits while there is nothing to wake it.
Tick ==
    /\ reader = "pollConnection"
    /\ ~Readable /\ ~wake
    /\ quiet < Timeout
    /\ quiet' = quiet + 1
    /\ held' = held + 1
    /\ UNCHANGED vars

\* Every step of the channel, a timeout only when it is due.
Step ==
    /\ Next
    /\ TimeOut => quiet = Timeout
    /\ quiet' = IF reader = "testConnection" THEN 0 ELSE quiet
    /\ held' = IF reader = "accept" /\ reader' # "accept" THEN 0 ELSE held

TimedNext == Step \/ Tick

TimedSpec == TimedInit /\ [][TimedNext]_timedVars

-----------------------------------------------------------------------------
\* The clocks are those of one poll and of one connection.
TimedTypeOK == quiet \in 0..Timeout /\ held \in Nat

\* However its bytes arrive, a client is let go of after a timeout for each
\* unit of the longest request HandleConnection reads.
HeldForLongestRequest == held <= Timeout * Cap

\* docs/AgentChannel.md: "A held connection blocks the next command for up to
\* five seconds, after which the reader drops it and carries on."
HeldForOneTimeout == held <= Timeout
=============================================================================
