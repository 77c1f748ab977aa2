---------------------------- MODULE AgentChannel ----------------------------
(***************************************************************************)
(* The agent channel of PlaygroundEngine/src/AgentChannel: client          *)
(* processes that connect to a unix socket, the reader thread that serves  *)
(* one connection and one line at a time, and the main thread that drains  *)
(* the staged events into the frame's record and finally stops the reader. *)
(*                                                                         *)
(* A request is counted in units of bytes the kernel hands over together;  *)
(* the last unit of a line carries its newline.  `Line[c][k]` is what      *)
(* ParseCommand (AgentCommand) makes of the first k units of client c's    *)
(* line: an event, or an error.  Prefixes of a command may be commands.    *)
(*                                                                         *)
(* Steps that touch only one thread's own state are merged with the next   *)
(* step that touches shared state.  A critical section of `_mutex` is one  *)
(* step: nothing outside one reads or writes `_stagedEvents`.              *)
(***************************************************************************)
EXTENDS Naturals, Sequences

CONSTANTS
    Clients,        \* client processes, one command each
    Events,         \* what a valid line parses to
    Errors,         \* what an invalid line parses to
    NoClient,       \* no connection is being served
    EmptyLineError, \* what an empty line parses to
    CutOffError,    \* the answer to a line that reached the cap
    CloseRequested, \* the event that asks the engine to end its run
    Line,           \* [Clients -> Seq(Events \cup Errors)], see above
    Cap,            \* MaximumRequestLength, in units
    ReadSize,       \* the size of the read buffer, in units
    Backlog,        \* the argument of listen()
    ReaderMayDie    \* whether poll, accept and read may fail for good

Outcomes == Events \cup Errors
Ok == "ok"         \* the answer to a command that was staged

ASSUME ChannelAssumption ==
    /\ NoClient \notin Clients
    /\ Events \cap Errors = {}
    /\ {EmptyLineError, CutOffError} \subseteq Errors /\ Ok \notin Errors
    /\ Line \in [Clients -> Seq(Outcomes)]
    /\ Cap \in Nat \ {0} /\ ReadSize \in Nat \ {0} /\ Backlog \in Nat
    /\ ReaderMayDie \in BOOLEAN

VARIABLES
    client,       \* [Clients -> ClientState]
    sent,         \* [Clients -> Nat]: units written by the client
    ended,        \* [Clients -> BOOLEAN]: the client sends nothing more
    reply,        \* [Clients -> set of replies the client was sent]
    backlog,      \* the kernel's queue of connections not yet accepted
    listening,    \* whether the listening and wake descriptors are open
    reader,       \* where the reader thread is
    connection,   \* connectionDescriptor
    request,      \* units of the served client's line read so far
    response,     \* the reply about to be sent
    stopping,     \* _stopping
    wake,         \* whether the wake descriptor is readable
    staged,       \* _stagedEvents
    drainBuffer,  \* _drainBuffer
    record,       \* the part of the frame's record the channel filled
    main,         \* where the main thread is
    accepted,     \* history: everything ever staged
    delivered     \* history: everything ever appended to a record

clientVars == <<client, sent, ended, reply, backlog>>
readerVars == <<reader, connection, request, response>>
mainVars == <<drainBuffer, record, main, delivered, listening>>
stopVars == <<stopping, wake>>
vars == <<clientVars, readerVars, mainVars, stopVars, staged, accepted>>

ClientState == {"idle", "queued", "open", "closed"}

\* A staged event is stamped with the time; the client it came from stands
\* for the timestamp, which is what tells two equal events apart.
Stamped == [event : Events, from : Clients]

Whole(c) == Len(Line[c]) + 1
Smaller(a, b) == IF a < b THEN a ELSE b

\* ParseCommand, applied to the first `units` units of c's line.
ParseCommand(c, units) ==
    IF Line[c] = <<>> \/ units = 0 THEN EmptyLineError
    ELSE Line[c][Smaller(units, Len(Line[c]))]

Init ==
    /\ client = [c \in Clients |-> "idle"]
    /\ sent = [c \in Clients |-> 0]
    /\ ended = [c \in Clients |-> FALSE]
    /\ reply = [c \in Clients |-> {}]
    /\ backlog = <<>> /\ listening = TRUE
    /\ reader = "loop" /\ connection = NoClient
    /\ request = 0 /\ response = CutOffError
    /\ stopping = FALSE /\ wake = FALSE
    /\ staged = <<>> /\ drainBuffer = <<>> /\ record = <<>>
    /\ main = "frame"
    /\ accepted = <<>> /\ delivered = <<>>

-----------------------------------------------------------------------------
(* Clients: scripts/pge, or anything else that opens the socket.           *)

Connect(c) ==
    /\ client[c] = "idle"
    /\ listening
    /\ Len(backlog) <= Backlog
    /\ client' = [client EXCEPT ![c] = "queued"]
    /\ backlog' = Append(backlog, c)
    /\ UNCHANGED <<sent, ended, reply, readerVars, mainVars, stopVars, staged, accepted>>

Send(c) ==
    /\ client[c] \in {"queued", "open"}
    /\ ~ended[c] /\ sent[c] < Whole(c)
    /\ sent' = [sent EXCEPT ![c] = @ + 1]
    /\ UNCHANGED <<client, ended, reply, backlog, readerVars, mainVars, stopVars, staged, accepted>>

\* The client shuts its writing half, or exits: a reader sees end of input.
EndInput(c) ==
    /\ client[c] \in {"queued", "open"}
    /\ ~ended[c]
    /\ ended' = [ended EXCEPT ![c] = TRUE]
    /\ UNCHANGED <<client, sent, reply, backlog, readerVars, mainVars, stopVars, staged, accepted>>

-----------------------------------------------------------------------------
(* The reader thread.                                                      *)

\* The loop condition, then the test WaitReadable starts with.
TestStopping ==
    /\ reader = "loop"
    /\ reader' = IF stopping THEN "done" ELSE "pollListener"
    /\ UNCHANGED <<connection, request, response, clientVars, mainVars, stopVars, staged, accepted>>

\* poll on the listening socket has no timeout: it returns for a connection
\* or for the wake descriptor, and the channel stops if either it or the
\* flag says so.
PollListener ==
    /\ reader = "pollListener"
    /\ backlog # <<>> \/ wake
    /\ reader' = IF wake \/ stopping THEN "done" ELSE "accept"
    /\ UNCHANGED <<connection, request, response, clientVars, mainVars, stopVars, staged, accepted>>

Accept ==
    /\ reader = "accept"
    /\ connection' = Head(backlog)
    /\ backlog' = Tail(backlog)
    /\ client' = [client EXCEPT ![Head(backlog)] = "open"]
    /\ request' = 0
    /\ reader' = "testConnection"
    /\ UNCHANGED <<sent, ended, reply, response, mainVars, stopVars, staged, accepted>>

\* The test at the top of WaitReadable, for a read.
TestConnection ==
    /\ reader = "testConnection"
    /\ reader' = IF stopping THEN "close" ELSE "pollConnection"
    /\ UNCHANGED <<connection, request, response, clientVars, mainVars, stopVars, staged, accepted>>

Readable == sent[connection] > request \/ ended[connection]

PollConnection ==
    /\ reader = "pollConnection"
    /\ Readable \/ wake
    /\ reader' = IF wake \/ stopping THEN "close" ELSE "read"
    /\ UNCHANGED <<connection, request, response, clientVars, mainVars, stopVars, staged, accepted>>

\* Mutant: reads wait for ever, as the accept does.
TimeOutNever == FALSE /\ UNCHANGED vars

\* ConnectionTimeoutMilliseconds pass with nothing to read.
TimeOut ==
    /\ reader = "pollConnection"
    /\ ~Readable /\ ~wake
    /\ reader' = "close"
    /\ UNCHANGED <<connection, request, response, clientVars, mainVars, stopVars, staged, accepted>>

\* Mutant: the end of input answers with whatever the last response was.
ReadEndAnswersStale ==
    LET unread == sent[connection] - request
        total  == request + Smaller(unread, ReadSize)
    IN  /\ reader = "read"
        /\ request' = total
        /\ reader' = IF unread = 0 THEN "reply"
                     ELSE IF total = Whole(connection) \/ total >= Cap
                     THEN "respond" ELSE "testConnection"
        /\ UNCHANGED <<connection, response, clientVars, mainVars, stopVars, staged, accepted>>

\* Mutant: the cap on a request without a newline is dropped.
ReadIgnoresCap ==
    LET unread == sent[connection] - request
        total  == request + Smaller(unread, ReadSize)
    IN  /\ reader = "read"
        /\ request' = total
        /\ reader' = IF unread = 0 \/ total = Whole(connection)
                     THEN "respond" ELSE "testConnection"
        /\ UNCHANGED <<connection, response, clientVars, mainVars, stopVars, staged, accepted>>

\* One read, and the loop condition after it: a newline, the cap or the end
\* of input ends the request.
Read ==
    LET unread == sent[connection] - request
        total  == request + Smaller(unread, ReadSize)
    IN  /\ reader = "read"
        /\ request' = total
        /\ reader' = IF unread = 0 \/ total = Whole(connection) \/ total >= Cap
                     THEN "respond" ELSE "testConnection"
        /\ UNCHANGED <<connection, response, clientVars, mainVars, stopVars, staged, accepted>>

\* Mutant: the check for a missing newline is dropped.
CutOffUnnoticed == FALSE

\* HandleConnection's tail and BuildResponse.  Without a newline the line is
\* everything read if the input ended, and an error if it reached the cap.
\* The loop ends below the cap without a newline only at the end of input.
CutOff == request # Whole(connection) /\ request >= Cap

Respond ==
    LET outcome == IF CutOff THEN CutOffError ELSE ParseCommand(connection, request)
    IN  /\ reader = "respond"
        /\ reader' = "reply"
        /\ response' = IF outcome \in Errors THEN outcome ELSE Ok
        /\ IF outcome \in Errors
           THEN UNCHANGED <<staged, accepted>>
           ELSE LET stamped == [event |-> outcome, from |-> connection]
                IN  /\ staged' = Append(staged, stamped)
                    /\ accepted' = Append(accepted, stamped)
        /\ UNCHANGED <<connection, request, clientVars, mainVars, stopVars>>

\* A client that has gone makes the send fail, which SendReply ignores.
SendReply ==
    /\ reader = "reply"
    /\ \/ reply' = [reply EXCEPT ![connection] = @ \cup {response}]
       \/ ended[connection] /\ UNCHANGED reply
    /\ reader' = "close"
    /\ UNCHANGED <<client, sent, ended, backlog, connection, request, response,
                   mainVars, stopVars, staged, accepted>>

\* Mutant: the descriptor is closed and kept.
CloseConnectionAndKeepIt ==
    /\ reader = "close"
    /\ client' = [client EXCEPT ![connection] = "closed"]
    /\ reader' = "loop"
    /\ UNCHANGED <<sent, ended, reply, backlog, connection, request, response, mainVars, stopVars, staged, accepted>>

CloseConnection ==
    /\ reader = "close"
    /\ client' = [client EXCEPT ![connection] = "closed"]
    /\ connection' = NoClient
    /\ reader' = "loop"
    /\ UNCHANGED <<sent, ended, reply, backlog, request, response, mainVars, stopVars, staged, accepted>>

\* poll or accept4 fails for good: the thread returns, and nothing serves
\* the socket any more.  On a connection the same failure only drops it.
ReaderFails ==
    /\ ReaderMayDie
    /\ \/ reader \in {"pollListener", "accept"} /\ reader' = "done"
       \/ reader \in {"pollConnection", "read"} /\ reader' = "close"
    /\ UNCHANGED <<connection, request, response, clientVars, mainVars, stopVars, staged, accepted>>

Reader ==
    \/ TestStopping \/ PollListener \/ Accept
    \/ TestConnection \/ PollConnection \/ TimeOut \/ Read
    \/ Respond \/ SendReply \/ CloseConnection

-----------------------------------------------------------------------------
(* The main thread: Engine::RunStep, then Shutdown.                        *)

\* Pump clears the record before anything of this frame is in it.
BeginFrame ==
    /\ main = "frame"
    /\ record' = <<>>
    /\ main' = "drain"
    /\ UNCHANGED <<drainBuffer, delivered, listening, clientVars, readerVars, stopVars, staged, accepted>>

\* Mutants: the clear is forgotten, or comes after the swap.
SwapStagedWithoutClear ==
    /\ main = "drain"
    /\ drainBuffer' = staged
    /\ staged' = drainBuffer
    /\ main' = "append"
    /\ UNCHANGED <<record, delivered, listening, clientVars, readerVars, stopVars, accepted>>

SwapStagedThenClear ==
    /\ main = "drain"
    /\ drainBuffer' = <<>>
    /\ staged' = drainBuffer
    /\ main' = "append"
    /\ UNCHANGED <<record, delivered, listening, clientVars, readerVars, stopVars, accepted>>

\* DrainInto: clear, then swap under the lock.
SwapStaged ==
    /\ main = "drain"
    /\ drainBuffer' = staged
    /\ staged' = <<>>
    /\ main' = "append"
    /\ UNCHANGED <<record, delivered, listening, clientVars, readerVars, stopVars, accepted>>

\* record.Append, outside the lock.
AppendToRecord ==
    /\ main = "append"
    /\ record' = record \o drainBuffer
    /\ delivered' = delivered \o drainBuffer
    /\ main' = "step"
    /\ UNCHANGED <<drainBuffer, listening, clientVars, readerVars, stopVars, staged, accepted>>

\* Mutant: only the first event of the record is looked at.
EndFrameSeesFirstEvent ==
    /\ main = "step"
    /\ main' \in IF record # <<>> /\ record[1].event = CloseRequested
                 THEN {"stop"} ELSE {"stop", "frame"}
    /\ UNCHANGED <<drainBuffer, record, delivered, listening, clientVars, readerVars, stopVars, staged, accepted>>

\* The rest of the frame.  CloseRequested in the record ends the run; so may
\* the application or an error, at any frame.
EndFrame ==
    /\ main = "step"
    /\ main' \in IF \E i \in DOMAIN record : record[i].event = CloseRequested
                 THEN {"stop"} ELSE {"stop", "frame"}
    /\ UNCHANGED <<drainBuffer, record, delivered, listening, clientVars, readerVars, stopVars, staged, accepted>>

StoreStopping ==
    /\ main = "stop"
    /\ stopping' = TRUE
    /\ main' = "wake"
    /\ UNCHANGED <<wake, drainBuffer, record, delivered, listening, clientVars, readerVars, staged, accepted>>

\* Mutant: the flag alone is trusted to end the thread.
WriteWakeForgotten ==
    /\ main = "wake"
    /\ main' = "join"
    /\ UNCHANGED <<stopVars, drainBuffer, record, delivered, listening, clientVars, readerVars, staged, accepted>>

WriteWake ==
    /\ main = "wake"
    /\ wake' = TRUE
    /\ main' = "join"
    /\ UNCHANGED <<stopping, drainBuffer, record, delivered, listening, clientVars, readerVars, staged, accepted>>

\* Mutant: the thread is detached instead of joined.
JoinDetaches ==
    /\ main = "join"
    /\ main' = "close"
    /\ UNCHANGED <<drainBuffer, record, delivered, listening, clientVars, readerVars, stopVars, staged, accepted>>

Join ==
    /\ main = "join"
    /\ reader = "done"
    /\ main' = "close"
    /\ UNCHANGED <<drainBuffer, record, delivered, listening, clientVars, readerVars, stopVars, staged, accepted>>

\* Closing the listening socket disconnects whoever is still queued.
CloseChannel ==
    /\ main = "close"
    /\ listening' = FALSE
    /\ backlog' = <<>>
    /\ client' = [c \in Clients |-> IF client[c] = "queued" THEN "closed" ELSE client[c]]
    /\ main' = "stopped"
    /\ UNCHANGED <<sent, ended, reply, drainBuffer, record, delivered, readerVars, stopVars, staged, accepted>>

Main ==
    \/ BeginFrame \/ SwapStaged \/ AppendToRecord \/ EndFrame
    \/ StoreStopping \/ WriteWake \/ Join \/ CloseChannel

\* The process has gone on past the channel's destructor.
Stopped == main = "stopped" /\ UNCHANGED vars

Next ==
    \/ \E c \in Clients : Connect(c) \/ Send(c) \/ EndInput(c)
    \/ Reader \/ ReaderFails \/ Main \/ Stopped

\* Both threads are scheduled, and poll's timeout expires.  Clients owe the
\* engine nothing.
Spec == Init /\ [][Next]_vars /\ WF_vars(Reader) /\ WF_vars(Main)

-----------------------------------------------------------------------------
ReaderPlace == {"loop", "pollListener", "accept", "testConnection", "pollConnection",
                "read", "respond", "reply", "close", "done"}
MainPlace == {"frame", "drain", "append", "step", "stop", "wake", "join", "close", "stopped"}

\* The places where the reader is serving a connection.
Serving == {"testConnection", "pollConnection", "read", "respond", "reply", "close"}

\* Every variable has the type its declaration in the code gives it, and a
\* connection is open exactly while the reader is serving one.
TypeOK ==
    /\ client \in [Clients -> ClientState]
    /\ sent \in [Clients -> Nat]
    /\ ended \in [Clients -> BOOLEAN]
    /\ reply \in [Clients -> SUBSET (Errors \cup {Ok})]
    /\ backlog \in Seq(Clients)
    /\ listening \in BOOLEAN
    /\ reader \in ReaderPlace
    /\ connection \in Clients \cup {NoClient}
    /\ (connection \in Clients) = (reader \in Serving)
    /\ request \in Nat
    /\ response \in Errors \cup {Ok}
    /\ stopping \in BOOLEAN /\ wake \in BOOLEAN
    /\ staged \in Seq(Stamped) /\ drainBuffer \in Seq(Stamped) /\ record \in Seq(Stamped)
    /\ main \in MainPlace
    /\ accepted \in Seq(Stamped) /\ delivered \in Seq(Stamped)

\* The batch DrainInto has swapped out and not yet appended to the record.
InHand == IF main = "append" THEN drainBuffer ELSE <<>>

\* Whatever the two threads do, every event BuildResponse ever staged is in
\* exactly one place, and those places in sequence are the order it came in:
\* DrainInto neither loses, repeats nor reorders an event.
ExactlyOnceInOrder == accepted = delivered \o InHand \o staged

From(c) == {i \in DOMAIN accepted : accepted[i].from = c}

\* A client that was told "ok" has exactly one event staged, and one that was
\* told "error" has none: the reply of HandleConnection is about this request.
RepliesTellTheTruth ==
    \A c \in Clients :
        /\ Ok \in reply[c] => \E i \in From(c) : From(c) = {i}
        /\ reply[c] \cap Errors # {} => From(c) = {}

\* An event that runs is the meaning of a line its client finished, with a
\* newline or by ending its input: a line HandleConnection cut off at the cap
\* never runs against partial arguments (AgentChannel.cpp, "A request that
\* hit the cap").
OnlyFinishedLinesRun ==
    \A i \in DOMAIN accepted :
        LET c == accepted[i].from IN
        /\ sent[c] = Whole(c) \/ ended[c]
        /\ accepted[i].event = ParseCommand(c, sent[c])

\* Once Stop has joined the thread nothing the reader owns changes again, so
\* the descriptors and the channel can go away under no one's feet.
QuietAfterJoin ==
    [][(main \in {"close", "stopped"}) => UNCHANGED <<readerVars, staged, reply>>]_vars

\* Stop always comes to an end: no wake-up is lost between the test of
\* _stopping and the poll that follows it, and no client can hold the join.
StopTerminates == main = "stop" ~> main = "stopped"

\* A client in the backlog is always taken and let go of in the end, whatever
\* the clients before it do: a quiet one is dropped by the timeout, one that
\* never ends its line by the cap.
EveryClientServed == \A c \in Clients : client[c] = "queued" ~> client[c] = "closed"

\* While the engine keeps running, an accepted command reaches a frame.
AcceptedIsDelivered ==
    \A c \in Clients :
        From(c) # {} ~> \/ \E i \in DOMAIN delivered : delivered[i].from = c
                        \/ main = "stopped"

\* An injected CloseRequested ends the run, wherever in its batch it is.
CloseEndsTheRun ==
    (\E i \in DOMAIN delivered : delivered[i].event = CloseRequested) ~> main = "stopped"

\* The threads, buffers and lock implement the queue of AgentQueue.
Queue == INSTANCE AgentQueue WITH Command <- Stamped, pending <- InHand \o staged
ImplementsQueue == Queue!Spec
=============================================================================
