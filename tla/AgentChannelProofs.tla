------------------------- MODULE AgentChannelProofs -------------------------
(***************************************************************************)
(* Proofs about AgentChannel for any set of clients, any lines, any cap,   *)
(* read size and backlog; at the end, how long it lets one client hold it, *)
(* for any timeout.                                                        *)
(***************************************************************************)
EXTENDS AgentChannelTimed, TLAPS, SequenceTheorems

\* The reader is about to accept only when there is something to accept, and
\* the main thread is past the join only when the reader has returned.
Handover ==
    /\ reader = "accept" => backlog # <<>>
    /\ main \in {"close", "stopped"} => reader = "done"

TypeInv == TypeOK /\ Handover

-----------------------------------------------------------------------------
\* What a prefix of a line means is an outcome.
LEMMA ParseCommandType ==
    ASSUME NEW c \in Clients, NEW units \in Nat
    PROVE  ParseCommand(c, units) \in Outcomes
<1>1. Line[c] \in Seq(Outcomes)
  BY ChannelAssumption
<1>2. CASE Line[c] = <<>> \/ units = 0
  BY <1>2, ChannelAssumption DEF ParseCommand, Outcomes
<1>3. CASE ~(Line[c] = <<>> \/ units = 0)
  <2>1. Smaller(units, Len(Line[c])) \in 1..Len(Line[c])
    BY <1>1, <1>3, EmptySeq DEF Smaller
  <2> QED
    BY <1>1, <1>3, <2>1 DEF ParseCommand
<1> QED
  BY <1>2, <1>3

\* Whatever a client does keeps the types.
LEMMA ClientKeepsTypes ==
    ASSUME TypeInv, NEW c \in Clients, Connect(c) \/ Send(c) \/ EndInput(c)
    PROVE  TypeInv'
<1> USE DEF TypeInv, TypeOK, Handover, ClientState, clientVars, readerVars, mainVars, stopVars, Serving
<1>1. CASE Connect(c)
  <2>1. client' \in [Clients -> ClientState]
    BY <1>1 DEF Connect
  <2>2. backlog' = Append(backlog, c) /\ backlog \in Seq(Clients) /\ c \in Clients
    BY <1>1 DEF Connect
  <2>3. backlog' \in Seq(Clients) /\ backlog' # <<>>
    BY ONLY <2>2, AppendProperties
  <2> QED
    BY <1>1, <2>1, <2>3 DEF Connect
<1>2. CASE Send(c)
  BY <1>2 DEF Send
<1>3. CASE EndInput(c)
  BY <1>3 DEF EndInput
<1> QED
  BY <1>1, <1>2, <1>3

\* The reader's steps keep the types, and it accepts only from a queue.
LEMMA ReaderKeepsTypes ==
    ASSUME TypeInv, Reader \/ ReaderFails
    PROVE  TypeInv'
<1> USE ChannelAssumption DEF TypeInv, TypeOK, Handover, ClientState, ReaderPlace, Serving,
        clientVars, readerVars, mainVars, stopVars
<1>1. CASE TestStopping
  BY <1>1 DEF TestStopping
<1>2. CASE PollListener
  BY <1>2 DEF PollListener
<1>3. CASE Accept
  BY <1>3 DEF Accept
<1>4. CASE TestConnection
  BY <1>4 DEF TestConnection
<1>5. CASE PollConnection
  BY <1>5 DEF PollConnection
<1>6. CASE TimeOut
  BY <1>6 DEF TimeOut
<1>7. CASE Read
  <2>1. connection \in Clients
    BY <1>7 DEF Read
  <2>2. request' \in Nat
    BY <1>7, <2>1 DEF Read, Smaller
  <2>3. reader' \in {"respond", "testConnection"}
    BY <1>7 DEF Read
  <2> QED
    BY <1>7, <2>1, <2>2, <2>3 DEF Read
<1>8. CASE Respond
  <2> DEFINE outcome == IF CutOff THEN CutOffError ELSE ParseCommand(connection, request)
  <2>1. connection \in Clients
    BY <1>8 DEF Respond
  <2>2. outcome \in Errors \/ outcome \in Events
    BY <2>1, ParseCommandType DEF Outcomes
  <2>3. response' \in Errors \cup {Ok}
    BY <1>8 DEF Respond
  <2>4. CASE outcome \in Errors
    BY <1>8, <2>1, <2>3, <2>4 DEF Respond
  <2>5. CASE outcome \notin Errors
    <3>1. [event |-> outcome, from |-> connection] \in Stamped
      BY <2>1, <2>2, <2>5 DEF Stamped
    <3>2. /\ staged' = Append(staged, [event |-> outcome, from |-> connection])
          /\ accepted' = Append(accepted, [event |-> outcome, from |-> connection])
          /\ staged \in Seq(Stamped) /\ accepted \in Seq(Stamped)
      BY <1>8, <2>5 DEF Respond
    <3>3. staged' \in Seq(Stamped) /\ accepted' \in Seq(Stamped)
      BY ONLY <3>1, <3>2, AppendProperties
    <3> QED
      BY <1>8, <2>1, <2>3, <3>3 DEF Respond
  <2> QED
    BY <2>4, <2>5
<1>9. CASE SendReply
  <2>1. /\ reply \in [Clients -> SUBSET (Errors \cup {Ok})] /\ response \in Errors \cup {Ok}
        /\ \/ reply' = [reply EXCEPT ![connection] = @ \cup {response}]
           \/ reply' = reply
    BY <1>9 DEF SendReply
  <2>2. reply' \in [Clients -> SUBSET (Errors \cup {Ok})]
    BY ONLY <2>1
  <2> QED
    BY <1>9, <2>2 DEF SendReply
<1>10. CASE CloseConnection
  BY <1>10 DEF CloseConnection
<1>11. CASE ReaderFails
  BY <1>11 DEF ReaderFails
<1> QED
  BY <1>1, <1>2, <1>3, <1>4, <1>5, <1>6, <1>7, <1>8, <1>9, <1>10, <1>11 DEF Reader

\* The main thread's steps keep the types, and it passes the join last.
LEMMA MainKeepsTypes ==
    ASSUME TypeInv, Main
    PROVE  TypeInv'
<1> USE DEF TypeInv, TypeOK, Handover, ClientState, MainPlace, Serving,
        clientVars, readerVars, mainVars, stopVars
<1>1. CASE BeginFrame
  BY <1>1 DEF BeginFrame
<1>2. CASE SwapStaged
  BY <1>2 DEF SwapStaged
<1>3. CASE AppendToRecord
  BY <1>3 DEF AppendToRecord
<1>4. CASE EndFrame
  BY <1>4 DEF EndFrame
<1>5. CASE StoreStopping
  BY <1>5 DEF StoreStopping
<1>6. CASE WriteWake
  BY <1>6 DEF WriteWake
<1>7. CASE Join
  BY <1>7 DEF Join
<1>8. CASE CloseChannel
  <2>1. client' \in [Clients -> ClientState]
    BY <1>8 DEF CloseChannel
  <2> QED
    BY <1>8, <2>1, EmptySeq DEF CloseChannel
<1> QED
  BY <1>1, <1>2, <1>3, <1>4, <1>5, <1>6, <1>7, <1>8 DEF Main

\* The types hold to begin with.
LEMMA InitTypes == Init => TypeInv
<1> SUFFICES ASSUME Init PROVE TypeInv
  OBVIOUS
<1> USE DEF Init
<1>1. /\ client \in [Clients -> ClientState] /\ sent \in [Clients -> Nat]
      /\ ended \in [Clients -> BOOLEAN] /\ reply \in [Clients -> SUBSET (Errors \cup {Ok})]
  BY DEF ClientState
<1>2. /\ backlog \in Seq(Clients) /\ staged \in Seq(Stamped) /\ drainBuffer \in Seq(Stamped)
      /\ record \in Seq(Stamped) /\ accepted \in Seq(Stamped) /\ delivered \in Seq(Stamped)
  BY EmptySeq
<1>3. (connection \in Clients) = (reader \in Serving)
  BY ChannelAssumption DEF Serving
<1> QED
  BY <1>1, <1>2, <1>3, ChannelAssumption DEF TypeInv, TypeOK, Handover, ReaderPlace, MainPlace

\* Every step of the channel keeps the types.
LEMMA StepKeepsTypes == TypeInv /\ [Next]_vars => TypeInv'
<1> SUFFICES ASSUME TypeInv, [Next]_vars PROVE TypeInv'
  OBVIOUS
<1>1. CASE \E c \in Clients : Connect(c) \/ Send(c) \/ EndInput(c)
  BY <1>1, ClientKeepsTypes
<1>2. CASE UNCHANGED vars
  BY <1>2 DEF TypeInv, TypeOK, Handover, vars, clientVars, readerVars, mainVars, stopVars
<1> QED
  BY <1>1, <1>2, ReaderKeepsTypes, MainKeepsTypes DEF Next, Stopped

\* Types, and where the two threads hand over to each other, are invariant.
LEMMA TypesHold == Spec => []TypeInv
BY InitTypes, StepKeepsTypes, PTL DEF Spec

\* Every variable always has the type its declaration gives it, and exactly
\* while the reader serves a connection there is one.
THEOREM TypeCorrect == Spec => []TypeOK
<1>1. TypeInv => TypeOK
  BY DEF TypeInv
<1> QED
  BY <1>1, TypesHold, PTL
-----------------------------------------------------------------------------
\* A step other than staging, swapping and appending moves no event.
Rest ==
    \/ \E c \in Clients : Connect(c) \/ Send(c) \/ EndInput(c)
    \/ TestStopping \/ PollListener \/ Accept \/ TestConnection \/ PollConnection
    \/ TimeOut \/ Read \/ SendReply \/ CloseConnection \/ ReaderFails
    \/ BeginFrame \/ EndFrame \/ StoreStopping \/ WriteWake \/ Join \/ CloseChannel
    \/ Stopped \/ UNCHANGED vars

\* A step stages an event, swaps the buffer out, appends it, or is of the rest.
LEMMA StepKinds == [Next]_vars => Respond \/ SwapStaged \/ AppendToRecord \/ Rest
BY DEF Next, Reader, Main, Rest

\* The rest of the steps leave every event where it is.
LEMMA RestMovesNoEvent ==
    Rest => UNCHANGED <<accepted, delivered, staged, InHand>>
<1> USE DEF clientVars, readerVars, mainVars, stopVars, InHand
<1>1. ASSUME NEW c \in Clients, Connect(c) \/ Send(c) \/ EndInput(c)
      PROVE  UNCHANGED <<accepted, delivered, staged, InHand>>
  BY <1>1 DEF Connect, Send, EndInput
<1>2. ASSUME \/ TestStopping \/ PollListener \/ Accept \/ TestConnection \/ PollConnection
             \/ TimeOut \/ Read \/ SendReply \/ CloseConnection \/ ReaderFails
      PROVE  UNCHANGED <<accepted, delivered, staged, InHand>>
  BY <1>2 DEF TestStopping, PollListener, Accept, TestConnection, PollConnection,
              TimeOut, Read, SendReply, CloseConnection, ReaderFails
<1>3. ASSUME BeginFrame \/ EndFrame \/ StoreStopping \/ WriteWake \/ Join \/ CloseChannel
      PROVE  UNCHANGED <<accepted, delivered, staged, InHand>>
  BY <1>3 DEF BeginFrame, EndFrame, StoreStopping, WriteWake, Join, CloseChannel
<1>4. ASSUME Stopped \/ UNCHANGED vars
      PROVE  UNCHANGED <<accepted, delivered, staged, InHand>>
  BY <1>4 DEF Stopped, vars
<1> QED
  BY <1>1, <1>2, <1>3, <1>4 DEF Rest

\* The three steps that do move events, in terms of the buffers.
\* BuildResponse puts one event at the end of the staging buffer, or none.
LEMMA RespondStages ==
    ASSUME TypeInv, Respond
    PROVE  /\ InHand' = InHand /\ delivered' = delivered
           /\ \/ UNCHANGED <<staged, accepted>>
              \/ \E s \in Stamped : /\ staged' = staged \o <<s>>
                                    /\ accepted' = accepted \o <<s>>
<1> DEFINE outcome == IF CutOff THEN CutOffError ELSE ParseCommand(connection, request)
<1>1. connection \in Clients /\ request \in Nat
  BY DEF Respond, TypeInv, TypeOK, Serving
<1>2. outcome \in Errors \/ outcome \in Events
  BY <1>1, ParseCommandType, ChannelAssumption DEF Outcomes
<1>3. InHand' = InHand /\ delivered' = delivered
  BY DEF Respond, InHand, mainVars
<1>4. CASE outcome \in Errors
  BY <1>3, <1>4 DEF Respond
<1>5. CASE outcome \notin Errors
  <2>1. [event |-> outcome, from |-> connection] \in Stamped
    BY <1>1, <1>2, <1>5 DEF Stamped
  <2>2. /\ staged' = Append(staged, [event |-> outcome, from |-> connection])
        /\ accepted' = Append(accepted, [event |-> outcome, from |-> connection])
    BY <1>5 DEF Respond
  <2>3. staged \in Seq(Stamped) /\ accepted \in Seq(Stamped)
    BY DEF TypeInv, TypeOK
  <2>4. /\ staged' = staged \o <<[event |-> outcome, from |-> connection]>>
        /\ accepted' = accepted \o <<[event |-> outcome, from |-> connection]>>
    BY <2>1, <2>2, <2>3, AppendIsConcat
  <2> QED
    BY <1>3, <2>1, <2>2, <2>4
<1> QED
  BY <1>4, <1>5

\* DrainInto's swap takes the whole staging buffer in hand.
LEMMA SwapHandsOver ==
    ASSUME SwapStaged
    PROVE  /\ InHand = <<>> /\ InHand' = staged /\ staged' = <<>>
           /\ UNCHANGED <<accepted, delivered>>
BY DEF SwapStaged, InHand

\* The append puts all that is in hand at the end of the record.
LEMMA AppendDelivers ==
    ASSUME AppendToRecord
    PROVE  /\ InHand = drainBuffer /\ InHand' = <<>>
           /\ delivered' = delivered \o drainBuffer
           /\ UNCHANGED <<accepted, staged>>
BY DEF AppendToRecord, InHand

\* The places an event can be in are sequences of stamped events.
LEMMA BuffersAreSequences ==
    ASSUME TypeInv
    PROVE  /\ accepted \in Seq(Stamped) /\ delivered \in Seq(Stamped)
           /\ InHand \in Seq(Stamped) /\ staged \in Seq(Stamped)
           /\ drainBuffer \in Seq(Stamped)
BY EmptySeq DEF TypeInv, TypeOK, InHand

\* Whatever the two threads do, every event ever staged is in exactly one of
\* the record's history, the batch in hand and the staging buffer, in order.
THEOREM NoEventLostOrRepeated == Spec => []ExactlyOnceInOrder
<1>1. Init => ExactlyOnceInOrder
  BY ConcatEmptySeq, EmptySeq DEF Init, ExactlyOnceInOrder, InHand
<1>2. TypeInv /\ ExactlyOnceInOrder /\ [Next]_vars => ExactlyOnceInOrder'
  <2> SUFFICES ASSUME TypeInv, ExactlyOnceInOrder, [Next]_vars
               PROVE  ExactlyOnceInOrder'
    OBVIOUS
  <2>0. /\ accepted \in Seq(Stamped) /\ delivered \in Seq(Stamped)
        /\ InHand \in Seq(Stamped) /\ staged \in Seq(Stamped)
        /\ drainBuffer \in Seq(Stamped)
    BY BuffersAreSequences
  <2>1. CASE Respond
    <3>1. InHand' = InHand /\ delivered' = delivered
      BY <2>1, RespondStages
    <3>2. CASE UNCHANGED <<staged, accepted>>
      BY <3>1, <3>2 DEF ExactlyOnceInOrder
    <3>3. CASE \E s \in Stamped : staged' = staged \o <<s>> /\ accepted' = accepted \o <<s>>
      <4>1. PICK s \in Stamped : staged' = staged \o <<s>> /\ accepted' = accepted \o <<s>>
        BY <3>3
      <4>2. <<s>> \in Seq(Stamped) /\ delivered \o InHand \in Seq(Stamped)
        BY <2>0, ConcatProperties
      <4>3. (delivered \o InHand \o staged) \o <<s>> = delivered \o InHand \o (staged \o <<s>>)
        BY <2>0, <4>2
      <4> QED
        BY <3>1, <4>1, <4>3 DEF ExactlyOnceInOrder
    <3> QED
      BY <2>1, <3>2, <3>3, RespondStages
  <2>2. CASE SwapStaged
    <3>1. delivered \o <<>> \o staged = delivered \o staged \o <<>>
      BY <2>0, ConcatEmptySeq, ConcatProperties
    <3> QED
      BY <2>2, <3>1, SwapHandsOver DEF ExactlyOnceInOrder
  <2>3. CASE AppendToRecord
    <3>1. (delivered \o drainBuffer) \o <<>> \o staged = delivered \o drainBuffer \o staged
      BY <2>0, ConcatEmptySeq, ConcatProperties
    <3> QED
      BY <2>3, <3>1, AppendDelivers DEF ExactlyOnceInOrder
  <2>4. CASE Rest
    BY <2>4, RestMovesNoEvent DEF ExactlyOnceInOrder
  <2> QED
    BY <2>1, <2>2, <2>3, <2>4, StepKinds
<1> QED
  BY <1>1, <1>2, TypesHold, PTL DEF Spec
-----------------------------------------------------------------------------
\* Once the main thread has joined the reader, nothing the reader owns
\* changes: not its place, not the staging buffer, not what a client was told.
THEOREM NothingAfterJoin == Spec => QuietAfterJoin
<1> DEFINE Quiet == (main \in {"close", "stopped"}) => UNCHANGED <<readerVars, staged, reply>>
<1>1. TypeInv /\ [Next]_vars => [Quiet]_vars
  <2> SUFFICES ASSUME TypeInv, Next, main \in {"close", "stopped"}
               PROVE  UNCHANGED <<readerVars, staged, reply>>
    OBVIOUS
  <2> USE DEF clientVars, mainVars, stopVars
  <2>1. reader = "done"
    BY DEF TypeInv, Handover
  <2>2. CASE \E c \in Clients : Connect(c) \/ Send(c) \/ EndInput(c)
    BY <2>2 DEF Connect, Send, EndInput
  <2>3. ~(Reader \/ ReaderFails)
    BY <2>1 DEF Reader, ReaderFails, TestStopping, PollListener, Accept, TestConnection,
                PollConnection, TimeOut, Read, Respond, SendReply, CloseConnection
  <2>4. CASE Main
    BY <2>4 DEF Main, BeginFrame, SwapStaged, AppendToRecord, EndFrame, StoreStopping,
                WriteWake, Join, CloseChannel
  <2>5. CASE Stopped
    BY <2>5 DEF Stopped, vars
  <2> QED
    BY <2>2, <2>3, <2>4, <2>5 DEF Next
<1> QED
  BY <1>1, TypesHold, PTL DEF Spec, QuietAfterJoin

-----------------------------------------------------------------------------
\* What is pending in AgentQueue is what is in the engine's hands, then what
\* is staged: staging accepts, the append delivers, every other step stutters.
THEOREM ChannelImplementsQueue == Spec => ImplementsQueue
<1>1. Init => Queue!Init
  BY ConcatEmptySeq, EmptySeq DEF Init, Queue!Init, InHand
<1>2. TypeInv /\ [Next]_vars => [Queue!Next]_(Queue!vars)
  <2> SUFFICES ASSUME TypeInv, [Next]_vars
               PROVE  Queue!Next \/ UNCHANGED Queue!vars
    OBVIOUS
  <2>0. /\ delivered \in Seq(Stamped) /\ InHand \in Seq(Stamped)
        /\ staged \in Seq(Stamped) /\ drainBuffer \in Seq(Stamped)
    BY BuffersAreSequences
  <2>1. CASE Respond
    <3>1. InHand' = InHand /\ delivered' = delivered
      BY <2>1, RespondStages
    <3>2. CASE UNCHANGED <<staged, accepted>>
      BY <3>1, <3>2 DEF Queue!vars
    <3>3. CASE \E s \in Stamped : staged' = staged \o <<s>>
      <4>1. PICK s \in Stamped : staged' = staged \o <<s>>
        BY <3>3
      <4>2. <<s>> \in Seq(Stamped) /\ InHand \o staged \in Seq(Stamped)
        BY <2>0, ConcatProperties
      <4>3. (InHand \o staged)' = (InHand \o staged) \o <<s>>
        BY <2>0, <3>1, <4>1, <4>2, ConcatAssociative
      <4>4. Queue!Accept(s)
        BY <3>1, <4>2, <4>3, AppendIsConcat DEF Queue!Accept
      <4> QED
        BY <4>4 DEF Queue!Next
    <3> QED
      BY <2>1, <3>2, <3>3, RespondStages
  <2>2. CASE SwapStaged
    BY <2>0, <2>2, SwapHandsOver, ConcatEmptySeq DEF Queue!vars
  <2>3. CASE AppendToRecord
    <3>1. /\ InHand = drainBuffer /\ InHand' = <<>> /\ staged' = staged
          /\ delivered' = delivered \o drainBuffer
      BY <2>3, AppendDelivers
    <3>2. CASE drainBuffer = <<>>
      BY <2>0, <3>1, <3>2, ConcatEmptySeq DEF Queue!vars
    <3>3. CASE drainBuffer # <<>>
      <4> DEFINE pending == InHand \o staged
                 n == Len(drainBuffer)
      <4>1. pending \in Seq(Stamped) /\ Len(pending) = n + Len(staged) /\ n \in 1..Len(pending)
        BY <2>0, <3>1, <3>3, ConcatProperties, LenProperties, EmptySeq
      <4>2. SubSeq(pending, 1, n) = drainBuffer /\ SubSeq(pending, n + 1, Len(pending)) = staged
        BY <2>0, <3>1, <4>1, SubSeqOfConcat1, SubSeqOfConcat2
      <4>3. (InHand \o staged)' = staged
        BY <2>0, <3>1, ConcatEmptySeq
      <4>4. Queue!Deliver
        BY <3>1, <4>1, <4>2, <4>3 DEF Queue!Deliver
      <4> QED
        BY <4>4 DEF Queue!Next
    <3> QED
      BY <3>2, <3>3
  <2>4. CASE Rest
    BY <2>4, RestMovesNoEvent DEF Queue!vars
  <2> QED
    BY <2>1, <2>2, <2>3, <2>4, StepKinds
<1> QED
  BY <1>1, <1>2, TypesHold, PTL DEF Spec, ImplementsQueue, Queue!Spec

-----------------------------------------------------------------------------
(* What a client is told and what runs for it, for any set of clients, any *)
(* lines, cap, read size and backlog.  Both properties speak of a client   *)
(* that may be long gone, so they need to know of every client how far its *)
(* one request has come: Protocol says it.                                 *)

\* The kernel's queue holds each waiting client once, and a client is open
\* exactly while its connection is the one being served.
OnePlaceEach ==
    /\ \A i \in DOMAIN backlog : client[backlog[i]] = "queued"
    /\ \A i, j \in DOMAIN backlog : backlog[i] = backlog[j] => i = j
    /\ \A c \in Clients : (client[c] = "open") = (connection = c)

\* The places where the served client has been answered nothing yet.
Asking == {"testConnection", "pollConnection", "read", "respond"}

\* HandleConnection has not come to an answer for c.
Unanswered(c) ==
    \/ client[c] \in {"idle", "queued"}
    \/ connection = c /\ reader \in Asking

\* Nothing runs for a client before its answer, and the answer about to be
\* sent is the truth about what was staged.
AnswersFollowStaging ==
    /\ \A c \in Clients : Unanswered(c) => From(c) = {} /\ reply[c] = {}
    /\ reader = "reply" =>
           /\ reply[connection] = {}
           /\ response = Ok => \E i \in From(connection) : From(connection) = {i}
           /\ response # Ok => From(connection) = {}

Protocol == OnePlaceEach /\ AnswersFollowStaging /\ RepliesTellTheTruth

\* What has been read was sent, a read follows a poll that found something to
\* read, and BuildResponse follows the read that ended the request.
ReadsFollowSends ==
    /\ \A c \in Clients : sent[c] <= Whole(c)
    /\ connection \in Clients => request <= sent[connection]
    /\ reader = "read" => Readable
    /\ reader = "respond" => \/ request = Whole(connection)
                             \/ request >= Cap
                             \/ ended[connection] /\ request = sent[connection]

Progress == ReadsFollowSends /\ OnlyFinishedLinesRun

-----------------------------------------------------------------------------
(* Where a step leaves what a client is told alone.                        *)

\* What Protocol says is about these, and which events there are of whom.
answerVars == <<client, reply, backlog, connection, accepted, response>>

\* A client's writing is nothing to the protocol.
LEMMA WritingKeepsProtocol ==
    ASSUME Protocol, NEW c \in Clients, Send(c) \/ EndInput(c)
    PROVE  Protocol'
<1>1. UNCHANGED <<answerVars, reader>>
  BY DEF Send, EndInput, answerVars, readerVars
<1> QED
  BY <1>1 DEF Protocol, OnePlaceEach, AnswersFollowStaging, RepliesTellTheTruth, Unanswered,
              From, answerVars

\* The reader's places move, and it serves the same client: nothing that was
\* answered comes undone.
LEMMA MovingKeepsProtocol ==
    ASSUME TypeInv, Protocol, UNCHANGED answerVars,
           reader' \in Asking => reader \in Asking,
           reader' = "reply" => reader = "reply"
    PROVE  Protocol'
<1>1. \A c \in Clients : Unanswered(c)' => Unanswered(c)
  BY DEF Unanswered, answerVars
<1> QED
  BY <1>1 DEF Protocol, OnePlaceEach, AnswersFollowStaging, RepliesTellTheTruth, From, answerVars

\* A new client waits at the end of the queue and has been told nothing.
LEMMA ConnectKeepsProtocol ==
    ASSUME TypeInv, Protocol, NEW c \in Clients, Connect(c)
    PROVE  Protocol'
<1>1. /\ client[c] = "idle" /\ client' = [client EXCEPT ![c] = "queued"]
      /\ backlog' = Append(backlog, c)
      /\ UNCHANGED <<reply, reader, connection, response, accepted>>
  BY DEF Connect, readerVars
<1>2. backlog \in Seq(Clients) /\ client \in [Clients -> ClientState]
  BY DEF TypeInv, TypeOK
<1>3. /\ DOMAIN backlog' = 1 .. Len(backlog) + 1 /\ DOMAIN backlog = 1 .. Len(backlog)
      /\ \A i \in 1 .. Len(backlog) : backlog'[i] = backlog[i]
      /\ backlog'[Len(backlog) + 1] = c /\ Len(backlog) \in Nat
  BY <1>1, <1>2
<1>4. \A i \in DOMAIN backlog : backlog[i] \in Clients /\ backlog[i] # c
  BY <1>1, <1>2 DEF Protocol, OnePlaceEach
<1>5. \A i \in DOMAIN backlog' : client'[backlog'[i]] = "queued"
  BY <1>1, <1>2, <1>3, <1>4 DEF Protocol, OnePlaceEach
<1>6. \A i, j \in DOMAIN backlog' : backlog'[i] = backlog'[j] => i = j
  BY <1>3, <1>4 DEF Protocol, OnePlaceEach
<1>7. \A d \in Clients : (client'[d] = "open") = (connection' = d)
  BY <1>1, <1>2 DEF Protocol, OnePlaceEach
<1>8. \A d \in Clients : Unanswered(d)' => Unanswered(d)
  BY <1>1, <1>2 DEF Unanswered
<1> QED
  BY <1>1, <1>5, <1>6, <1>7, <1>8
  DEF Protocol, OnePlaceEach, AnswersFollowStaging, RepliesTellTheTruth, From

\* The client accepted is the one that waited longest, and it waited once.
LEMMA AcceptKeepsProtocol ==
    ASSUME TypeInv, Protocol, Accept
    PROVE  Protocol'
<1> DEFINE c == Head(backlog)
<1>1. /\ reader = "accept" /\ reader' = "testConnection" /\ connection' = c
      /\ backlog' = Tail(backlog) /\ client' = [client EXCEPT ![c] = "open"]
      /\ UNCHANGED <<reply, response, accepted>>
  BY DEF Accept
<1>2. /\ backlog \in Seq(Clients) /\ backlog # <<>> /\ client \in [Clients -> ClientState]
      /\ connection \notin Clients
  BY <1>1 DEF TypeInv, TypeOK, Handover, Serving
<1>3. /\ DOMAIN backlog = 1 .. Len(backlog) /\ Len(backlog) \in Nat \ {0}
      /\ DOMAIN backlog' = 1 .. Len(backlog) - 1
      /\ \A i \in 1 .. Len(backlog) - 1 : backlog'[i] = backlog[i + 1]
      /\ c = backlog[1]
  BY <1>1, <1>2
<1>4. c \in Clients /\ client[c] = "queued"
  BY <1>2, <1>3 DEF Protocol, OnePlaceEach
<1>5. \A i \in DOMAIN backlog' : i + 1 \in DOMAIN backlog /\ backlog[i + 1] \in Clients /\ backlog[i + 1] # c
  <2> SUFFICES ASSUME NEW i \in DOMAIN backlog'
               PROVE  i + 1 \in DOMAIN backlog /\ backlog[i + 1] \in Clients /\ backlog[i + 1] # c
    OBVIOUS
  <2>1. i \in Nat /\ 1 \in DOMAIN backlog /\ i + 1 \in DOMAIN backlog /\ i + 1 # 1
    BY <1>3
  <2>2. backlog[i + 1] = backlog[1] => i + 1 = 1
    BY <2>1 DEF Protocol, OnePlaceEach
  <2>3. backlog[i + 1] \in Clients
    BY <1>2, <2>1
  <2> QED
    BY <1>3, <2>1, <2>2, <2>3
<1>6. \A i \in DOMAIN backlog' : client'[backlog'[i]] = "queued"
  BY <1>1, <1>2, <1>3, <1>5 DEF Protocol, OnePlaceEach
<1>7. \A i, j \in DOMAIN backlog' : backlog'[i] = backlog'[j] => i = j
  <2> SUFFICES ASSUME NEW i \in DOMAIN backlog', NEW j \in DOMAIN backlog', backlog'[i] = backlog'[j]
               PROVE  i = j
    OBVIOUS
  <2>1. i + 1 = j + 1
    BY <1>3, <1>5 DEF Protocol, OnePlaceEach
  <2> QED
    BY <1>3, <2>1
<1>8. \A d \in Clients : (client'[d] = "open") = (connection' = d)
  BY <1>1, <1>2, <1>4 DEF Protocol, OnePlaceEach
<1>9. \A d \in Clients : Unanswered(d)' => Unanswered(d)
  BY <1>1, <1>2, <1>4 DEF Unanswered
<1> QED
  BY <1>1, <1>6, <1>7, <1>8, <1>9
  DEF Protocol, OnePlaceEach, AnswersFollowStaging, RepliesTellTheTruth, From
-----------------------------------------------------------------------------
(* The answer.                                                             *)

\* Staging an event of c adds its place to From(c) and to no other.
LEMMA StagedIsFrom ==
    ASSUME TypeInv, NEW s \in Stamped, accepted' = Append(accepted, s)
    PROVE  /\ From(s.from)' = From(s.from) \cup {Len(accepted) + 1}
           /\ \A d \in Clients : d # s.from => From(d)' = From(d)
<1>1. accepted \in Seq(Stamped)
  BY DEF TypeInv, TypeOK
<1>2. /\ DOMAIN accepted' = 1 .. Len(accepted) + 1 /\ DOMAIN accepted = 1 .. Len(accepted)
      /\ \A i \in 1 .. Len(accepted) : accepted'[i] = accepted[i]
      /\ accepted'[Len(accepted) + 1] = s /\ Len(accepted) \in Nat
  BY <1>1
<1> QED
  BY <1>2 DEF From

\* What BuildResponse does to the served client.
LEMMA RespondAnswers ==
    ASSUME TypeInv, Respond
    PROVE  LET outcome == IF CutOff THEN CutOffError ELSE ParseCommand(connection, request)
               stamped == [event |-> outcome, from |-> connection]
           IN  /\ connection \in Clients
               /\ \/ response' \in Errors /\ response' # Ok /\ UNCHANGED accepted
                  \/ /\ response' = Ok /\ ~CutOff /\ stamped \in Stamped
                     /\ accepted' = Append(accepted, stamped)
<1> DEFINE outcome == IF CutOff THEN CutOffError ELSE ParseCommand(connection, request)
           stamped == [event |-> outcome, from |-> connection]
<1>1. connection \in Clients /\ request \in Nat
  BY DEF Respond, TypeInv, TypeOK, Serving
<1>2. outcome \in Errors \/ outcome \in Events
  BY <1>1, ParseCommandType, ChannelAssumption DEF Outcomes
<1>3. CASE outcome \in Errors
  BY <1>1, <1>3, ChannelAssumption DEF Respond
<1>4. CASE outcome \notin Errors
  <2>1. stamped \in Stamped /\ ~CutOff
    BY <1>1, <1>2, <1>4, ChannelAssumption DEF Stamped
  <2>2. response' = Ok /\ accepted' = Append(accepted, stamped)
    BY <1>4 DEF Respond
  <2> QED
    BY <1>1, <2>1, <2>2
<1> QED
  BY <1>3, <1>4

\* The served client has asked for nothing before: what is staged is the one
\* event it is about to be told of.
LEMMA RespondKeepsProtocol ==
    ASSUME TypeInv, Protocol, Respond
    PROVE  Protocol'
<1> DEFINE outcome == IF CutOff THEN CutOffError ELSE ParseCommand(connection, request)
           stamped == [event |-> outcome, from |-> connection]
<1>1. /\ reader = "respond" /\ reader' = "reply"
      /\ UNCHANGED <<client, reply, backlog, connection>>
  BY DEF Respond, clientVars
<1>2. connection \in Clients /\ From(connection) = {} /\ reply[connection] = {}
  BY <1>1, RespondAnswers DEF Protocol, AnswersFollowStaging, Unanswered, Asking
<1>3. OnePlaceEach'
  BY <1>1 DEF Protocol, OnePlaceEach
<1>4. \A d \in Clients : d # connection => From(d)' = From(d)
  <2>1. CASE UNCHANGED accepted
    BY <2>1 DEF From
  <2>2. CASE accepted' = Append(accepted, stamped) /\ stamped \in Stamped
    BY <2>2, StagedIsFrom
  <2> QED
    BY <2>1, <2>2, RespondAnswers
<1>5. \/ response' # Ok /\ From(connection)' = {}
      \/ response' = Ok /\ From(connection)' = {Len(accepted) + 1}
  <2>1. CASE response' # Ok /\ UNCHANGED accepted
    BY <1>1, <1>2, <2>1 DEF From
  <2>2. CASE response' = Ok /\ accepted' = Append(accepted, stamped) /\ stamped \in Stamped
    <3>1. PICK s \in Stamped : s = stamped
      BY <2>2
    <3>2. From(s.from)' = From(s.from) \cup {Len(accepted) + 1}
      BY <2>2, <3>1, StagedIsFrom
    <3>3. s.from = connection /\ connection' = s.from
      BY <1>1, <3>1
    <3> QED
      BY <1>2, <2>2, <3>2, <3>3
  <2> QED
    BY <2>1, <2>2, RespondAnswers
<1>6. \A d \in Clients : Unanswered(d)' => Unanswered(d) /\ d # connection
  BY <1>1, <1>2 DEF Unanswered, Asking, Protocol, OnePlaceEach
<1>7. AnswersFollowStaging'
  BY <1>1, <1>2, <1>4, <1>5, <1>6 DEF Protocol, AnswersFollowStaging
<1>8. RepliesTellTheTruth'
  <2> SUFFICES ASSUME NEW d \in Clients
               PROVE  /\ Ok \in reply'[d] => \E i \in From(d)' : From(d)' = {i}
                      /\ reply'[d] \cap Errors # {} => From(d)' = {}
    BY DEF RepliesTellTheTruth
  <2>1. CASE d = connection
    BY <1>1, <1>2, <2>1
  <2>2. CASE d # connection
    BY <1>1, <1>4, <2>2 DEF Protocol, RepliesTellTheTruth
  <2> QED
    BY <2>1, <2>2
<1> QED
  BY <1>3, <1>7, <1>8 DEF Protocol

\* The one answer a client gets is the one its request was given.
LEMMA SendReplyKeepsProtocol ==
    ASSUME TypeInv, Protocol, SendReply
    PROVE  Protocol'
<1> DEFINE c == connection
<1>1. /\ reader = "reply" /\ reader' = "close"
      /\ UNCHANGED <<client, backlog, connection, response, accepted>>
      /\ reply' = [reply EXCEPT ![c] = @ \cup {response}] \/ reply' = reply
  BY DEF SendReply
<1>2. c \in Clients /\ reply \in [Clients -> SUBSET (Errors \cup {Ok})]
  BY <1>1 DEF TypeInv, TypeOK, Serving
<1>3. /\ reply[c] = {} /\ response \in Errors \cup {Ok}
      /\ response = Ok => \E i \in From(c) : From(c) = {i}
      /\ response # Ok => From(c) = {}
  BY <1>1 DEF Protocol, AnswersFollowStaging, TypeInv, TypeOK
<1>4. \A d \in Clients : From(d)' = From(d) /\ (d # c => reply'[d] = reply[d])
  BY <1>1, <1>2 DEF From
<1>5. reply'[c] = {} \/ reply'[c] = {response}
  BY <1>1, <1>2, <1>3
<1>6. OnePlaceEach'
  BY <1>1 DEF Protocol, OnePlaceEach
<1>7. \A d \in Clients : Unanswered(d)' => Unanswered(d) /\ d # c
  BY <1>1, <1>2 DEF Unanswered, Asking, Protocol, OnePlaceEach
<1>8. AnswersFollowStaging'
  BY <1>1, <1>4, <1>7 DEF Protocol, AnswersFollowStaging
<1>9. RepliesTellTheTruth'
  <2> SUFFICES ASSUME NEW d \in Clients
               PROVE  /\ Ok \in reply'[d] => \E i \in From(d) : From(d) = {i}
                      /\ reply'[d] \cap Errors # {} => From(d) = {}
    BY <1>4 DEF RepliesTellTheTruth
  <2>1. CASE d = c
    BY <1>3, <1>5, <2>1, ChannelAssumption
  <2>2. CASE d # c
    BY <1>4, <2>2 DEF Protocol, RepliesTellTheTruth
  <2> QED
    BY <2>1, <2>2
<1> QED
  BY <1>6, <1>8, <1>9 DEF Protocol

\* A closed connection is no one's.
LEMMA CloseConnectionKeepsProtocol ==
    ASSUME TypeInv, Protocol, CloseConnection
    PROVE  Protocol'
<1> DEFINE c == connection
<1>1. /\ reader = "close" /\ reader' = "loop" /\ connection' = NoClient
      /\ client' = [client EXCEPT ![c] = "closed"]
      /\ UNCHANGED <<reply, backlog, response, accepted>>
  BY DEF CloseConnection
<1>2. c \in Clients /\ client \in [Clients -> ClientState] /\ backlog \in Seq(Clients)
  BY <1>1 DEF TypeInv, TypeOK, Serving
<1>3. client[c] = "open" /\ NoClient \notin Clients
  BY <1>2, ChannelAssumption DEF Protocol, OnePlaceEach
<1>4. \A i \in DOMAIN backlog : backlog[i] \in Clients /\ backlog[i] # c
  BY <1>2, <1>3 DEF Protocol, OnePlaceEach
<1>5. OnePlaceEach'
  BY <1>1, <1>2, <1>3, <1>4 DEF Protocol, OnePlaceEach
<1>6. \A d \in Clients : Unanswered(d)' => Unanswered(d)
  BY <1>1, <1>2, <1>3 DEF Unanswered
<1> QED
  BY <1>1, <1>5, <1>6 DEF Protocol, AnswersFollowStaging, RepliesTellTheTruth, From

\* Who is still queued when the channel closes is disconnected untold.
LEMMA CloseChannelKeepsProtocol ==
    ASSUME TypeInv, Protocol, CloseChannel
    PROVE  Protocol'
<1>1. /\ backlog' = <<>> /\ client' = [c \in Clients |-> IF client[c] = "queued" THEN "closed" ELSE client[c]]
      /\ UNCHANGED <<reply, reader, connection, response, accepted>>
  BY DEF CloseChannel, readerVars
<1>2. OnePlaceEach'
  BY <1>1 DEF Protocol, OnePlaceEach
<1>3. \A d \in Clients : Unanswered(d)' => Unanswered(d)
  BY <1>1 DEF Unanswered
<1> QED
  BY <1>1, <1>2, <1>3 DEF Protocol, AnswersFollowStaging, RepliesTellTheTruth, From

-----------------------------------------------------------------------------
\* A client that was told "ok" has one event staged and one told of an error
\* has none, however many clients there are and whatever they send.
THEOREM AnswersAreTrue == Spec => []RepliesTellTheTruth
<1>1. Init => Protocol
  <2> SUFFICES ASSUME Init PROVE Protocol
    OBVIOUS
  <2>1. DOMAIN accepted = {} /\ DOMAIN backlog = {}
    BY DEF Init
  <2>2. \A c \in Clients : From(c) = {} /\ reply[c] = {} /\ client[c] = "idle"
    BY <2>1 DEF Init, From
  <2> QED
    BY <2>1, <2>2, ChannelAssumption
    DEF Init, Protocol, OnePlaceEach, AnswersFollowStaging, RepliesTellTheTruth
<1>2. TypeInv /\ Protocol /\ [Next]_vars => Protocol'
  <2> SUFFICES ASSUME TypeInv, Protocol, [Next]_vars PROVE Protocol'
    OBVIOUS
  <2> USE DEF clientVars, readerVars, mainVars, stopVars, answerVars
  <2>1. ASSUME NEW c \in Clients, Connect(c) \/ Send(c) \/ EndInput(c) PROVE Protocol'
    BY <2>1, ConnectKeepsProtocol, WritingKeepsProtocol
  <2>2. CASE TestStopping \/ PollListener
    BY <2>2, MovingKeepsProtocol DEF TestStopping, PollListener, Asking
  <2>3. CASE TestConnection \/ PollConnection \/ TimeOut \/ Read \/ ReaderFails
    BY <2>3, MovingKeepsProtocol
    DEF TestConnection, PollConnection, TimeOut, Read, ReaderFails, Asking
  <2>4. CASE Accept \/ Respond \/ SendReply \/ CloseConnection
    BY <2>4, AcceptKeepsProtocol, RespondKeepsProtocol, SendReplyKeepsProtocol,
       CloseConnectionKeepsProtocol
  <2>5. CASE \/ BeginFrame \/ SwapStaged \/ AppendToRecord \/ EndFrame
             \/ StoreStopping \/ WriteWake \/ Join
    BY <2>5, MovingKeepsProtocol
    DEF BeginFrame, SwapStaged, AppendToRecord, EndFrame, StoreStopping, WriteWake, Join
  <2>6. CASE CloseChannel
    BY <2>6, CloseChannelKeepsProtocol
  <2>7. CASE Stopped \/ UNCHANGED vars
    BY <2>7, MovingKeepsProtocol DEF Stopped, vars
  <2> QED
    BY <2>1, <2>2, <2>3, <2>4, <2>5, <2>6, <2>7 DEF Next, Reader, Main
<1>3. Protocol => RepliesTellTheTruth
  BY DEF Protocol
<1> QED
  BY <1>1, <1>2, <1>3, TypesHold, PTL DEF Spec
-----------------------------------------------------------------------------
(* What runs is what the client finished.                                  *)

\* A client writes no more once its line is whole or its input has ended.
LEMMA WritingKeepsProgress ==
    ASSUME TypeInv, Progress, NEW c \in Clients, Send(c) \/ EndInput(c)
    PROVE  Progress'
<1>1. UNCHANGED <<reader, connection, request, accepted>>
  BY DEF Send, EndInput, readerVars
<1>2. /\ sent \in [Clients -> Nat] /\ ended \in [Clients -> BOOLEAN] /\ request \in Nat
      /\ \A d \in Clients : Whole(d) \in Nat
      /\ accepted \in Seq(Stamped) /\ \A i \in DOMAIN accepted : accepted[i].from \in Clients
  <2>1. accepted \in Seq(Stamped)
    BY DEF TypeInv, TypeOK
  <2>2. \A i \in DOMAIN accepted : accepted[i] \in Stamped
    BY <2>1
  <2> QED
    BY <2>1, <2>2, ChannelAssumption DEF TypeInv, TypeOK, Whole, Stamped
<1>3. CASE Send(c)
  <2>1. /\ ~ended[c] /\ sent[c] < Whole(c) /\ sent' = [sent EXCEPT ![c] = @ + 1] /\ ended' = ended
    BY <1>3 DEF Send
  <2>2. \A d \in Clients : sent'[d] <= Whole(d) /\ sent'[d] >= sent[d] /\ (d # c => sent'[d] = sent[d])
    BY <1>2, <2>1 DEF Progress, ReadsFollowSends
  <2>3. \A i \in DOMAIN accepted : accepted[i].from # c
    BY <1>2, <2>1 DEF Progress, OnlyFinishedLinesRun
  <2>4. OnlyFinishedLinesRun'
    BY <1>1, <1>2, <2>1, <2>2, <2>3 DEF Progress, OnlyFinishedLinesRun, Whole, ParseCommand
  <2>5. reader \in {"read", "respond"} => connection \in Clients
    BY DEF TypeInv, TypeOK, Serving
  <2>6. /\ connection \in Clients => request <= sent'[connection]
        /\ reader = "read" => sent'[connection] > request \/ ended[connection]
    <3>1. ASSUME connection \in Clients
          PROVE  sent[connection] \in Nat /\ sent'[connection] \in Nat
                 /\ sent'[connection] >= sent[connection]
      BY <1>2, <2>1, <2>2, <3>1
    <3>2. CASE connection \in Clients
      BY <1>2, <2>5, <3>1, <3>2 DEF Progress, ReadsFollowSends, Readable
    <3> QED
      BY <2>5, <3>2
  <2>7. reader = "respond" /\ ended[connection] => sent'[connection] = sent[connection]
    BY <2>1, <2>2, <2>5
  <2>8. ReadsFollowSends'
    BY <1>1, <2>1, <2>2, <2>6, <2>7 DEF Progress, ReadsFollowSends, Readable, Whole
  <2> QED
    BY <2>4, <2>8 DEF Progress
<1>4. CASE EndInput(c)
  <2>1. sent' = sent /\ ended' = [ended EXCEPT ![c] = TRUE]
    BY <1>4 DEF EndInput
  <2>2. \A d \in Clients : ended[d] => ended'[d]
    BY <1>2, <2>1
  <2>3. OnlyFinishedLinesRun'
    BY <1>1, <1>2, <2>1, <2>2 DEF Progress, OnlyFinishedLinesRun, Whole, ParseCommand
  <2>4. reader \in {"read", "respond"} => connection \in Clients
    BY DEF TypeInv, TypeOK, Serving
  <2>5. ReadsFollowSends'
    BY <1>1, <2>1, <2>2, <2>4 DEF Progress, ReadsFollowSends, Readable, Whole
  <2> QED
    BY <2>3, <2>5 DEF Progress
<1> QED
  BY <1>3, <1>4

\* Steps that read nothing of the connection leave what was read and sent.
LEMMA MovingKeepsProgress ==
    ASSUME Progress, UNCHANGED <<sent, ended, request, accepted>>,
           connection' \in Clients => connection' = connection,
           reader' \notin {"read", "respond"} \/ UNCHANGED <<reader, connection>>
    PROVE  Progress'
BY DEF Progress, ReadsFollowSends, OnlyFinishedLinesRun, Readable, Whole, ParseCommand

\* A poll ends in a read only if it found something to read.
LEMMA PollKeepsProgress ==
    ASSUME Progress, PollConnection
    PROVE  Progress'
<1>1. UNCHANGED <<sent, ended, request, accepted, connection>>
  BY DEF PollConnection, clientVars
<1>2. reader' \in {"close", "read"} /\ (reader' = "read" => Readable)
  BY DEF PollConnection
<1> QED
  BY <1>1, <1>2
  DEF Progress, ReadsFollowSends, OnlyFinishedLinesRun, Readable, Whole, ParseCommand

\* A request begins with nothing read.
LEMMA AcceptKeepsProgress ==
    ASSUME TypeInv, Progress, Accept
    PROVE  Progress'
<1>1. /\ request' = 0 /\ reader' = "testConnection" /\ UNCHANGED <<sent, ended, accepted>>
  BY DEF Accept
<1>2. sent \in [Clients -> Nat]
  BY DEF TypeInv, TypeOK
<1> QED
  BY <1>1, <1>2
  DEF Progress, ReadsFollowSends, OnlyFinishedLinesRun, Readable, Whole, ParseCommand

\* A read takes no more than was sent, and ends the request at its newline,
\* at the cap, or at the end of the input.
LEMMA ReadKeepsProgress ==
    ASSUME TypeInv, Progress, Read
    PROVE  Progress'
<1> DEFINE unread == sent[connection] - request
           total  == request + Smaller(unread, ReadSize)
<1>1. /\ reader = "read" /\ request' = total
      /\ reader' = IF unread = 0 \/ total = Whole(connection) \/ total >= Cap
                   THEN "respond" ELSE "testConnection"
      /\ UNCHANGED <<sent, ended, accepted, connection>>
  BY DEF Read, clientVars
<1>2. /\ connection \in Clients /\ sent \in [Clients -> Nat] /\ request \in Nat
      /\ ReadSize \in Nat \ {0}
  BY <1>1, ChannelAssumption DEF TypeInv, TypeOK, Serving
<1>3. request <= sent[connection] /\ (sent[connection] > request \/ ended[connection])
  BY <1>1, <1>2 DEF Progress, ReadsFollowSends, Readable
<1>4. total <= sent[connection] /\ (unread = 0 => total = request /\ total = sent[connection])
  BY <1>2, <1>3 DEF Smaller
<1>5. reader' = "respond" => \/ total = Whole(connection) \/ total >= Cap
                             \/ ended[connection] /\ total = sent[connection]
  <2>1. CASE unread = 0
    BY <1>2, <1>3, <1>4, <2>1
  <2>2. CASE unread # 0
    BY <1>1, <2>2
  <2> QED
    BY <2>1, <2>2
<1>6. reader' # "read"
  BY <1>1
<1>7. ReadsFollowSends'
  BY <1>1, <1>4, <1>5, <1>6 DEF Progress, ReadsFollowSends, Whole
<1> QED
  BY <1>1, <1>7 DEF Progress, OnlyFinishedLinesRun, Whole, ParseCommand

\* What BuildResponse stages is the meaning of all the client sent, and the
\* client sends no more.
LEMMA RespondKeepsProgress ==
    ASSUME TypeInv, Progress, Respond
    PROVE  Progress'
<1> DEFINE outcome == IF CutOff THEN CutOffError ELSE ParseCommand(connection, request)
           stamped == [event |-> outcome, from |-> connection]
<1>1. /\ reader = "respond" /\ reader' = "reply"
      /\ UNCHANGED <<sent, ended, request, connection>>
  BY DEF Respond, clientVars
<1>2. ReadsFollowSends'
  BY <1>1 DEF Progress, ReadsFollowSends, Whole
<1>3. connection \in Clients
  BY RespondAnswers
<1>4. /\ sent[connection] <= Whole(connection) /\ request <= sent[connection]
      /\ \/ request = Whole(connection) \/ request >= Cap
         \/ ended[connection] /\ request = sent[connection]
  BY <1>1, <1>3 DEF Progress, ReadsFollowSends
<1>5. sent[connection] \in Nat /\ request \in Nat /\ Whole(connection) \in Nat
  BY <1>3, ChannelAssumption DEF TypeInv, TypeOK, Whole
<1>6. ~CutOff => /\ sent[connection] = Whole(connection) \/ ended[connection]
                 /\ request = sent[connection]
  BY <1>4, <1>5, ChannelAssumption DEF CutOff
<1>7. CASE UNCHANGED accepted
  BY <1>1, <1>2, <1>7 DEF Progress, OnlyFinishedLinesRun, Whole, ParseCommand
<1>8. CASE ~CutOff /\ stamped \in Stamped /\ accepted' = Append(accepted, stamped)
  <2>1. accepted \in Seq(Stamped)
    BY DEF TypeInv, TypeOK
  <2>2. /\ DOMAIN accepted' = 1 .. Len(accepted) + 1 /\ DOMAIN accepted = 1 .. Len(accepted)
        /\ \A i \in 1 .. Len(accepted) : accepted'[i] = accepted[i]
        /\ accepted'[Len(accepted) + 1] = stamped
    BY <1>8, <2>1
  <2>3. stamped.from = connection /\ stamped.event = ParseCommand(connection, sent[connection])
    BY <1>6, <1>8
  <2>4. \A i \in DOMAIN accepted' : i \in DOMAIN accepted \/ i = Len(accepted) + 1
    BY <2>1, <2>2
  <2>5. OnlyFinishedLinesRun'
    <3> SUFFICES ASSUME NEW i \in DOMAIN accepted'
                 PROVE  LET c == accepted'[i].from IN
                        /\ sent[c] = Whole(c) \/ ended[c]
                        /\ accepted'[i].event = ParseCommand(c, sent[c])
      BY <1>1 DEF OnlyFinishedLinesRun, Whole, ParseCommand
    <3>1. CASE i \in DOMAIN accepted
      BY <2>2, <3>1 DEF Progress, OnlyFinishedLinesRun
    <3>2. CASE i = Len(accepted) + 1
      BY <1>6, <1>8, <2>2, <2>3, <3>2
    <3> QED
      BY <2>4, <3>1, <3>2
  <2> QED
    BY <1>2, <2>5 DEF Progress
<1> QED
  BY <1>7, <1>8, RespondAnswers

-----------------------------------------------------------------------------
\* An event that runs is what its client's finished line means: a line cut off
\* at the cap, or read in part, never runs, for any cap and any read size.
THEOREM CutOffLinesNeverRun == Spec => []OnlyFinishedLinesRun
<1>1. Init => Progress
  BY ChannelAssumption DEF Init, Progress, ReadsFollowSends, OnlyFinishedLinesRun, Whole
<1>2. TypeInv /\ Progress /\ [Next]_vars => Progress'
  <2> SUFFICES ASSUME TypeInv, Progress, [Next]_vars PROVE Progress'
    OBVIOUS
  <2> USE DEF clientVars, readerVars, mainVars, stopVars
  <2>1. ASSUME NEW c \in Clients, Connect(c) \/ Send(c) \/ EndInput(c) PROVE Progress'
    <3>1. CASE Connect(c)
      BY <3>1, MovingKeepsProgress DEF Connect
    <3> QED
      BY <2>1, <3>1, WritingKeepsProgress
  <2>2. CASE TestStopping \/ PollListener \/ TestConnection \/ TimeOut
    BY <2>2, MovingKeepsProgress DEF TestStopping, PollListener, TestConnection, TimeOut
  <2>3. CASE SendReply \/ ReaderFails
    BY <2>3, MovingKeepsProgress DEF SendReply, ReaderFails
  <2>4. CASE CloseConnection
    BY <2>4, MovingKeepsProgress, ChannelAssumption DEF CloseConnection
  <2>5. CASE Accept \/ PollConnection \/ Read \/ Respond
    BY <2>5, AcceptKeepsProgress, PollKeepsProgress, ReadKeepsProgress, RespondKeepsProgress
  <2>6. CASE \/ BeginFrame \/ SwapStaged \/ AppendToRecord \/ EndFrame
             \/ StoreStopping \/ WriteWake \/ Join \/ CloseChannel
    BY <2>6, MovingKeepsProgress
    DEF BeginFrame, SwapStaged, AppendToRecord, EndFrame, StoreStopping, WriteWake, Join,
        CloseChannel
  <2>7. CASE Stopped \/ UNCHANGED vars
    BY <2>7, MovingKeepsProgress DEF Stopped, vars
  <2> QED
    BY <2>1, <2>2, <2>3, <2>4, <2>5, <2>6, <2>7 DEF Next, Reader, Main
<1>3. Progress => OnlyFinishedLinesRun
  BY DEF Progress
<1> QED
  BY <1>1, <1>2, <1>3, TypesHold, PTL DEF Spec

-----------------------------------------------------------------------------
(* AgentChannelTimed.                                                      *)

\* What has been read of the served client's line was sent by it, and a poll
\* on the connection that ends well has found something to read.
ReadWhatWasSent ==
    /\ reader \in Serving => request <= sent[connection]
    /\ reader = "read" => Readable

\* A wait is only begun below the cap, and each one before it brought a unit.
WaitsArePaidFor ==
    /\ reader \in {"testConnection", "pollConnection", "read"} => request < Cap
    /\ reader = "testConnection" => held <= Timeout * request
    /\ reader = "pollConnection" => held <= Timeout * request + quiet
    /\ reader = "read" => held <= Timeout * request + Timeout

TimedInv == TypeInv /\ TimedTypeOK /\ ReadWhatWasSent /\ WaitsArePaidFor /\ HeldForLongestRequest

-----------------------------------------------------------------------------
\* A timeout for every unit up to and including the next one is within the
\* bound, as long as the next one is within the cap.
LEMMA OneMoreUnit ==
    ASSUME NEW n \in Nat, NEW m \in Nat, n < m
    PROVE  /\ Timeout * n \in Nat
           /\ Timeout * n + Timeout <= Timeout * m
<1>1. m - n - 1 \in Nat /\ m = n + 1 + (m - n - 1)
  OBVIOUS
<1>2. \A k \in Nat : Timeout * k \in Nat
  BY TimeoutAssumption
<1>3. Timeout * m = Timeout * n + Timeout + Timeout * (m - n - 1)
  BY <1>1, TimeoutAssumption
<1> QED
  BY <1>1, <1>2, <1>3, TimeoutAssumption

\* A step of the channel leaves the clocks within their ranges.
LEMMA StepKeepsClocks == ASSUME TimedTypeOK, Step PROVE TimedTypeOK'
BY TimeoutAssumption DEF TimedTypeOK, Step

\* Neither a client nor the main thread takes back what was sent, or moves
\* the reader.
LEMMA OthersKeepTheWait ==
    ASSUME TimedInv, Step,
           \/ \E c \in Clients : Connect(c) \/ Send(c) \/ EndInput(c)
           \/ Main \/ Stopped
    PROVE  ReadWhatWasSent' /\ WaitsArePaidFor' /\ HeldForLongestRequest'
<1>1. UNCHANGED readerVars
  BY DEF Main, Connect, Send, EndInput, Stopped, vars, BeginFrame, SwapStaged, AppendToRecord,
         EndFrame, StoreStopping, WriteWake, Join, CloseChannel
<1>2. \A c \in Clients : /\ sent[c] \in Nat /\ sent'[c] \in Nat /\ sent[c] <= sent'[c]
                         /\ ended[c] => ended'[c]
  BY DEF TimedInv, TypeInv, TypeOK, Main, Connect, Send, EndInput, Stopped, vars, clientVars,
         BeginFrame, SwapStaged, AppendToRecord, EndFrame, StoreStopping, WriteWake, Join, CloseChannel
<1>3. /\ request \in Nat /\ held' = held
      /\ reader \in Serving => connection \in Clients
      /\ reader = "pollConnection" => quiet' = quiet
  BY <1>1 DEF TimedInv, TypeInv, TypeOK, Step, readerVars
<1>4. ReadWhatWasSent'
  BY <1>1, <1>2, <1>3 DEF TimedInv, ReadWhatWasSent, Readable, readerVars, Serving
<1>5. WaitsArePaidFor' /\ HeldForLongestRequest'
  BY <1>1, <1>3 DEF TimedInv, WaitsArePaidFor, HeldForLongestRequest, readerVars
<1> QED
  BY <1>4, <1>5

\* The reader pays for each wait with a unit read, and gives up at the cap.
LEMMA ReaderKeepsTheWait ==
    ASSUME TimedInv, Step, Reader \/ ReaderFails
    PROVE  ReadWhatWasSent' /\ WaitsArePaidFor' /\ HeldForLongestRequest'
<1> USE ChannelAssumption, TimeoutAssumption
    DEF TimedInv, TimedTypeOK, TypeInv, TypeOK, Step, ReadWhatWasSent, WaitsArePaidFor,
        HeldForLongestRequest, Serving, Readable, clientVars
<1>1. CASE TestStopping
  BY <1>1 DEF TestStopping
<1>2. CASE PollListener
  BY <1>2 DEF PollListener
<1>3. CASE Accept
  <2>1. /\ reader = "accept" /\ reader' = "testConnection" /\ request' = 0 /\ held' = 0
        /\ sent' = sent /\ connection' \in Clients
    BY <1>3, StepKeepsTypes DEF Accept
  <2>2. Timeout * 0 = 0
    OBVIOUS
  <2>3. sent[connection'] \in Nat
    BY <2>1
  <2> QED
    BY <2>1, <2>2, <2>3
<1>4. CASE TestConnection
  BY <1>4 DEF TestConnection
<1>5. CASE PollConnection
  BY <1>5, OneMoreUnit DEF PollConnection
<1>6. CASE TimeOut
  BY <1>6 DEF TimeOut
<1>7. CASE Read
  <2>1. /\ reader = "read" /\ connection \in Clients /\ connection' = connection
        /\ sent' = sent /\ ended' = ended /\ held' = held /\ request < Cap
        /\ sent[connection] \in Nat /\ request <= sent[connection]
        /\ held <= Timeout * request + Timeout
    BY <1>7 DEF Read
  <2>2. CASE reader' = "respond"
    BY <1>7, <2>1, <2>2 DEF Read, Smaller
  <2>3. CASE reader' = "testConnection"
    <3>1. request < request' /\ request' <= sent[connection] /\ request' < Cap
      BY <1>7, <2>1, <2>3 DEF Read, Smaller
    <3>2. request' \in Nat
      BY <3>1, <2>1, StepKeepsTypes
    <3>3. held' <= Timeout * request'
      <4>1. PICK n \in Nat, m \in Nat : n = request /\ m = request' /\ n < m
        BY <3>1, <3>2
      <4>3. Timeout * n \in Nat /\ Timeout * n + Timeout <= Timeout * m
        BY ONLY <4>1, OneMoreUnit
      <4>2. held \in Nat
        BY DEF TimedInv, TimedTypeOK
      <4>4. held' = held /\ held <= Timeout * n + Timeout
        BY <2>1, <4>1, Zenon
      <4>5. Timeout * m \in Nat /\ Timeout \in Nat
        BY ONLY TimeoutAssumption
      <4>6. held' <= Timeout * m
        BY ONLY <4>2, <4>3, <4>4, <4>5
      <4> QED
        BY ONLY <4>1, <4>6, Zenon
    <3>4. ReadWhatWasSent'
      BY <2>1, <2>3, <3>1
    <3>5. WaitsArePaidFor'
      BY ONLY <2>3, <3>1, <3>3 DEF WaitsArePaidFor
    <3>6. HeldForLongestRequest'
      BY ONLY <2>1, HeldForLongestRequest DEF HeldForLongestRequest
    <3> QED
      BY <3>4, <3>5, <3>6
  <2> QED
    BY <1>7, <2>2, <2>3 DEF Read
<1>8. CASE Respond
  BY <1>8 DEF Respond
<1>9. CASE SendReply
  BY <1>9 DEF SendReply
<1>10. CASE CloseConnection
  BY <1>10 DEF CloseConnection
<1>11. CASE ReaderFails
  BY <1>11 DEF ReaderFails
<1> QED
  BY <1>1, <1>2, <1>3, <1>4, <1>5, <1>6, <1>7, <1>8, <1>9, <1>10, <1>11 DEF Reader

\* Time passes only while the wait is below the timeout.
LEMMA TickKeepsTheWait == ASSUME TimedInv, Tick PROVE TimedInv'
<1>1. /\ reader = "pollConnection" /\ UNCHANGED vars
      /\ quiet' = quiet + 1 /\ held' = held + 1 /\ quiet' \in 0..Timeout /\ held' \in Nat
  BY TimeoutAssumption DEF Tick, TimedInv, TimedTypeOK
<1>2. TypeInv' /\ ReadWhatWasSent'
  BY <1>1 DEF TimedInv, TypeInv, TypeOK, Handover, ReadWhatWasSent, Readable, vars,
              clientVars, readerVars, mainVars, stopVars
<1>3. request' = request /\ reader' = reader /\ request \in Nat /\ request < Cap
  BY <1>1 DEF vars, readerVars, TimedInv, TypeInv, TypeOK, WaitsArePaidFor
<1>4. Timeout * request \in Nat /\ Timeout * request + Timeout <= Timeout * Cap
  BY <1>3, OneMoreUnit, ChannelAssumption
<1>5. held' <= Timeout * request + quiet'
  <2>1. held <= Timeout * request + quiet /\ quiet \in Nat /\ held \in Nat
    BY <1>1, TimeoutAssumption DEF TimedInv, TimedTypeOK, WaitsArePaidFor
  <2> QED
    BY ONLY <1>1, <1>4, <2>1
<1>6. WaitsArePaidFor'
  BY ONLY <1>1, <1>3, <1>5 DEF WaitsArePaidFor
<1>7. HeldForLongestRequest'
  <2>1. quiet' <= Timeout /\ quiet' \in Nat /\ Timeout * Cap \in Nat /\ Timeout \in Nat
    BY <1>1, TimeoutAssumption, ChannelAssumption
  <2> QED
    BY ONLY <1>1, <1>4, <1>5, <2>1 DEF HeldForLongestRequest
<1> QED
  BY <1>1, <1>2, <1>6, <1>7 DEF TimedInv, TimedTypeOK

\* However a client times its bytes, HandleConnection lets go of it within one
\* timeout for each unit of MaximumRequestLength.
THEOREM HeldIsBounded == TimedSpec => []HeldForLongestRequest
<1>1. TimedInit => TimedInv
  <2> SUFFICES ASSUME TimedInit PROVE TimedInv
    OBVIOUS
  <2>1. TypeInv
    BY InitTypes DEF TimedInit
  <2>2. Timeout * Cap \in Nat
    BY ChannelAssumption, TimeoutAssumption
  <2> QED
    BY <2>1, <2>2, TimeoutAssumption
    DEF TimedInit, Init, TimedInv, TimedTypeOK, ReadWhatWasSent, WaitsArePaidFor,
        HeldForLongestRequest, Serving
<1>2. TimedInv /\ [TimedNext]_timedVars => TimedInv'
  <2> SUFFICES ASSUME TimedInv, [TimedNext]_timedVars PROVE TimedInv'
    OBVIOUS
  <2>1. CASE Step
    <3>1. TypeInv' /\ TimedTypeOK'
      BY <2>1, StepKeepsTypes, StepKeepsClocks DEF TimedInv, Step
    <3>2. ReadWhatWasSent' /\ WaitsArePaidFor' /\ HeldForLongestRequest'
      BY <2>1, OthersKeepTheWait, ReaderKeepsTheWait DEF Step, Next
    <3> QED
      BY <3>1, <3>2 DEF TimedInv
  <2>2. CASE Tick
    BY <2>2, TickKeepsTheWait
  <2>3. CASE UNCHANGED timedVars
    BY <2>3 DEF timedVars, vars, clientVars, readerVars, mainVars, stopVars, TimedInv, TimedTypeOK,
                TypeInv, TypeOK, Handover, ReadWhatWasSent, Readable, WaitsArePaidFor, HeldForLongestRequest
  <2> QED
    BY <2>1, <2>2, <2>3 DEF TimedNext
<1>3. TimedInv => HeldForLongestRequest
  BY DEF TimedInv
<1> QED
  BY <1>1, <1>2, <1>3, PTL DEF TimedSpec
=============================================================================
