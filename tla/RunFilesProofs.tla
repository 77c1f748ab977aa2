--------------------------- MODULE RunFilesProofs ---------------------------
(***************************************************************************)
(* What several runs leave to each other on disk, for any number of runs   *)
(* that start, overlap, fail and are killed as they may: the agent         *)
(* channel's name, the logs, the pictures a client asks for, and the       *)
(* settings. A run looks at no other, so each account says who could have  *)
(* met whom, and what is on disk is of a run that can be named.            *)
(***************************************************************************)
EXTENDS RunFiles, TLAPS, FiniteSetTheorems, SequenceTheorems, WellFoundedInduction

-----------------------------------------------------------------------------

\* A set of natural numbers that is not empty has a least one.
LEMMA LeastElement ==
    ASSUME NEW S \in SUBSET Nat, S # {}
    PROVE  \E least \in S : \A n \in S : least <= n
<1> DEFINE Below == {0 .. n : n \in S}
<1>1. Below \subseteq FiniteSubsetsOf(Nat)
  <2>1. SUFFICES ASSUME NEW n \in S PROVE 0 .. n \in FiniteSubsetsOf(Nat)
    OBVIOUS
  <2>2. n \in Int
    OBVIOUS
  <2>3. IsFiniteSet(0 .. n)
    BY <2>2, FS_Interval
  <2>4. 0 .. n \subseteq Nat
    BY <2>2
  <2>5. QED
    BY <2>3, <2>4 DEF FiniteSubsetsOf
<1>2. PICK X \in Below : \A Y \in Below : <<Y, X>> \notin StrictSubsetOrdering(Nat)
  <2>1. Below # {}
    OBVIOUS
  <2>2. IsWellFoundedOn(StrictSubsetOrdering(Nat), FiniteSubsetsOf(Nat))
    BY FS_StrictSubsetOrderingWellFounded
  <2> HIDE DEF Below
  <2>3. QED
    BY <1>1, <2>1, <2>2, WFMin, Zenon
<1>3. PICK least \in S : X = 0 .. least
  OBVIOUS
<1>4. ASSUME NEW n \in S, n < least PROVE FALSE
  <2>1. 0 .. n \subseteq 0 .. least /\ least \notin 0 .. n /\ least \in 0 .. least
    BY <1>4
  <2>2. 0 .. n \in SUBSET Nat /\ 0 .. least \in SUBSET Nat
    OBVIOUS
  <2>3. <<0 .. n, 0 .. least>> \in StrictSubsetOrdering(Nat)
    BY <2>1, <2>2 DEF StrictSubsetOrdering
  <2>4. QED
    BY <1>2, <1>3, <2>3
<1>5. QED
  BY <1>3, <1>4


Framing == {"run", "panel", "end", "draw"}

\* A run's state is a record of the fields it starts with.
Shaped ==
    /\ DOMAIN run = Runs
    /\ \A r \in Runs :
           /\ DOMAIN run[r] = DOMAIN Fresh
           /\ run[r].listening \in BOOLEAN /\ run[r].failed \in BOOLEAN /\ run[r].met \in BOOLEAN
           /\ run[r].listening => run[r].phase \in Framing \cup {"close"}

\* Two runs with a channel at one time have met.
NeighboursMet ==
    \A q, r \in Runs : q # r /\ InChannel(q) /\ InChannel(r) => run[q].met

\* A run that met nobody finds the name free until it binds it, and then has it.
AloneHasTheName ==
    /\ \A r \in Runs : InChannel(r) /\ ~run[r].met =>
           socket = (IF run[r].phase = "bind" THEN Nobody ELSE r)
    /\ \A r \in Runs : run[r].phase \in Framing /\ session.channel /\ ~run[r].failed /\ ~run[r].met =>
           run[r].listening

\* The name on disk is of a run that still uses it, was killed, or met another.
NameIsSomeones ==
    socket # Nobody =>
        /\ socket \in Runs
        /\ \/ run[socket].phase \in {"listen", "crashed"}
           \/ run[socket].listening \/ run[socket].met

Invariant == Shaped /\ NeighboursMet /\ AloneHasTheName /\ NameIsSomeones
-----------------------------------------------------------------------------
(* Steps that have nothing to do with the name.                            *)

\* Runs go on, but not into, out of or about a channel.
Calm ==
    /\ UNCHANGED <<session, socket>>
    /\ DOMAIN run' = Runs
    /\ \A r \in Runs :
           /\ DOMAIN run'[r] = DOMAIN run[r]
           /\ run'[r].listening = run[r].listening
           /\ run'[r].failed = run[r].failed
           /\ run'[r].met = run[r].met
           /\ \/ run'[r].phase = run[r].phase
              \/ /\ run[r].phase \notin {"bind", "listen", "crashed"}
                 /\ run'[r].phase \notin {"bind", "listen", "crashed"}
                 /\ run[r].listening => run'[r].phase \in Framing \cup {"close"}
                 /\ run'[r].phase \in Framing => run[r].phase \in Framing \/ ~session.channel

\* Nothing of the invariant is about a calm step.
LEMMA CalmKeepsInvariant ==
    ASSUME Invariant, Calm
    PROVE  Invariant'
<1>1. Shaped'
  BY DEF Invariant, Shaped, Calm
<1>2. \A r \in Runs : InChannel(r)' = InChannel(r)
  BY DEF Invariant, Shaped, Calm, InChannel
<1>3. \A r \in Runs : InChannel(r) => (run'[r].phase = "bind") = (run[r].phase = "bind")
  BY DEF Invariant, Shaped, Calm, InChannel, Framing
<1>4. NeighboursMet'
  BY <1>2 DEF Invariant, NeighboursMet, Calm
<1>5. AloneHasTheName'
  <2>1. \A r \in Runs : InChannel(r)' /\ ~run'[r].met =>
            socket' = (IF run'[r].phase = "bind" THEN Nobody ELSE r)
    BY <1>2, <1>3 DEF Invariant, AloneHasTheName, Calm
  <2>2. \A r \in Runs : run'[r].phase \in Framing /\ session'.channel /\ ~run'[r].failed /\ ~run'[r].met =>
            run'[r].listening
    BY DEF Invariant, AloneHasTheName, Calm
  <2> QED
    BY <2>1, <2>2 DEF AloneHasTheName
<1>6. NameIsSomeones'
  BY DEF Invariant, NameIsSomeones, Calm
<1> QED
  BY <1>1, <1>4, <1>5, <1>6 DEF Invariant

\* Before, between and after, a run is calm.
LEMMA RunIsCalm ==
    ASSUME Invariant, NEW r \in Runs,
           \/ Start(r) \/ Configure(r) \/ MakeFileSink(r) \/ LoadSettings(r) \/ BootFails(r)
           \/ \E level \in {"info", "warn"} : LogLine(r, level)
           \/ PressKey(r) \/ ServiceRequests(r) \/ NoRequest(r) \/ DrawSettingsPanel(r)
           \/ EndFrame(r) \/ DrawFrame(r) \/ FinishWrite(r) \/ Close(r) \/ DestroyDebugUi(r)
    PROVE  Calm
<1> USE DEF Invariant, Shaped, Calm, Framing, Fresh
<1>1. CASE Start(r)
  BY <1>1 DEF Start
<1>2. CASE Configure(r)
  BY <1>2 DEF Configure
<1>3. CASE MakeFileSink(r)
  BY <1>3 DEF MakeFileSink
<1>4. CASE LoadSettings(r)
  <2>1. PICK scale, phase : /\ run' = [run EXCEPT ![r].scale = scale, ![r].phase = phase]
                           /\ phase = IF session.channel THEN "unlink" ELSE "run"
    BY <1>4 DEF LoadSettings
  <2>2. phase \in {"unlink", "run"} /\ (phase = "run" => ~session.channel)
    BY <2>1
  <2>3. run[r].phase = "ui" /\ UNCHANGED <<session, socket>>
    BY <1>4 DEF LoadSettings
  <2> QED
    BY <2>1, <2>2, <2>3
<1>5. CASE BootFails(r)
  BY <1>5 DEF BootFails
<1>6. CASE \E level \in {"info", "warn"} : LogLine(r, level)
  BY <1>6 DEF LogLine
<1>7. CASE PressKey(r)
  BY <1>7 DEF PressKey, Idle
<1>8. CASE ServiceRequests(r)
  BY <1>8 DEF ServiceRequests, Idle, AfterRequests
<1>9. CASE NoRequest(r)
  BY <1>9 DEF NoRequest, Idle, AfterRequests
<1>10. CASE DrawSettingsPanel(r)
  <2>1. run[r].phase = "panel" /\ UNCHANGED <<session, socket>>
    BY <1>10 DEF DrawSettingsPanel
  <2>2. CASE \E scale \in Scales \ {run[r].scale} :
                 run' = [run EXCEPT ![r].scale = scale, ![r].dirty = TRUE, ![r].drawn = TRUE,
                                    ![r].phase = "end"]
    <3>1. PICK scale : run' = [run EXCEPT ![r].scale = scale, ![r].dirty = TRUE, ![r].drawn = TRUE,
                                          ![r].phase = "end"]
      BY <2>2
    <3> QED
      BY <2>1, <3>1
  <2>3. CASE run' = [run EXCEPT ![r].drawn = TRUE,
                                ![r].phase = IF run[r].dirty THEN "end" ELSE "draw"]
    <3>1. PICK phase \in {"end", "draw"} : run' = [run EXCEPT ![r].drawn = TRUE, ![r].phase = phase]
      BY <2>3
    <3> QED
      BY <2>1, <3>1
  <2> QED
    BY <1>10, <2>2, <2>3 DEF DrawSettingsPanel
<1>11. CASE EndFrame(r)
  BY <1>11 DEF EndFrame, OpenSettings
<1>12. CASE DrawFrame(r)
  BY <1>12 DEF DrawFrame
<1>13. CASE FinishWrite(r)
  BY <1>13 DEF FinishWrite
<1>14. CASE Close(r)
  BY <1>14 DEF Close, Idle
<1>15. CASE DestroyDebugUi(r)
  BY <1>15 DEF DestroyDebugUi, OpenSettings
<1> QED
  BY <1>1, <1>2, <1>3, <1>4, <1>5, <1>6, <1>7, <1>8, <1>9, <1>10, <1>11,
     <1>12, <1>13, <1>14, <1>15

\* A client puts its key into a run that listens and changes nothing else of it.
LEMMA ClientIsCalm ==
    ASSUME Invariant, NEW c \in Clients, Snapshot(c) \/ SendCommand(c) \/ Poll(c) \/ GiveUp(c)
    PROVE  Calm
<1> USE DEF Invariant, Shaped, Calm
<1>1. CASE Snapshot(c)
  BY <1>1 DEF Snapshot
<1>2. CASE SendCommand(c)
  BY <1>2 DEF SendCommand, Fresh
<1>3. CASE Poll(c)
  BY <1>3 DEF Poll
<1>4. CASE GiveUp(c)
  BY <1>4 DEF GiveUp
<1> QED
  BY <1>1, <1>2, <1>3, <1>4

-----------------------------------------------------------------------------
(* Steps at the name.                                                      *)

\* Whoever touches the name marks itself and those it meets, and nothing else.
LEMMA TouchMarks ==
    ASSUME Invariant, NEW r \in Runs
    PROVE  /\ DOMAIN Touch(r) = Runs
           /\ \A q \in Runs :
                  /\ DOMAIN Touch(r)[q] = DOMAIN Fresh
                  /\ Touch(r)[q].phase = run[q].phase
                  /\ Touch(r)[q].log = run[q].log
                  /\ Touch(r)[q].listening = run[q].listening
                  /\ Touch(r)[q].failed = run[q].failed
                  /\ Touch(r)[q].met \in BOOLEAN
                  /\ run[q].met => Touch(r)[q].met
                  /\ q # r /\ InChannel(q) => Touch(r)[q].met /\ Touch(r)[r].met
<1> USE DEF Invariant, Shaped, Fresh
<1> DEFINE others == {q \in Runs \ {r} : InChannel(q)}
           marked(q) == q \in others \/ (q = r /\ others # {})
<1>1. DOMAIN Touch(r) = Runs
  BY DEF Touch
<1>2. \A q \in Runs : Touch(r)[q] = IF marked(q) THEN [run[q] EXCEPT !.met = TRUE] ELSE run[q]
  BY DEF Touch
<1>3. \A q \in Runs : q # r /\ InChannel(q) => marked(q) /\ marked(r)
  OBVIOUS
<1> HIDE DEF marked
<1>4. \A q \in Runs : Touch(r)[q] = run[q] \/ Touch(r)[q] = [run[q] EXCEPT !.met = TRUE]
  BY <1>2
<1>5. \A q \in Runs : marked(q) => Touch(r)[q].met
  BY <1>2
<1>6. \A q \in Runs : /\ DOMAIN Touch(r)[q] = DOMAIN Fresh
                      /\ Touch(r)[q].phase = run[q].phase
                      /\ Touch(r)[q].log = run[q].log
                      /\ Touch(r)[q].listening = run[q].listening
                      /\ Touch(r)[q].failed = run[q].failed
  <2> SUFFICES ASSUME NEW q \in Runs
               PROVE  /\ DOMAIN Touch(r)[q] = DOMAIN Fresh
                      /\ Touch(r)[q].phase = run[q].phase
                      /\ Touch(r)[q].log = run[q].log
                      /\ Touch(r)[q].listening = run[q].listening
                      /\ Touch(r)[q].failed = run[q].failed
    OBVIOUS
  <2> DEFINE old == run[q]
  <2>1. {"phase", "log", "listening", "failed"} \subseteq DOMAIN old /\ DOMAIN old = DOMAIN Fresh
    OBVIOUS
  <2>2. Touch(r)[q] = old \/ Touch(r)[q] = [old EXCEPT !.met = TRUE]
    BY <1>4
  <2> HIDE DEF old
  <2>3. /\ DOMAIN Touch(r)[q] = DOMAIN old
        /\ Touch(r)[q].phase = old.phase
        /\ Touch(r)[q].log = old.log
        /\ Touch(r)[q].listening = old.listening
        /\ Touch(r)[q].failed = old.failed
    BY ONLY <2>1, <2>2
  <2> QED
    BY ONLY <2>1, <2>3 DEF old
<1>7. \A q \in Runs : Touch(r)[q].met \in BOOLEAN /\ (run[q].met => Touch(r)[q].met)
  BY <1>4
<1>8. \A q \in Runs : q # r /\ InChannel(q) => Touch(r)[q].met /\ Touch(r)[r].met
  BY <1>3, <1>5
<1> QED
  BY ONLY <1>1, <1>6, <1>7, <1>8

\* A run that found the name taken goes on without a channel.
LEMMA LeavingKeepsInvariant ==
    ASSUME Invariant, NEW r \in Runs, run[r].phase \in {"unlink", "bind", "listen"},
           run' = [Touch(r) EXCEPT ![r].phase = "run"], run[r].met,
           socket' = socket, session' = session
    PROVE  Invariant'
<1> USE TouchMarks DEF Invariant, Shaped, Fresh, Framing
<1>1. Shaped'
  OBVIOUS
<1>2. ~InChannel(r)' /\ \A q \in Runs : q # r => InChannel(q)' = InChannel(q)
  BY DEF InChannel
<1>3. NeighboursMet'
  BY <1>2 DEF NeighboursMet
<1>4. AloneHasTheName'
  BY <1>2 DEF AloneHasTheName
<1>5. NameIsSomeones'
  BY DEF NameIsSomeones
<1> QED
  BY <1>1, <1>3, <1>4, <1>5

\* A run that had a call fail goes on without a channel; the name stays, or
\* goes with what was made of the channel.
LEMMA NoChannelKeepsInvariant ==
    ASSUME Invariant, NEW r \in Runs, Unavailable(r), session' = session,
           \/ run[r].phase \in {"unlink", "bind"} /\ socket' = socket
           \/ run[r].phase = "listen" /\ socket' = Nobody
    PROVE  Invariant'
<1> USE TouchMarks DEF Invariant, Shaped, Fresh, Framing
<1>1. run' = [Touch(r) EXCEPT ![r].phase = "run", ![r].failed = TRUE]
  BY DEF Unavailable
<1>2. Shaped'
  <2>1. \A q \in Runs : q # r => run'[q] = Touch(r)[q]
    BY <1>1
  <2>2. /\ DOMAIN run'[r] = DOMAIN Fresh /\ run'[r].phase = "run" /\ run'[r].failed = TRUE
        /\ run'[r].listening = Touch(r)[r].listening /\ run'[r].met = Touch(r)[r].met
    BY <1>1
  <2>3. DOMAIN run' = Runs
    BY <1>1
  <2>4. /\ run'[r].listening \in BOOLEAN /\ run'[r].failed \in BOOLEAN /\ run'[r].met \in BOOLEAN
        /\ run'[r].phase \in Framing
    <3>1. Touch(r)[r].listening = run[r].listening /\ run[r].listening \in BOOLEAN
      OBVIOUS
    <3>2. Touch(r)[r].met \in BOOLEAN
      OBVIOUS
    <3> QED
      BY ONLY <2>2, <3>1, <3>2 DEF Framing
  <2>5. \A q \in Runs : q # r =>
            /\ DOMAIN run'[q] = DOMAIN Fresh
            /\ run'[q].listening \in BOOLEAN /\ run'[q].failed \in BOOLEAN /\ run'[q].met \in BOOLEAN
            /\ run'[q].listening => run'[q].phase \in Framing \cup {"close"}
    BY <2>1
  <2>6. DOMAIN run'[r] = DOMAIN Fresh
    BY <2>2
  <2> QED
    BY ONLY <2>3, <2>4, <2>5, <2>6 DEF Shaped
<1>3. ~InChannel(r)' /\ \A q \in Runs : q # r => InChannel(q)' = InChannel(q)
  BY <1>1 DEF InChannel
<1>4. NeighboursMet'
  BY <1>1, <1>3 DEF NeighboursMet
<1>5. run[r].phase = "listen" => \A q \in Runs : InChannel(q)' => run'[q].met
  BY <1>1, <1>3 DEF InChannel
<1>6. AloneHasTheName'
  BY <1>1, <1>3, <1>5 DEF AloneHasTheName
<1>7. NameIsSomeones'
  <2>1. socket = r => run[r].met \/ run[r].phase = "listen"
    BY RunsAssumption DEF NameIsSomeones, Nobody
  <2> QED
    BY <1>1, <2>1 DEF NameIsSomeones
<1> QED
  BY <1>2, <1>4, <1>6, <1>7

\* The old name goes whosever it was; from here on the run is in the channel.
LEMMA UnlinkKeepsInvariant ==
    ASSUME Invariant, NEW r \in Runs, UnlinkLeftover(r)
    PROVE  Invariant'
<1> USE TouchMarks DEF Invariant, Shaped, Fresh, Framing
<1>1. run[r].phase = "unlink" /\ session' = session
  BY DEF UnlinkLeftover
<1>2. CASE run' = [Touch(r) EXCEPT ![r].phase = "bind"] /\ socket' = Nobody
  <2>1. Shaped'
    BY <1>1, <1>2
  <2>2. \A q \in Runs : q # r => InChannel(q)' = InChannel(q)
    BY <1>2 DEF InChannel
  <2>3. NeighboursMet'
    BY <1>2, <2>2 DEF NeighboursMet
  <2>4. \A q \in Runs : InChannel(q)' /\ ~run'[q].met => q = r
    BY <1>2, <2>2
  <2>5. AloneHasTheName'
    BY <1>1, <1>2, <2>4 DEF AloneHasTheName
  <2>6. NameIsSomeones'
    BY <1>2 DEF NameIsSomeones
  <2> QED
    BY <2>1, <2>3, <2>5, <2>6
<1>3. CASE Unavailable(r) /\ socket' = socket
  BY <1>1, <1>3, NoChannelKeepsInvariant
<1> QED
  BY <1>2, <1>3 DEF UnlinkLeftover

\* The name is free: the run takes it.  It is not: then it met who has it.
LEMMA BindKeepsInvariant ==
    ASSUME Invariant, NEW r \in Runs, Bind(r)
    PROVE  Invariant'
<1> USE TouchMarks DEF Invariant, Shaped, Fresh, Framing
<1>1. run[r].phase = "bind" /\ session' = session /\ InChannel(r)
  BY DEF Bind, InChannel
<1>2. CASE /\ socket = Nobody /\ socket' = r
           /\ run' = [Touch(r) EXCEPT ![r].phase = "listen"]
  <2>1. Shaped'
    BY <1>1, <1>2
  <2>2. \A q \in Runs : InChannel(q)' = InChannel(q)
    BY <1>1, <1>2 DEF InChannel
  <2>3. NeighboursMet'
    BY <1>2, <2>2 DEF NeighboursMet
  <2>4. \A q \in Runs : InChannel(q)' /\ ~run'[q].met => q = r
    BY <1>2, <2>2
  <2>5. AloneHasTheName'
    BY <1>1, <1>2, <2>4 DEF AloneHasTheName
  <2>6. NameIsSomeones'
    BY <1>2 DEF NameIsSomeones
  <2> QED
    BY <2>1, <2>3, <2>5, <2>6
<1>3. CASE socket # Nobody /\ run' = [Touch(r) EXCEPT ![r].phase = "run"] /\ socket' = socket
  <2>1. run[r].met
    BY <1>1, <1>3 DEF AloneHasTheName
  <2> QED
    BY <1>1, <1>3, <2>1, LeavingKeepsInvariant
<1>4. CASE Unavailable(r) /\ socket' = socket
  BY <1>1, <1>4, NoChannelKeepsInvariant
<1> QED
  BY <1>2, <1>3, <1>4 DEF Bind

\* The channel is open, or the name is taken away again.
LEMMA ListenKeepsInvariant ==
    ASSUME Invariant, NEW r \in Runs, Listen(r)
    PROVE  Invariant'
<1> USE TouchMarks DEF Invariant, Shaped, Fresh, Framing
<1>1. run[r].phase = "listen" /\ session' = session /\ InChannel(r)
  BY DEF Listen, InChannel
<1>2. CASE run' = [Touch(r) EXCEPT ![r].phase = "run", ![r].listening = TRUE] /\ socket' = socket
  <2>1. Shaped'
    BY <1>1, <1>2
  <2>2. \A q \in Runs : InChannel(q)' = InChannel(q)
    BY <1>1, <1>2 DEF InChannel
  <2>3. NeighboursMet'
    BY <1>2, <2>2 DEF NeighboursMet
  <2>4. \A q \in Runs : InChannel(q)' /\ ~run'[q].met => q = r /\ ~run[r].met
    BY <1>1, <1>2, <2>2
  <2>5. AloneHasTheName'
    BY <1>1, <1>2, <2>4 DEF AloneHasTheName
  <2>6. NameIsSomeones'
    BY <1>1, <1>2 DEF NameIsSomeones
  <2> QED
    BY <2>1, <2>3, <2>5, <2>6
<1>3. CASE Unavailable(r) /\ socket' = Nobody
  BY <1>1, <1>3, NoChannelKeepsInvariant
<1> QED
  BY <1>2, <1>3 DEF Listen

\* Stop takes the name away; who else could have had it has met this run.
LEMMA StopKeepsInvariant ==
    ASSUME Invariant, NEW r \in Runs, Stop(r)
    PROVE  Invariant'
<1> USE DEF Invariant, Shaped, Fresh, Framing
<1>1. run[r].phase = "close" /\ session' = session
  BY DEF Stop
<1>2. CASE /\ run[r].listening /\ socket' = Nobody
           /\ run' = [Touch(r) EXCEPT ![r].phase = "save", ![r].listening = FALSE]
  <2> USE TouchMarks
  <2>1. Shaped'
    BY <1>1, <1>2
  <2>2. ~InChannel(r)' /\ InChannel(r) /\ \A q \in Runs : q # r => InChannel(q)' = InChannel(q)
    BY <1>1, <1>2 DEF InChannel
  <2>3. NeighboursMet'
    BY <1>2, <2>2 DEF NeighboursMet
  <2>4. \A q \in Runs : InChannel(q)' => run'[q].met
    BY <1>2, <2>2
  <2>5. AloneHasTheName'
    BY <1>1, <1>2, <2>4 DEF AloneHasTheName
  <2>6. NameIsSomeones'
    BY <1>2 DEF NameIsSomeones
  <2> QED
    BY <2>1, <2>3, <2>5, <2>6
<1>3. CASE ~run[r].listening /\ run' = [run EXCEPT ![r].phase = "save"] /\ socket' = socket
  <2>1. Calm
    BY <1>1, <1>3 DEF Calm
  <2> QED
    BY <2>1, CalmKeepsInvariant
<1> QED
  BY <1>2, <1>3 DEF Stop

\* A run that is done has let go of the name or met someone; one that was
\* killed may leave its name behind.
LEMMA EndKeepsInvariant ==
    ASSUME Invariant, NEW r \in Runs, Flush(r) \/ Crash(r)
    PROVE  Invariant'
<1> USE DEF Invariant, Shaped, Fresh, Framing
<1>1. UNCHANGED <<session, socket>>
  BY DEF Flush, Crash
<1>2. PICK phase \in {"done", "crashed"} :
          /\ run' = [run EXCEPT ![r] = Ended(r, phase)]
          /\ phase = "done" => run[r].phase = "flush"
  BY DEF Flush, Crash
<1>3. /\ DOMAIN Ended(r, phase) = DOMAIN Fresh /\ Ended(r, phase).phase = phase
      /\ Ended(r, phase).listening = FALSE /\ Ended(r, phase).failed = run[r].failed
      /\ Ended(r, phase).met = run[r].met
  BY DEF Ended
<1>4. Shaped'
  BY <1>2, <1>3
<1>5. ~InChannel(r)' /\ \A q \in Runs : q # r => InChannel(q)' = InChannel(q)
  BY <1>2, <1>3 DEF InChannel
<1>6. \A q \in Runs : q # r => run'[q] = run[q]
  BY <1>2
<1>7. NeighboursMet'
  BY <1>5, <1>6 DEF NeighboursMet
<1>8. AloneHasTheName'
  BY <1>1, <1>2, <1>3, <1>5, <1>6 DEF AloneHasTheName
<1>9. NameIsSomeones'
  BY <1>1, <1>2, <1>3, <1>6 DEF NameIsSomeones
<1> QED
  BY <1>4, <1>7, <1>8, <1>9

-----------------------------------------------------------------------------
\* The invariant holds before the first run and after every step of any.
LEMMA InvariantHolds == Spec => []Invariant
<1>1. Init => Invariant
  <2> SUFFICES ASSUME Init PROVE Invariant
    OBVIOUS
  <2>1. DOMAIN run = Runs /\ socket = Nobody
    BY DEF Init
  <2>2. \A r \in Runs : run[r] = Fresh
    BY DEF Init
  <2>3. /\ Fresh.phase = "off" /\ Fresh.listening = FALSE /\ Fresh.failed = FALSE /\ Fresh.met = FALSE
    BY DEF Fresh
  <2>4. \A r \in Runs : ~InChannel(r)
    BY <2>2, <2>3 DEF InChannel
  <2> QED
    BY <2>1, <2>2, <2>3, <2>4
    DEF Invariant, Shaped, NeighboursMet, AloneHasTheName, NameIsSomeones, Framing
<1>2. Invariant /\ [Next]_vars => Invariant'
  <2> SUFFICES ASSUME Invariant, [Next]_vars PROVE Invariant'
    OBVIOUS
  <2>1. ASSUME NEW r \in Runs, UnlinkLeftover(r) \/ Bind(r) \/ Listen(r) \/ Stop(r) \/ Flush(r) \/ Crash(r)
        PROVE  Invariant'
    BY <2>1, UnlinkKeepsInvariant, BindKeepsInvariant, ListenKeepsInvariant, StopKeepsInvariant,
       EndKeepsInvariant
  <2>2. CASE Tick \/ Finished \/ UNCHANGED vars
    <3>1. Calm
      BY <2>2 DEF Tick, Finished, vars, Calm, Invariant, Shaped
    <3> QED
      BY <3>1, CalmKeepsInvariant
  <2> QED
    BY <2>1, <2>2, RunIsCalm, ClientIsCalm, CalmKeepsInvariant DEF Next
<1> QED
  BY <1>1, <1>2, PTL DEF Spec

\* A run that asked for a channel, had no call fail and met nobody at the name
\* is the one clients reach, whatever crashed before it; and runs that all end
\* in order leave no name: for any number of runs.
THEOREM AloneIsReached == Spec => []OneRunIsReached
<1>1. Invariant => OneRunIsReached
  <2> SUFFICES ASSUME Invariant PROVE OneRunIsReached
    OBVIOUS
  <2>1. ASSUME NEW r \in Runs, run[r].phase \in Framing, session.channel, ~run[r].failed, ~run[r].met
        PROVE  socket = r /\ run[r].listening
    BY <2>1 DEF Invariant, AloneHasTheName, InChannel, Framing
  <2>2. ASSUME \A r \in Runs : run[r].phase \in {"off", "done"} /\ ~run[r].failed /\ ~run[r].met
        PROVE  socket = Nobody
    BY <2>2 DEF Invariant, Shaped, NameIsSomeones, Framing
  <2> QED
    BY <2>1, <2>2 DEF OneRunIsReached, Framing
<1> QED
  BY <1>1, InvariantHolds, PTL
-----------------------------------------------------------------------------
(* The log history.                                                        *)

\* A run that has its log, or has none to come.
Going == {"ui", "unlink", "bind", "listen"} \cup Framing \cup {"close", "save", "flush"}

Newer(name) == {m \in past.created : m > name}

LogTypes ==
    /\ DOMAIN past = {"created", "warned", "crowded", "presses", "expected", "writer"}
    /\ clock \in Nat \ {0}
    /\ IsFiniteSet(past.created) /\ past.created \subseteq Nat /\ LogFiles \subseteq past.created
    /\ \A r \in Runs :
           /\ run[r].log \in Nat
           /\ run[r].phase \in {"off", "configure"} => run[r].log = 0
           /\ run[r].phase \in {"off", "configure", "openLog", "done", "crashed"} \cup Going
    /\ \A r \in past.warned :
           r \in Runs /\ run[r].log # 0 /\ run[r].phase \in Going \cup {"done", "crashed"}

\* A run that is about to make its log is alone in that, and has left room.
RoomForOne ==
    ~past.crowded =>
        /\ Cardinality(LogFiles) <= MaximumFiles
        /\ \A r \in Runs : run[r].phase = "openLog" =>
               /\ Cardinality(LogFiles) <= MaximumFiles - 1
               /\ \A q \in Runs : run[q].phase = "openLog" => q = r

\* Newer logs have pushed the run's own out, or another run was named alike.
PushedOut(r) ==
    \/ Cardinality(Newer(run[r].log)) >= MaximumFiles - 1
    \/ \E q \in Runs \ {r} : run[q].log = run[r].log /\ run[q].phase # "openLog"

\* A log, and a warning in it, stay until then; that the log does is what lets
\* a warning that is yet to come be promised.
LogsLast ==
    /\ \A r \in Runs : run[r].phase \in Going /\ run[r].log # 0 => run[r].log \in LogFiles \/ PushedOut(r)
    /\ \A r \in past.warned :
           (run[r].log \in LogFiles /\ <<r, "warn">> \in logs[run[r].log]) \/ PushedOut(r)

LogInvariant == LogTypes /\ RoomForOne /\ LogsLast

\* Of finitely many numbers, no more than k have fewer than k above them: the
\* others are above the least of those.
LEMMA KeptAreFew ==
    ASSUME NEW S \in SUBSET Nat, IsFiniteSet(S), NEW k \in Nat,
           NEW Kept, Kept = {n \in S : ~ Cardinality({m \in S : m > n}) >= k}
    PROVE  IsFiniteSet(Kept) /\ Cardinality(Kept) <= k
<1>1. Kept \subseteq S
  OBVIOUS
<1>2. IsFiniteSet(Kept)
  BY <1>1, FS_Subset
<1>3. CASE Kept = {}
  <2>1. Cardinality(Kept) = 0
    BY <1>3, FS_EmptySet, Zenon
  <2> QED
    BY <1>2, <2>1
<1>4. CASE Kept # {}
  <2>1. Kept \in SUBSET Nat
    BY <1>1
  <2>2. PICK least \in Kept : \A n \in Kept : least <= n
    BY <1>4, <2>1, LeastElement
  <2> DEFINE Above == {m \in S : m > least}
  <2>3. least \in Nat /\ ~ Cardinality(Above) >= k
    BY <2>1
  <2>4. Kept \ {least} \subseteq Above
    BY <1>1, <2>1, <2>2
  <2>5. Above \in SUBSET S
    OBVIOUS
  <2> HIDE DEF Above
  <2>6. IsFiniteSet(Above) /\ Cardinality(Above) \in Nat
    BY <2>5, FS_Subset, FS_CardinalityType
  <2>7. Cardinality(Kept \ {least}) <= Cardinality(Above)
    BY <2>4, <2>6, FS_Subset
  <2>8. Cardinality(Kept \ {least}) = Cardinality(Kept) - 1 /\ Cardinality(Kept) \in Nat
    BY <1>2, FS_RemoveElement, FS_CardinalityType
  <2> QED
    BY <1>2, <2>3, <2>6, <2>7, <2>8
<1> QED
  BY <1>3, <1>4

\* Where a log's fate stands is settled by the logs made and the runs named.
NamesStay ==
    /\ past.created \subseteq past'.created
    /\ \A r \in Runs : run[r].phase \in Going \cup {"done", "crashed"} =>
           run'[r].log = run[r].log /\ run'[r].phase \in Going \cup {"done", "crashed"}

LEMMA PushedOutForGood ==
    ASSUME LogTypes, LogTypes', NamesStay, NEW r \in Runs, run[r].log # 0,
           run[r].phase \in Going \cup {"done", "crashed"}, PushedOut(r)
    PROVE  PushedOut(r)'
<1>1. run'[r].log = run[r].log
  BY DEF NamesStay
<1>2. CASE Cardinality(Newer(run[r].log)) >= MaximumFiles - 1
  <2> DEFINE now == Newer(run[r].log)
             then == Newer(run[r].log)'
  <2>1. then = {m \in past'.created : m > run[r].log}
    BY <1>1 DEF Newer
  <2>2. now \subseteq then
    BY <2>1 DEF Newer, NamesStay
  <2>3. then \subseteq past'.created /\ IsFiniteSet(past'.created)
    BY <2>1 DEF LogTypes
  <2> HIDE DEF now, then
  <2>4. IsFiniteSet(then)
    BY <2>3, FS_Subset
  <2>5. Cardinality(now) <= Cardinality(then) /\ Cardinality(now) \in Nat /\ Cardinality(then) \in Nat
    BY <2>2, <2>4, FS_Subset, FS_CardinalityType
  <2>6. Cardinality(then) >= MaximumFiles - 1
    BY <1>2, <2>5, RunsAssumption DEF now
  <2> QED
    BY <2>6 DEF PushedOut, then
<1>3. CASE \E q \in Runs \ {r} : run[q].log = run[r].log /\ run[q].phase # "openLog"
  <2>1. PICK q \in Runs \ {r} : run[q].log = run[r].log /\ run[q].phase # "openLog"
    BY <1>3
  <2>2. run[q].phase \in Going \cup {"done", "crashed"}
    BY <2>1 DEF LogTypes
  <2>3. run'[q].log = run'[r].log /\ run'[q].phase \in Going \cup {"done", "crashed"}
    BY <1>1, <2>1, <2>2 DEF NamesStay
  <2>4. run'[q].phase # "openLog"
    BY <2>3 DEF Going, Framing
  <2> QED
    BY <2>3, <2>4 DEF PushedOut
<1> QED
  BY <1>2, <1>3 DEF PushedOut

\* Steps that make no log, remove none and name none.
LogQuiet ==
    /\ clock' \in Nat \ {0}
    /\ DOMAIN past' = DOMAIN past
    /\ UNCHANGED <<past.created, past.warned, past.crowded>>
    /\ DOMAIN logs' = LogFiles
    /\ \A n \in LogFiles : logs[n] \subseteq logs'[n]
    /\ \A r \in Runs :
           /\ run'[r].log = run[r].log
           /\ \/ run'[r].phase = run[r].phase
              \/ run[r].phase = "off" /\ run'[r].phase = "configure"
              \/ run[r].phase = "configure" /\ run'[r].phase = "ui"
              \/ run[r].phase \in Going /\ run'[r].phase \in Going \cup {"done"}
              \/ run[r].phase # "off" /\ run'[r].phase = "crashed"

LEMMA QuietKeepsLogs ==
    ASSUME LogInvariant, LogQuiet
    PROVE  LogInvariant'
<1> USE DEF LogInvariant
<1>1. \A r \in Runs : /\ run'[r].phase = "openLog" => run[r].phase = "openLog"
                      /\ run'[r].phase \in Going => run[r].phase \in Going \/ run[r].log = 0
  BY DEF LogQuiet, LogTypes, Going, Framing
<1>2. \A r \in Runs : run[r].phase \in Going \cup {"done", "crashed"} =>
                          run'[r].phase \in Going \cup {"done", "crashed"}
  BY DEF LogQuiet, Going, Framing
<1>3. LogTypes'
  <2>1. \A r \in Runs : run'[r].phase \in {"off", "configure"} => run'[r].log = 0
    BY DEF LogQuiet, LogTypes, Going, Framing
  <2>2. \A r \in Runs : run'[r].phase \in {"off", "configure", "openLog", "done", "crashed"} \cup Going
    BY DEF LogQuiet, LogTypes, Going, Framing
  <2>3. \A r \in past'.warned :
            r \in Runs /\ run'[r].log # 0 /\ run'[r].phase \in Going \cup {"done", "crashed"}
    BY <1>2 DEF LogQuiet, LogTypes
  <2>4. /\ DOMAIN past' = {"created", "warned", "crowded", "presses", "expected", "writer"}
        /\ clock' \in Nat \ {0}
        /\ IsFiniteSet(past'.created) /\ past'.created \subseteq Nat
        /\ LogFiles' \subseteq past'.created
    BY DEF LogQuiet, LogTypes, LogFiles
  <2>5. \A r \in Runs : run'[r].log \in Nat
    BY DEF LogQuiet, LogTypes
  <2> QED
    BY <2>1, <2>2, <2>3, <2>4, <2>5 DEF LogTypes
<1>4. RoomForOne'
  <2>1. LogFiles' = LogFiles /\ past'.crowded = past.crowded
    BY DEF LogQuiet, LogFiles
  <2> QED
    BY <1>1, <2>1 DEF RoomForOne
<1>5. NamesStay
  BY <1>2 DEF NamesStay, LogQuiet
<1>6. LogsLast'
  <2>1. ASSUME NEW r \in Runs, run'[r].phase \in Going, run'[r].log # 0
        PROVE  run'[r].log \in LogFiles' \/ PushedOut(r)'
    <3>1. run'[r].log = run[r].log /\ LogFiles' = LogFiles
      BY DEF LogQuiet, LogFiles
    <3>2. run[r].phase \in Going /\ run[r].log # 0
      BY <1>1, <2>1, <3>1
    <3>3. PushedOut(r) => PushedOut(r)'
      BY <1>3, <1>5, <3>2, PushedOutForGood
    <3>4. run[r].log \in LogFiles \/ PushedOut(r)
      BY <3>2 DEF LogsLast
    <3> QED
      BY <3>1, <3>3, <3>4
  <2>2. ASSUME NEW r \in past.warned
        PROVE  (run'[r].log \in LogFiles' /\ <<r, "warn">> \in logs'[run'[r].log]) \/ PushedOut(r)'
    <3>1. r \in Runs /\ run[r].log # 0 /\ run[r].phase \in Going \cup {"done", "crashed"}
      BY DEF LogTypes
    <3>2. /\ run'[r].log = run[r].log /\ LogFiles' = LogFiles
          /\ \A n \in LogFiles : logs[n] \subseteq logs'[n]
      BY <3>1 DEF LogQuiet, LogFiles
    <3>3. PushedOut(r) => PushedOut(r)'
      BY <1>3, <1>5, <3>1, PushedOutForGood
    <3>4. (run[r].log \in LogFiles /\ <<r, "warn">> \in logs[run[r].log]) \/ PushedOut(r)
      BY DEF LogsLast
    <3> QED
      BY <3>2, <3>3, <3>4
  <2> QED
    BY <2>1, <2>2 DEF LogsLast, LogQuiet
<1> QED
  BY <1>3, <1>4, <1>6

\* One more log is asked for: the oldest go, and whose goes is old enough.
LEMMA ConfigureKeepsLogs ==
    ASSUME Invariant, LogInvariant, NEW r \in Runs, Configure(r), session.located
    PROVE  LogInvariant'
<1> USE DEF LogInvariant
<1> DEFINE old == OldestBeyond(MaximumFiles - 1)
<1>1. PICK removed \in {old} \cup {{}} :
          /\ logs' = Restrict(logs, LogFiles \ removed)
          /\ past' = [past EXCEPT !.crowded = @ \/ removed # old \/ \E q \in Runs : run[q].phase = "openLog"]
  BY DEF Configure
<1>2. /\ run' = [run EXCEPT ![r].phase = "openLog", ![r].log = clock]
      /\ run[r].phase = "configure" /\ clock' = clock
  BY DEF Configure
<1>3. /\ LogFiles' = LogFiles \ removed
      /\ \A n \in LogFiles' : logs'[n] = logs[n]
  BY <1>1 DEF Restrict, LogFiles
<1>4. /\ DOMAIN past' = DOMAIN past
      /\ past'.created = past.created /\ past'.warned = past.warned
      /\ ~past'.crowded => ~past.crowded /\ removed = old /\ \A q \in Runs : run[q].phase # "openLog"
  BY <1>1 DEF LogTypes
<1> HIDE DEF old
<1>5. /\ run'[r].phase = "openLog" /\ run'[r].log = clock
      /\ \A q \in Runs \ {r} : run'[q] = run[q]
  BY <1>2 DEF Invariant, Shaped, Fresh
<1>6. LogTypes'
  <2>1. \A q \in Runs : /\ run'[q].log \in Nat
                        /\ run'[q].phase \in {"off", "configure"} => run'[q].log = 0
                        /\ run'[q].phase \in {"off", "configure", "openLog", "done", "crashed"} \cup Going
    BY <1>5 DEF LogTypes
  <2>2. \A q \in past.warned : q # r
    BY <1>2 DEF LogTypes, Going, Framing
  <2>3. \A q \in past'.warned :
            q \in Runs /\ run'[q].log # 0 /\ run'[q].phase \in Going \cup {"done", "crashed"}
    BY <1>4, <1>5, <2>2 DEF LogTypes
  <2>4. clock' \in Nat \ {0}
    BY <1>2 DEF LogTypes
  <2>5. /\ IsFiniteSet(past'.created) /\ past'.created \subseteq Nat
        /\ LogFiles' \subseteq past'.created
    BY <1>3, <1>4 DEF LogTypes
  <2>6. DOMAIN past' = {"created", "warned", "crowded", "presses", "expected", "writer"}
    BY <1>4 DEF LogTypes
  <2> QED
    BY <2>1, <2>3, <2>4, <2>5, <2>6 DEF LogTypes
<1>7. NamesStay
  BY <1>2, <1>4, <1>5 DEF NamesStay, Going, Framing
<1>8. RoomForOne'
  <2> SUFFICES ASSUME ~past'.crowded PROVE RoomForOne'
    BY DEF RoomForOne
  <2>1. removed = old /\ \A q \in Runs : run[q].phase # "openLog"
    BY <1>4
  <2>2. LogFiles' = {n \in LogFiles : ~ Cardinality({m \in LogFiles : m > n}) >= MaximumFiles - 1}
    BY <1>3, <2>1 DEF old, OldestBeyond
  <2>3. LogFiles \in SUBSET Nat /\ IsFiniteSet(LogFiles)
    BY FS_Subset DEF LogTypes
  <2>4. MaximumFiles - 1 \in Nat
    BY RunsAssumption
  <2> DEFINE kept == LogFiles'
  <2>5. IsFiniteSet(kept) /\ Cardinality(kept) <= MaximumFiles - 1
    BY <2>2, <2>3, <2>4, KeptAreFew
  <2>6. Cardinality(kept) \in Nat
    BY <2>5, FS_CardinalityType
  <2>7. Cardinality(kept) <= MaximumFiles
    BY <2>4, <2>5, <2>6, RunsAssumption
  <2>8. \A q \in Runs : run'[q].phase = "openLog" => q = r
    BY <1>5, <2>1
  <2> QED
    BY <2>5, <2>7, <2>8 DEF RoomForOne
<1>9. ASSUME NEW q \in Runs, run[q].log \in LogFiles, run[q].log \notin LogFiles'
      PROVE  PushedOut(q)
  <2> DEFINE above == {m \in LogFiles : m > run[q].log}
             newer == Newer(run[q].log)
  <2>1. removed = old /\ run[q].log \in old
    BY <1>1, <1>3, <1>9
  <2>2. Cardinality(above) >= MaximumFiles - 1
    BY <2>1 DEF old, OldestBeyond
  <2>3. above \subseteq newer /\ newer \subseteq past.created
    BY DEF LogTypes, Newer
  <2> HIDE DEF above, newer
  <2>4. IsFiniteSet(newer)
    BY <2>3, FS_Subset DEF LogTypes
  <2>5. Cardinality(above) <= Cardinality(newer) /\ Cardinality(above) \in Nat /\ Cardinality(newer) \in Nat
    BY <2>3, <2>4, FS_Subset, FS_CardinalityType
  <2> QED
    BY <2>2, <2>5, RunsAssumption DEF PushedOut, newer
<1>10. LogsLast'
  <2>1. ASSUME NEW q \in Runs, run'[q].phase \in Going, run'[q].log # 0
        PROVE  run'[q].log \in LogFiles' \/ PushedOut(q)'
    <3>1. q # r
      BY <1>5, <2>1 DEF Going, Framing
    <3>2. run'[q] = run[q]
      BY <1>5, <3>1
    <3>3. run[q].log \in LogFiles \/ PushedOut(q)
      BY <2>1, <3>2 DEF LogsLast
    <3> QED
      BY <1>6, <1>7, <1>9, <2>1, <3>2, <3>3, PushedOutForGood
  <2>2. ASSUME NEW q \in past.warned
        PROVE  (run'[q].log \in LogFiles' /\ <<q, "warn">> \in logs'[run'[q].log]) \/ PushedOut(q)'
    <3>1. q \in Runs /\ run[q].log # 0 /\ run[q].phase \in Going \cup {"done", "crashed"} /\ q # r
      BY <1>2 DEF LogTypes, Going, Framing
    <3>2. run'[q] = run[q]
      BY <1>5, <3>1
    <3>3. (run[q].log \in LogFiles /\ <<q, "warn">> \in logs[run[q].log]) \/ PushedOut(q)
      BY DEF LogsLast
    <3> QED
      BY <1>3, <1>6, <1>7, <1>9, <3>1, <3>2, <3>3, PushedOutForGood
  <2> QED
    BY <1>4, <2>1, <2>2 DEF LogsLast
<1> QED
  BY <1>6, <1>8, <1>10

\* The log is made, and takes the place of one of the same name.
LEMMA SinkKeepsLogs ==
    ASSUME Invariant, LogInvariant, NEW r \in Runs, MakeFileSink(r)
    PROVE  LogInvariant'
<1> USE DEF LogInvariant
<1>1. run[r].phase = "openLog" /\ run[r].log \in Nat /\ clock' = clock
  BY DEF MakeFileSink, LogTypes
<1>2. r \notin past.warned
  BY <1>1 DEF LogTypes, Going, Framing
<1>3. CASE /\ logs' = [n \in LogFiles \cup {run[r].log} |-> IF n = run[r].log THEN {} ELSE logs[n]]
           /\ run' = [run EXCEPT ![r].phase = "ui", ![r].buffered = {"info"}]
           /\ past' = [past EXCEPT !.created = @ \cup {run[r].log}]
  <2>1. /\ run'[r].phase = "ui" /\ run'[r].log = run[r].log
        /\ \A q \in Runs \ {r} : run'[q] = run[q]
    BY <1>3 DEF Invariant, Shaped, Fresh
  <2>2. /\ LogFiles' = LogFiles \cup {run[r].log}
        /\ \A n \in LogFiles \ {run[r].log} : logs'[n] = logs[n]
    BY <1>3 DEF LogFiles
  <2>3. /\ DOMAIN past' = DOMAIN past /\ past'.created = past.created \cup {run[r].log}
        /\ past'.warned = past.warned /\ past'.crowded = past.crowded
    BY <1>3 DEF LogTypes
  <2>4. LogTypes'
    <3>1. IsFiniteSet(past.created \cup {run[r].log})
      BY FS_AddElement DEF LogTypes
    <3>2. \A q \in Runs : /\ run'[q].log \in Nat
                          /\ run'[q].phase \in {"off", "configure"} => run'[q].log = 0
                          /\ run'[q].phase \in {"off", "configure", "openLog", "done", "crashed"} \cup Going
      BY <1>1, <2>1 DEF LogTypes, Going
    <3>3. \A q \in past'.warned :
              q \in Runs /\ run'[q].log # 0 /\ run'[q].phase \in Going \cup {"done", "crashed"}
      BY <1>2, <2>1, <2>3 DEF LogTypes
    <3>4. /\ DOMAIN past' = {"created", "warned", "crowded", "presses", "expected", "writer"}
          /\ clock' \in Nat \ {0}
          /\ IsFiniteSet(past'.created) /\ past'.created \subseteq Nat
          /\ LogFiles' \subseteq past'.created
      BY <1>1, <2>2, <2>3, <3>1 DEF LogTypes
    <3> QED
      BY <3>2, <3>3, <3>4 DEF LogTypes
  <2>5. NamesStay
    BY <1>1, <2>1, <2>3 DEF NamesStay, Going, Framing
  <2>6. RoomForOne'
    <3> SUFFICES ASSUME ~past.crowded PROVE RoomForOne'
      BY <2>3 DEF RoomForOne
    <3>1. Cardinality(LogFiles) <= MaximumFiles - 1 /\ \A q \in Runs : run[q].phase = "openLog" => q = r
      BY <1>1 DEF RoomForOne
    <3>2. IsFiniteSet(LogFiles)
      BY FS_Subset DEF LogTypes
    <3> DEFINE more == LogFiles \cup {run[r].log}
    <3>3. /\ Cardinality(more) = (IF run[r].log \in LogFiles THEN Cardinality(LogFiles) ELSE Cardinality(LogFiles) + 1)
          /\ Cardinality(LogFiles) \in Nat
      BY <3>2, FS_AddElement, FS_CardinalityType
    <3> HIDE DEF more
    <3>4. Cardinality(more) <= MaximumFiles
      BY <3>1, <3>3, RunsAssumption
    <3>5. \A q \in Runs : run'[q].phase # "openLog"
      BY <2>1, <3>1
    <3>6. LogFiles' = more
      BY <2>2 DEF more
    <3> QED
      BY <3>4, <3>5, <3>6 DEF RoomForOne
  <2>7. LogsLast'
    <3>1. ASSUME NEW q \in Runs, run'[q].phase \in Going, run'[q].log # 0
          PROVE  run'[q].log \in LogFiles' \/ PushedOut(q)'
      <4>1. CASE q = r
        BY <2>1, <2>2, <4>1
      <4>2. CASE q # r
        <5>1. run'[q] = run[q]
          BY <2>1, <4>2
        <5>2. run[q].log \in LogFiles \/ PushedOut(q)
          BY <3>1, <5>1 DEF LogsLast
        <5> QED
          BY <2>2, <2>4, <2>5, <3>1, <5>1, <5>2, PushedOutForGood
      <4> QED
        BY <4>1, <4>2
    <3>2. ASSUME NEW q \in past.warned
          PROVE  (run'[q].log \in LogFiles' /\ <<q, "warn">> \in logs'[run'[q].log]) \/ PushedOut(q)'
      <4>1. /\ q \in Runs /\ run[q].log # 0 /\ run[q].phase \in Going \cup {"done", "crashed"}
            /\ q # r /\ run'[q] = run[q]
        BY <1>2, <2>1 DEF LogTypes
      <4>2. CASE run[q].log = run[r].log
        <5>1. run'[r].log = run'[q].log /\ run'[r].phase # "openLog"
          BY <2>1, <4>1, <4>2
        <5> QED
          BY <4>1, <5>1 DEF PushedOut
      <4>3. CASE run[q].log # run[r].log
        <5>1. (run[q].log \in LogFiles /\ <<q, "warn">> \in logs[run[q].log]) \/ PushedOut(q)
          BY DEF LogsLast
        <5> QED
          BY <2>2, <2>4, <2>5, <4>1, <4>3, <5>1, PushedOutForGood
      <4> QED
        BY <4>2, <4>3
    <3> QED
      BY <2>3, <3>1, <3>2 DEF LogsLast
  <2> QED
    BY <2>4, <2>6, <2>7
<1>4. CASE /\ run' = [run EXCEPT ![r].phase = "ui", ![r].log = 0]
           /\ UNCHANGED <<logs, past>>
  <2>1. /\ run'[r].phase = "ui" /\ run'[r].log = 0
        /\ \A q \in Runs \ {r} : run'[q] = run[q]
    BY <1>4 DEF Invariant, Shaped, Fresh
  <2>2. LogTypes'
    <3>1. \A q \in Runs : /\ run'[q].log \in Nat
                          /\ run'[q].phase \in {"off", "configure"} => run'[q].log = 0
                          /\ run'[q].phase \in {"off", "configure", "openLog", "done", "crashed"} \cup Going
      BY <1>1, <2>1 DEF LogTypes, Going
    <3>2. \A q \in past'.warned :
              q \in Runs /\ run'[q].log # 0 /\ run'[q].phase \in Going \cup {"done", "crashed"}
      BY <1>2, <1>4, <2>1 DEF LogTypes
    <3> QED
      BY <1>1, <1>4, <3>1, <3>2 DEF LogTypes, LogFiles
  <2>3. NamesStay
    BY <1>1, <1>4, <2>1 DEF NamesStay, Going, Framing
  <2>4. RoomForOne'
    <3>1. \A q \in Runs : run'[q].phase = "openLog" => run[q].phase = "openLog"
      BY <2>1
    <3>2. LogFiles' = LogFiles /\ past' = past
      BY <1>4 DEF LogFiles
    <3> QED
      BY <3>1, <3>2 DEF RoomForOne
  <2>5. LogsLast'
    <3>1. LogFiles' = LogFiles /\ past' = past /\ logs' = logs
      BY <1>4 DEF LogFiles
    <3>2. ASSUME NEW q \in Runs, run'[q].phase \in Going, run'[q].log # 0
          PROVE  run'[q].log \in LogFiles \/ PushedOut(q)'
      <4>1. run'[q] = run[q]
        BY <2>1, <3>2
      <4>2. run[q].log \in LogFiles \/ PushedOut(q)
        BY <3>2, <4>1 DEF LogsLast
      <4> QED
        BY <2>2, <2>3, <3>2, <4>1, <4>2, PushedOutForGood
    <3>3. ASSUME NEW q \in past.warned
          PROVE  (run'[q].log \in LogFiles /\ <<q, "warn">> \in logs[run'[q].log]) \/ PushedOut(q)'
      <4>1. /\ q \in Runs /\ run[q].log # 0 /\ run[q].phase \in Going \cup {"done", "crashed"}
            /\ run'[q] = run[q]
        BY <1>2, <2>1 DEF LogTypes
      <4>2. (run[q].log \in LogFiles /\ <<q, "warn">> \in logs[run[q].log]) \/ PushedOut(q)
        BY DEF LogsLast
      <4> QED
        BY <2>2, <2>3, <4>1, <4>2, PushedOutForGood
    <3> QED
      BY <3>1, <3>2, <3>3 DEF LogsLast
  <2> QED
    BY <2>2, <2>4, <2>5
<1> QED
  BY <1>3, <1>4 DEF MakeFileSink

\* A warning is in the file by the end of the call, if the file is there.
LEMMA LineKeepsLogs ==
    ASSUME Invariant, LogInvariant, NEW r \in Runs, NEW level \in {"info", "warn"}, LogLine(r, level)
    PROVE  LogInvariant'
<1> USE DEF LogInvariant
<1>1. run[r].phase = "run" /\ run[r].log # 0 /\ clock' = clock
  BY DEF LogLine
<1>2. /\ \A q \in Runs : run'[q].log = run[q].log /\ run'[q].phase = run[q].phase
      /\ DOMAIN past' = DOMAIN past /\ past'.created = past.created /\ past'.crowded = past.crowded
      /\ past'.warned = (IF level = "warn" THEN past.warned \cup {r} ELSE past.warned)
  BY DEF LogLine, Invariant, Shaped, Fresh, LogTypes
<1>3. /\ LogFiles' = LogFiles
      /\ \A n \in LogFiles : logs[n] \subseteq logs'[n]
      /\ level = "warn" /\ run[r].log \in LogFiles => <<r, "warn">> \in logs'[run[r].log]
  BY DEF LogLine, LogFiles, FlushOn, Lines
<1>4. LogTypes'
  <2>1. \A q \in past'.warned :
            q \in Runs /\ run'[q].log # 0 /\ run'[q].phase \in Going \cup {"done", "crashed"}
    BY <1>1, <1>2 DEF LogTypes, Going, Framing
  <2> QED
    BY <1>1, <1>2, <1>3, <2>1 DEF LogTypes
<1>5. NamesStay
  BY <1>2 DEF NamesStay
<1>6. RoomForOne'
  BY <1>2, <1>3 DEF RoomForOne
<1>7. LogsLast'
  <2>1. ASSUME NEW q \in Runs, run[q].phase \in Going, run[q].log # 0
        PROVE  run[q].log \in LogFiles \/ PushedOut(q)'
    BY <1>4, <1>5, <2>1, PushedOutForGood DEF LogsLast
  <2>2. ASSUME NEW q \in past.warned
        PROVE  (run[q].log \in LogFiles /\ <<q, "warn">> \in logs'[run[q].log]) \/ PushedOut(q)'
    <3>1. q \in Runs /\ run[q].log # 0 /\ run[q].phase \in Going \cup {"done", "crashed"}
      BY DEF LogTypes
    <3>2. (run[q].log \in LogFiles /\ <<q, "warn">> \in logs[run[q].log]) \/ PushedOut(q)
      BY DEF LogsLast
    <3> QED
      BY <1>3, <1>4, <1>5, <3>1, <3>2, PushedOutForGood
  <2>3. level = "warn" => (run[r].log \in LogFiles /\ <<r, "warn">> \in logs'[run[r].log]) \/ PushedOut(r)'
    BY <1>1, <1>3, <2>1 DEF Going, Framing
  <2>4. \A q \in Runs : run'[q].phase \in Going /\ run'[q].log # 0 => run'[q].log \in LogFiles' \/ PushedOut(q)'
    BY <1>2, <1>3, <2>1
  <2>5. \A q \in past'.warned :
            (run'[q].log \in LogFiles' /\ <<q, "warn">> \in logs'[run'[q].log]) \/ PushedOut(q)'
    <3>1. TAKE q \in past'.warned
    <3>2. q \in Runs /\ (q \in past.warned \/ (q = r /\ level = "warn"))
      BY <1>2 DEF LogTypes
    <3>3. run'[q].log = run[q].log
      BY <1>2, <3>2
    <3> QED
      BY <1>3, <2>2, <2>3, <3>2, <3>3
  <2> QED
    BY <2>4, <2>5 DEF LogsLast
<1> QED
  BY <1>4, <1>6, <1>7

\* Of a run in the other steps: it goes on, and its log keeps its name.
LEMMA OthersAreQuiet ==
    ASSUME Invariant, Invariant', LogInvariant, NEW r \in Runs,
           \/ Start(r) \/ (Configure(r) /\ ~session.located) \/ LoadSettings(r) \/ BootFails(r)
           \/ UnlinkLeftover(r) \/ Bind(r) \/ Listen(r)
           \/ PressKey(r) \/ ServiceRequests(r) \/ NoRequest(r) \/ DrawSettingsPanel(r)
           \/ EndFrame(r) \/ DrawFrame(r) \/ FinishWrite(r) \/ Close(r)
           \/ Stop(r) \/ DestroyDebugUi(r) \/ Flush(r) \/ Crash(r)
    PROVE  LogQuiet
<1> DEFINE Same == UNCHANGED <<clock, logs, past.created, past.warned, past.crowded>> /\ DOMAIN past' = DOMAIN past
           GoesOn(q) ==
              /\ run'[q].log = run[q].log
              /\ \/ run'[q].phase = run[q].phase
                 \/ run[q].phase = "off" /\ run'[q].phase = "configure"
                 \/ run[q].phase = "configure" /\ run'[q].phase = "ui"
                 \/ run[q].phase \in Going /\ run'[q].phase \in Going \cup {"done"}
                 \/ run[q].phase # "off" /\ run'[q].phase = "crashed"
<1>1. ASSUME Same, \A q \in Runs : GoesOn(q) PROVE LogQuiet
  BY <1>1 DEF LogQuiet, LogInvariant, LogTypes, LogFiles
<1> USE DEF Invariant, Shaped, Going, Framing, Fresh, LogInvariant, LogTypes
<1>2. CASE Start(r)
  BY <1>1, <1>2 DEF Start
<1>3. CASE Configure(r) /\ ~session.located
  BY <1>1, <1>3 DEF Configure
<1>4. CASE LoadSettings(r)
  <2>1. PICK scale, phase : /\ run' = [run EXCEPT ![r].scale = scale, ![r].phase = phase]
                           /\ phase = IF session.channel THEN "unlink" ELSE "run"
    BY <1>4 DEF LoadSettings
  <2>2. Same /\ run[r].phase = "ui"
    BY <1>4 DEF LoadSettings
  <2>3. \A q \in Runs : GoesOn(q)
    BY <2>1, <2>2
  <2> QED
    BY <1>1, <2>2, <2>3
<1>5. CASE BootFails(r)
  BY <1>1, <1>5 DEF BootFails
<1>6. CASE UnlinkLeftover(r) \/ Bind(r) \/ Listen(r)
  <2>1. Same /\ run[r].phase \in {"unlink", "bind", "listen"}
    BY <1>6 DEF UnlinkLeftover, Bind, Listen
  <2>2. \A q \in Runs : run'[q].log = run[q].log /\ (q # r => run'[q].phase = run[q].phase)
    BY <1>6, TouchMarks DEF UnlinkLeftover, Bind, Listen, Unavailable
  <2>3. run'[r].phase \in {"bind", "listen", "run"}
    BY <1>6, TouchMarks DEF UnlinkLeftover, Bind, Listen, Unavailable
  <2>4. \A q \in Runs : GoesOn(q)
    BY <2>1, <2>2, <2>3
  <2> QED
    BY <1>1, <2>1, <2>4
<1>7. CASE PressKey(r)
  BY <1>1, <1>7 DEF PressKey, Idle
<1>8. CASE ServiceRequests(r)
  BY <1>1, <1>8 DEF ServiceRequests, Idle, AfterRequests
<1>9. CASE NoRequest(r)
  BY <1>1, <1>9 DEF NoRequest, Idle, AfterRequests
<1>10. CASE DrawSettingsPanel(r)
  <2>1. Same /\ run[r].phase = "panel"
    BY <1>10 DEF DrawSettingsPanel
  <2>2. CASE \E scale \in Scales \ {run[r].scale} :
                 run' = [run EXCEPT ![r].scale = scale, ![r].dirty = TRUE, ![r].drawn = TRUE,
                                    ![r].phase = "end"]
    BY <1>1, <2>1, <2>2
  <2>3. CASE run' = [run EXCEPT ![r].drawn = TRUE,
                                ![r].phase = IF run[r].dirty THEN "end" ELSE "draw"]
    <3>1. PICK phase \in {"end", "draw"} : run' = [run EXCEPT ![r].drawn = TRUE, ![r].phase = phase]
      BY <2>3
    <3> QED
      BY <1>1, <2>1, <3>1
  <2> QED
    BY <1>10, <2>2, <2>3 DEF DrawSettingsPanel
<1>11. CASE EndFrame(r)
  <2>1. Same /\ run[r].phase = "end"
    BY <1>11 DEF EndFrame, OpenSettings
  <2>2. \A q \in Runs : run'[q].log = run[q].log /\ (q # r => run'[q].phase = run[q].phase)
    BY <1>11 DEF EndFrame, OpenSettings
  <2>3. run'[r].phase = "draw"
    BY <1>11 DEF EndFrame, OpenSettings
  <2>4. \A q \in Runs : GoesOn(q)
    BY <2>1, <2>2, <2>3
  <2> QED
    BY <1>1, <2>1, <2>4
<1>12. CASE DrawFrame(r)
  BY <1>1, <1>12 DEF DrawFrame
<1>13. CASE FinishWrite(r)
  BY <1>1, <1>13 DEF FinishWrite
<1>14. CASE Close(r)
  BY <1>1, <1>14 DEF Close, Idle
<1>15. CASE Stop(r)
  <2>1. Same /\ run[r].phase = "close"
    BY <1>15 DEF Stop
  <2>2. \A q \in Runs : run'[q].log = run[q].log /\ (q # r => run'[q].phase = run[q].phase)
    BY <1>15, TouchMarks DEF Stop
  <2>3. run'[r].phase = "save"
    BY <1>15, TouchMarks DEF Stop
  <2>4. \A q \in Runs : GoesOn(q)
    BY <2>1, <2>2, <2>3
  <2> QED
    BY <1>1, <2>1, <2>4
<1>16. CASE DestroyDebugUi(r)
  <2>1. Same /\ run[r].phase = "save"
    BY <1>16 DEF DestroyDebugUi, OpenSettings
  <2>2. \A q \in Runs : run'[q].log = run[q].log /\ (q # r => run'[q].phase = run[q].phase)
    BY <1>16 DEF DestroyDebugUi, OpenSettings
  <2>3. run'[r].phase = "flush"
    BY <1>16 DEF DestroyDebugUi, OpenSettings
  <2>4. \A q \in Runs : GoesOn(q)
    BY <2>1, <2>2, <2>3
  <2> QED
    BY <1>1, <2>1, <2>4
<1>17. CASE Flush(r)
  <2>1. UNCHANGED <<clock, past.created, past.warned, past.crowded>> /\ DOMAIN past' = DOMAIN past
    BY <1>17 DEF Flush
  <2>2. DOMAIN logs' = LogFiles /\ \A n \in LogFiles : logs[n] \subseteq logs'[n]
    BY <1>17 DEF Flush, Flushed, LogFiles, Lines
  <2>3. \A q \in Runs : GoesOn(q)
    BY <1>17 DEF Flush, Ended
  <2> QED
    BY <2>1, <2>2, <2>3 DEF LogQuiet
<1>18. CASE Crash(r)
  <2>1. Same
    BY <1>18 DEF Crash
  <2>2. \A q \in Runs : GoesOn(q)
    BY <1>18 DEF Crash, Ended, Alive
  <2> QED
    BY <1>1, <2>1, <2>2
<1> QED
  BY <1>2, <1>3, <1>4, <1>5, <1>6, <1>7, <1>8, <1>9, <1>10, <1>11, <1>12, <1>13, <1>14,
     <1>15, <1>16, <1>17, <1>18

\* Neither do the clients and the clock touch a log.
LEMMA RestIsQuiet ==
    ASSUME Invariant, LogInvariant,
           \/ \E c \in Clients : Snapshot(c) \/ SendCommand(c) \/ Poll(c) \/ GiveUp(c)
           \/ Tick \/ Finished \/ UNCHANGED vars
    PROVE  LogQuiet
<1>1. ASSUME clock' \in Nat \ {0}, UNCHANGED <<logs, past>>,
             \A q \in Runs : run'[q].log = run[q].log /\ run'[q].phase = run[q].phase
      PROVE  LogQuiet
  BY <1>1 DEF LogQuiet, LogFiles
<1>2. clock \in Nat \ {0}
  BY DEF LogInvariant, LogTypes
<1>3. ASSUME NEW c \in Clients, Snapshot(c) \/ Poll(c) \/ GiveUp(c) PROVE LogQuiet
  <2>1. UNCHANGED <<clock, logs, past, run>>
    BY <1>3 DEF Snapshot, Poll, GiveUp
  <2> QED
    BY <1>1, <1>2, <2>1
<1>4. ASSUME NEW c \in Clients, SendCommand(c) PROVE LogQuiet
  <2>1. UNCHANGED <<clock, logs, past>>
    BY <1>4 DEF SendCommand
  <2>2. run' = run \/ run' = [run EXCEPT ![socket].pressed = @ \cup {c}]
    BY <1>4 DEF SendCommand
  <2>3. \A q \in Runs : run'[q].log = run[q].log /\ run'[q].phase = run[q].phase
    BY <2>2 DEF Invariant, Shaped, Fresh
  <2> QED
    BY <1>1, <1>2, <2>1, <2>3
<1>5. CASE Tick
  BY <1>1, <1>2, <1>5 DEF Tick
<1>6. CASE Finished \/ UNCHANGED vars
  BY <1>1, <1>2, <1>6 DEF Finished, vars
<1> QED
  BY <1>3, <1>4, <1>5, <1>6

LEMMA LogsHold == Spec => []LogInvariant
<1>1. Init => LogInvariant
  <2> SUFFICES ASSUME Init PROVE LogInvariant
    OBVIOUS
  <2>1. \A r \in Runs : run[r].log = 0 /\ run[r].phase = "off"
    BY DEF Init, Fresh
  <2>2. LogFiles = {} /\ past.created = {} /\ past.warned = {}
    BY DEF Init, LogFiles
  <2>3. LogTypes
    BY <2>1, <2>2, FS_EmptySet DEF Init, LogTypes
  <2>4. Cardinality(LogFiles) = 0
    BY <2>2, FS_EmptySet, Zenon
  <2>5. RoomForOne
    BY <2>1, <2>4, RunsAssumption DEF RoomForOne
  <2>6. LogsLast
    BY <2>1, <2>2 DEF LogsLast
  <2> QED
    BY <2>3, <2>5, <2>6 DEF LogInvariant
<1>2. Invariant /\ Invariant' /\ LogInvariant /\ [Next]_vars => LogInvariant'
  <2> SUFFICES ASSUME Invariant, Invariant', LogInvariant, [Next]_vars PROVE LogInvariant'
    OBVIOUS
  <2>1. ASSUME NEW r \in Runs, Configure(r) PROVE LogInvariant'
    BY <2>1, ConfigureKeepsLogs, OthersAreQuiet, QuietKeepsLogs
  <2> QED
    BY <2>1, SinkKeepsLogs, LineKeepsLogs, OthersAreQuiet, RestIsQuiet, QuietKeepsLogs DEF Next
<1> QED
  BY <1>1, <1>2, InvariantHolds, PTL DEF Spec

\* Runs that start one at a time, with every old file removable, never leave
\* more logs than are to be kept; and whatever a run warned about can be read
\* afterwards, however it ended, until enough newer logs push its own out (or a
\* second run is named alike): for any number of runs and of files to keep.
THEOREM LogsAreKept == Spec => []LogHistory
<1>1. LogInvariant => LogHistory
  <2> SUFFICES ASSUME LogInvariant PROVE LogHistory
    OBVIOUS
  <2>1. ~past.crowded => Cardinality(LogFiles) <= MaximumFiles
    BY DEF LogInvariant, RoomForOne
  <2>2. ASSUME NEW r \in past.warned
        PROVE  \/ run[r].log \in LogFiles /\ <<r, "warn">> \in logs[run[r].log]
               \/ Cardinality({m \in past.created : m > run[r].log}) >= MaximumFiles - 1
               \/ \E q \in Runs \ {r} : run[q].log = run[r].log
    BY DEF LogInvariant, LogsLast, PushedOut, Newer
  <2> QED
    BY <2>1, <2>2 DEF LogHistory
<1> QED
  BY <1>1, LogsHold, PTL

-----------------------------------------------------------------------------
(* Captured pictures.                                                      *)

\* A key that is down in it, a picture that is asked of it or being written.
Holding(r) == run[r].pressed # {} \/ run[r].pending # NoFile \/ run[r].file \notin {NoFile, SettingsFile}

NothingComing(c) ==
    /\ \A r \in Runs : ~Holding(r)
    /\ DOMAIN captures \subseteq client[c].before

\* The client's key is in one run, on its way to one picture or past it, and
\* what is new in the directory came of it.
OnlyItsOwn(c) ==
    /\ \A r \in Runs : run[r].pressed \subseteq {c} /\ (run[r].pending # NoFile => run[r].asked = {c})
    /\ \A q, r \in Runs : Holding(q) /\ Holding(r) => q = r
    /\ \A n \in DOMAIN captures \ client[c].before :
           captures[n].asked = {c} /\ captures[n].state \in {"cut", "whole"}

PictureTypes ==
    /\ DOMAIN client = Clients
    /\ \A c \in Clients : /\ DOMAIN client[c] = {"phase", "before", "answer", "others"}
                          /\ client[c].others \in BOOLEAN
    /\ \A n \in DOMAIN captures : DOMAIN captures[n] = {"asked", "state"}
    /\ \A r \in Runs : run[r].pending # SettingsFile

\* What a client that nobody disturbed may count on, before it asks and after.
Undisturbed(c) ==
    /\ client[c].phase = "send" => NothingComing(c)
    /\ client[c].phase = "poll" => OnlyItsOwn(c)

PictureInvariant ==
    /\ PictureTypes
    /\ \A c \in Clients : ~client[c].others => Undisturbed(c)
    /\ PictureIsTheOneAsked

\* Steps that ask for no picture and make none.
Eases ==
    /\ UNCHANGED <<captures, client>>
    /\ \A r \in Runs :
           /\ run'[r].pressed \subseteq run[r].pressed
           /\ run'[r].pending \in {run[r].pending, NoFile}
           /\ run'[r].pending # NoFile => run'[r].asked = run[r].asked
           /\ run'[r].file \in {run[r].file, NoFile, SettingsFile}

LEMMA EasingKeepsPictures ==
    ASSUME PictureInvariant, Eases
    PROVE  PictureInvariant'
<1>1. \A r \in Runs : Holding(r)' => Holding(r)
  BY DEF Eases, Holding
<1>2. PictureTypes'
  BY DEF PictureInvariant, PictureTypes, Eases, SettingsFile, NoFile
<1>3. \A c \in Clients : NothingComing(c) => NothingComing(c)'
  BY <1>1 DEF NothingComing, Eases
<1>4. ASSUME NEW c \in Clients, OnlyItsOwn(c) PROVE OnlyItsOwn(c)'
  <2>1. \A r \in Runs : run'[r].pressed \subseteq {c} /\ (run'[r].pending # NoFile => run'[r].asked = {c})
    BY <1>4 DEF OnlyItsOwn, Eases
  <2>2. \A q, r \in Runs : Holding(q)' /\ Holding(r)' => q = r
    BY <1>1, <1>4 DEF OnlyItsOwn
  <2> QED
    BY <1>4, <2>1, <2>2 DEF OnlyItsOwn, Eases
<1>5. client' = client
  BY DEF Eases
<1>6. \A c \in Clients : ~client'[c].others => Undisturbed(c)'
  BY <1>3, <1>4, <1>5 DEF PictureInvariant, Undisturbed
<1>7. PictureIsTheOneAsked'
  BY <1>5 DEF PictureInvariant, PictureIsTheOneAsked
<1> QED
  BY <1>2, <1>6, <1>7 DEF PictureInvariant

LEMMA TouchKeepsTheRest ==
    ASSUME Invariant, NEW r \in Runs, NEW q \in Runs
    PROVE  /\ Touch(r)[q].pressed = run[q].pressed /\ Touch(r)[q].pending = run[q].pending
           /\ Touch(r)[q].asked = run[q].asked /\ Touch(r)[q].file = run[q].file
           /\ Touch(r)[q].scale = run[q].scale /\ Touch(r)[q].saved = run[q].saved
           /\ Touch(r)[q].drawn = run[q].drawn
<1> DEFINE old == run[q]
<1>1. Touch(r)[q] = old \/ Touch(r)[q] = [old EXCEPT !.met = TRUE]
  BY DEF Touch
<1>2. {"pressed", "pending", "asked", "file", "scale", "saved", "drawn"} \subseteq DOMAIN old
  BY DEF Invariant, Shaped, Fresh
<1> HIDE DEF old
<1>3. /\ Touch(r)[q].pressed = old.pressed /\ Touch(r)[q].pending = old.pending
      /\ Touch(r)[q].asked = old.asked /\ Touch(r)[q].file = old.file
      /\ Touch(r)[q].scale = old.scale /\ Touch(r)[q].saved = old.saved
      /\ Touch(r)[q].drawn = old.drawn
  BY ONLY <1>1, <1>2
<1> QED
  BY <1>3 DEF old

\* Everything but a key, a request and its picture eases.
LEMMA OthersEase ==
    ASSUME Invariant, NEW r \in Runs,
           \/ Start(r) \/ Configure(r) \/ MakeFileSink(r) \/ LoadSettings(r) \/ BootFails(r)
           \/ UnlinkLeftover(r) \/ Bind(r) \/ Listen(r)
           \/ \E level \in {"info", "warn"} : LogLine(r, level)
           \/ NoRequest(r) \/ DrawSettingsPanel(r) \/ EndFrame(r)
           \/ Close(r) \/ Stop(r) \/ DestroyDebugUi(r) \/ Flush(r) \/ Crash(r)
    PROVE  Eases
<1> DEFINE Less(q) == /\ run'[q].pressed \subseteq run[q].pressed
                      /\ run'[q].pending \in {run[q].pending, NoFile}
                      /\ run'[q].pending # NoFile => run'[q].asked = run[q].asked
                      /\ run'[q].file \in {run[q].file, NoFile, SettingsFile}
<1>1. UNCHANGED <<captures, client>>
  BY DEF Start, Configure, MakeFileSink, LoadSettings, BootFails, UnlinkLeftover, Bind, Listen, LogLine,
         NoRequest, DrawSettingsPanel, EndFrame, Close, Stop, DestroyDebugUi, Flush, Crash
<1> USE DEF Invariant, Shaped, Fresh
<1>2. ASSUME \A q \in Runs : Less(q) PROVE Eases
  BY <1>1, <1>2 DEF Eases
<1>3. CASE Start(r)
  BY <1>2, <1>3 DEF Start
<1>4. CASE Configure(r)
  BY <1>2, <1>4 DEF Configure
<1>5. CASE MakeFileSink(r)
  BY <1>2, <1>5 DEF MakeFileSink
<1>6. CASE LoadSettings(r)
  <2>1. PICK scale, phase : /\ run' = [run EXCEPT ![r].scale = scale, ![r].phase = phase]
                           /\ phase = IF session.channel THEN "unlink" ELSE "run"
    BY <1>6 DEF LoadSettings
  <2> QED
    BY <1>2, <2>1
<1>7. CASE BootFails(r) \/ NoRequest(r) \/ Close(r)
  <2>1. PICK phase : run' = [run EXCEPT ![r].phase = phase]
    BY <1>7 DEF BootFails, NoRequest, Close
  <2> QED
    BY <1>2, <2>1
<1>8. CASE UnlinkLeftover(r) \/ Bind(r) \/ Listen(r) \/ Stop(r)
  <2>1. \A q \in Runs : /\ run'[q].pressed = run[q].pressed /\ run'[q].pending = run[q].pending
                        /\ run'[q].asked = run[q].asked /\ run'[q].file = run[q].file
    <3> USE TouchMarks, TouchKeepsTheRest
    <3>1. CASE UnlinkLeftover(r)
      <4>1. CASE run' = [Touch(r) EXCEPT ![r].phase = "bind"]
        BY <4>1
      <4>2. CASE Unavailable(r)
        BY <4>2 DEF Unavailable
      <4> QED
        BY <3>1, <4>1, <4>2 DEF UnlinkLeftover
    <3>2. CASE Bind(r)
      BY <3>2 DEF Bind, Unavailable
    <3>3. CASE Listen(r)
      BY <3>3 DEF Listen, Unavailable
    <3>4. CASE Stop(r)
      BY <3>4 DEF Stop
    <3> QED
      BY <1>8, <3>1, <3>2, <3>3, <3>4
  <2> QED
    BY <1>2, <2>1
<1>9. CASE \E level \in {"info", "warn"} : LogLine(r, level)
  BY <1>2, <1>9 DEF LogLine
<1>10. CASE DrawSettingsPanel(r)
  <2>1. CASE \E scale \in Scales \ {run[r].scale} :
                 run' = [run EXCEPT ![r].scale = scale, ![r].dirty = TRUE, ![r].drawn = TRUE,
                                    ![r].phase = "end"]
    BY <1>2, <2>1
  <2>2. CASE run' = [run EXCEPT ![r].drawn = TRUE,
                                ![r].phase = IF run[r].dirty THEN "end" ELSE "draw"]
    <3>1. PICK phase \in {"end", "draw"} : run' = [run EXCEPT ![r].drawn = TRUE, ![r].phase = phase]
      BY <2>2
    <3> QED
      BY <1>2, <3>1
  <2> QED
    BY <1>10, <2>1, <2>2 DEF DrawSettingsPanel
<1>11. CASE EndFrame(r) \/ DestroyDebugUi(r)
  <2>1. PICK phase \in {"draw", "flush"} :
            run' = [run EXCEPT ![r].phase = phase] \/ OpenSettings(r, phase)
    BY <1>11 DEF EndFrame, DestroyDebugUi
  <2>2. CASE run' = [run EXCEPT ![r].phase = phase]
    BY <1>2, <2>2
  <2>3. CASE OpenSettings(r, phase)
    <3>1. CASE run' = [run EXCEPT ![r].phase = phase, ![r].file = SettingsFile, ![r].dirty = FALSE,
                                  ![r].saved = Stored(run[r].scale)]
      BY <1>2, <3>1
    <3>2. CASE run' = [run EXCEPT ![r].phase = phase, ![r].dirty = FALSE, ![r].saved = Unknown]
      BY <1>2, <3>2
    <3> QED
      BY <2>3, <3>1, <3>2 DEF OpenSettings
  <2> QED
    BY <2>1, <2>2, <2>3
<1>12. CASE Flush(r) \/ Crash(r)
  <2>1. PICK phase : run' = [run EXCEPT ![r] = Ended(r, phase)]
    BY <1>12 DEF Flush, Crash
  <2>2. \A q \in Runs : Less(q)
    BY <2>1 DEF Ended
  <2> QED
    BY <1>2, <2>2
<1> QED
  BY <1>3, <1>4, <1>5, <1>6, <1>7, <1>8, <1>9, <1>10, <1>11, <1>12

\* F12 is pressed: clients that wait have company.
LEMMA KeyKeepsPictures ==
    ASSUME Invariant, PictureInvariant, NEW r \in Runs, PressKey(r)
    PROVE  PictureInvariant'
<1>1. captures' = captures /\ run' = [run EXCEPT ![r].pressed = @ \cup {Nobody}]
  BY DEF PressKey
<1>2. /\ DOMAIN client' = Clients
      /\ \A c \in Clients : /\ DOMAIN client'[c] = DOMAIN client[c]
                            /\ client'[c].phase = client[c].phase /\ client'[c].answer = client[c].answer
                            /\ client'[c].others = (client[c].others \/ client[c].phase # "idle")
  BY DEF PressKey, PictureInvariant, PictureTypes
<1>3. \A q \in Runs : run'[q].pending = run[q].pending
  BY <1>1 DEF Invariant, Shaped, Fresh
<1>4. PictureTypes'
  BY <1>1, <1>2, <1>3 DEF PictureInvariant, PictureTypes, SettingsFile
<1>5. \A c \in Clients : ~client'[c].others => client'[c].phase \notin {"send", "poll"} /\ ~client[c].others
  BY <1>2 DEF PictureInvariant, PictureTypes
<1>6. PictureIsTheOneAsked'
  BY <1>2, <1>5 DEF PictureInvariant, PictureIsTheOneAsked
<1> QED
  BY <1>4, <1>5, <1>6 DEF PictureInvariant, Undisturbed

\* A request, a picture that is begun and one that is finished, in the one run
\* that had the key.
LEMMA CaptureKeepsPictures ==
    ASSUME Invariant, PictureInvariant, NEW r \in Runs,
           ServiceRequests(r) \/ DrawFrame(r) \/ FinishWrite(r)
    PROVE  PictureInvariant'
<1>1. client' = client
  BY DEF ServiceRequests, DrawFrame, FinishWrite
<1>2. CASE Eases
  BY <1>2, EasingKeepsPictures
<1>3. ASSUME Holding(r), PictureTypes', \A q \in Runs : Holding(q)' => Holding(q),
             \A c \in Clients : OnlyItsOwn(c) => OnlyItsOwn(c)'
      PROVE  PictureInvariant'
  <2>1. \A c \in Clients : ~NothingComing(c)
    BY <1>3 DEF NothingComing
  <2>2. \A c \in Clients : ~client'[c].others => Undisturbed(c)'
    BY <1>1, <1>3, <2>1 DEF PictureInvariant, Undisturbed
  <2>3. PictureIsTheOneAsked'
    BY <1>1 DEF PictureInvariant, PictureIsTheOneAsked
  <2> QED
    BY <1>3, <2>2, <2>3 DEF PictureInvariant
<1> USE DEF Invariant, Shaped, Fresh
<1>4. CASE ServiceRequests(r)
  <2>1. /\ run[r].pressed # {} /\ captures' = captures
        /\ \/ run' = [run EXCEPT ![r].phase = AfterRequests, ![r].pressed = {}, ![r].asked = run[r].pressed,
                                 ![r].pending = GenerateCapturePath(r), ![r].index = @ + 1]
           \/ run' = [run EXCEPT ![r].phase = AfterRequests, ![r].pressed = {}]
    BY <1>4 DEF ServiceRequests
  <2>2. CASE run' = [run EXCEPT ![r].phase = AfterRequests, ![r].pressed = {}]
    <3>1. Eases
      BY <1>1, <2>1, <2>2 DEF Eases
    <3> QED
      BY <1>2, <3>1
  <2>3. CASE run' = [run EXCEPT ![r].phase = AfterRequests, ![r].pressed = {}, ![r].asked = run[r].pressed,
                                ![r].pending = GenerateCapturePath(r), ![r].index = @ + 1]
    <3>1. /\ run'[r].pressed = {} /\ run'[r].asked = run[r].pressed
          /\ run'[r].pending = GenerateCapturePath(r)
          /\ \A q \in Runs \ {r} : run'[q] = run[q]
      BY <2>3
    <3>2. GenerateCapturePath(r) # SettingsFile
      BY DEF GenerateCapturePath, SettingsFile
    <3>3. PictureTypes'
      <4>1. \A q \in Runs : run'[q].pending # SettingsFile
        BY <3>1, <3>2 DEF PictureInvariant, PictureTypes
      <4> QED
        BY <1>1, <2>1, <4>1 DEF PictureInvariant, PictureTypes, SettingsFile
    <3>4. Holding(r) /\ \A q \in Runs : Holding(q)' => Holding(q)
      BY <2>1, <3>1 DEF Holding
    <3>5. ASSUME NEW c \in Clients, OnlyItsOwn(c) PROVE OnlyItsOwn(c)'
      <4>1. \A q \in Runs : run'[q].pressed \subseteq {c} /\ (run'[q].pending # NoFile => run'[q].asked = {c})
        BY <2>1, <3>1, <3>5 DEF OnlyItsOwn
      <4> QED
        BY <1>1, <2>1, <3>4, <3>5, <4>1 DEF OnlyItsOwn
    <3> QED
      BY <1>3, <3>3, <3>4, <3>5
  <2> QED
    BY <2>1, <2>2, <2>3
<1>5. CASE DrawFrame(r)
  <2> DEFINE name == run[r].pending
             picture == [asked |-> run[r].asked, state |-> IF Rivals(r, name) # {} THEN "mixed" ELSE "cut"]
  <2>1. \/ /\ name # NoFile
           /\ captures' = [n \in DOMAIN captures \cup {name} |-> IF n = name THEN picture ELSE captures[n]]
           /\ run' = [run EXCEPT ![r].phase = "run", ![r].pending = NoFile, ![r].asked = {}, ![r].file = name]
        \/ /\ captures' = captures
           /\ run' = [run EXCEPT ![r].phase = "run", ![r].pending = NoFile, ![r].asked = {}]
        \/ /\ captures' = captures
           /\ run' = [run EXCEPT ![r].phase = "run"]
    BY <1>5 DEF DrawFrame
  <2>2. CASE captures' = captures /\ run' = [run EXCEPT ![r].phase = "run"]
    <3>1. Eases
      BY <1>1, <2>2 DEF Eases
    <3> QED
      BY <1>2, <3>1
  <2>3. CASE captures' = captures /\ run' = [run EXCEPT ![r].phase = "run", ![r].pending = NoFile, ![r].asked = {}]
    <3>1. Eases
      BY <1>1, <2>3 DEF Eases
    <3> QED
      BY <1>2, <3>1
  <2>4. CASE /\ name # NoFile
             /\ captures' = [n \in DOMAIN captures \cup {name} |-> IF n = name THEN picture ELSE captures[n]]
             /\ run' = [run EXCEPT ![r].phase = "run", ![r].pending = NoFile, ![r].asked = {}, ![r].file = name]
    <3>1. /\ run'[r].pressed = run[r].pressed /\ run'[r].pending = NoFile
          /\ \A q \in Runs \ {r} : run'[q] = run[q]
      BY <2>4
    <3>2. /\ DOMAIN captures' = DOMAIN captures \cup {name}
          /\ captures'[name] = picture
          /\ \A n \in DOMAIN captures \ {name} : captures'[n] = captures[n]
      BY <2>4
    <3>3. Holding(r) /\ \A q \in Runs : Holding(q)' => Holding(q)
      BY <2>4, <3>1 DEF Holding
    <3>4. PictureTypes'
      <4>1. \A q \in Runs : run'[q].pending # SettingsFile
        BY <3>1 DEF PictureInvariant, PictureTypes, NoFile, SettingsFile
      <4>2. \A n \in DOMAIN captures' : DOMAIN captures'[n] = {"asked", "state"}
        BY <3>2 DEF PictureInvariant, PictureTypes
      <4> QED
        BY <1>1, <4>1, <4>2 DEF PictureInvariant, PictureTypes, SettingsFile
    <3>5. ASSUME NEW c \in Clients, OnlyItsOwn(c) PROVE OnlyItsOwn(c)'
      <4>1. Rivals(r, name) = {}
        BY <2>4, <3>3, <3>5 DEF Rivals, OnlyItsOwn, Holding, PictureInvariant, PictureTypes
      <4>2. picture.asked = {c} /\ picture.state = "cut"
        BY <2>4, <3>5, <4>1 DEF OnlyItsOwn
      <4> HIDE DEF picture
      <4>3. \A q \in Runs : run'[q].pressed \subseteq {c} /\ (run'[q].pending # NoFile => run'[q].asked = {c})
        BY <3>1, <3>5 DEF OnlyItsOwn
      <4>4. \A n \in DOMAIN captures' \ client'[c].before :
                captures'[n].asked = {c} /\ captures'[n].state \in {"cut", "whole"}
        BY <1>1, <3>2, <3>5, <4>2 DEF OnlyItsOwn
      <4>5. \A p, q \in Runs : Holding(p)' /\ Holding(q)' => p = q
        BY <3>3, <3>5 DEF OnlyItsOwn
      <4> QED
        BY <4>3, <4>4, <4>5 DEF OnlyItsOwn
    <3> QED
      BY <1>3, <3>3, <3>4, <3>5
  <2> QED
    BY <2>1, <2>2, <2>3, <2>4
<1>6. CASE FinishWrite(r)
  <2> DEFINE name == run[r].file
             new == IF captures[name].state = "mixed" \/ Rivals(r, name) # {} THEN "mixed" ELSE "whole"
  <2>1. name # NoFile
    BY <1>6 DEF FinishWrite, Writing
  <2>2. \/ /\ name = SettingsFile /\ captures' = captures
           /\ \/ run' = [run EXCEPT ![r].file = NoFile]
              \/ run' = [run EXCEPT ![r].file = NoFile, ![r].saved = Unknown]
        \/ /\ name # SettingsFile /\ run' = [run EXCEPT ![r].file = NoFile]
           /\ \/ captures' = captures
              \/ captures' = [captures EXCEPT ![name].state = new]
    BY <1>6 DEF FinishWrite
  <2>3. /\ run'[r].file = NoFile /\ run'[r].pressed = run[r].pressed
        /\ run'[r].pending = run[r].pending /\ run'[r].asked = run[r].asked
        /\ \A q \in Runs \ {r} : run'[q] = run[q]
    BY <2>2
  <2>4. CASE captures' = captures
    <3>1. Eases
      BY <1>1, <2>3, <2>4 DEF Eases
    <3> QED
      BY <1>2, <3>1
  <2>5. CASE name # SettingsFile /\ captures' = [captures EXCEPT ![name].state = new]
    <3>1. Holding(r) /\ \A q \in Runs : Holding(q)' => Holding(q)
      BY <2>1, <2>3, <2>5 DEF Holding
    <3>2. /\ DOMAIN captures' = DOMAIN captures
          /\ \A n \in DOMAIN captures :
                 /\ DOMAIN captures'[n] = DOMAIN captures[n]
                 /\ captures'[n].asked = captures[n].asked
                 /\ captures'[n].state = IF n = name THEN new ELSE captures[n].state
      BY <2>5 DEF PictureInvariant, PictureTypes
    <3>3. PictureTypes'
      <4>1. \A q \in Runs : run'[q].pending # SettingsFile
        BY <2>3 DEF PictureInvariant, PictureTypes
      <4> QED
        BY <1>1, <3>2, <4>1 DEF PictureInvariant, PictureTypes, SettingsFile
    <3>4. ASSUME NEW c \in Clients, OnlyItsOwn(c) PROVE OnlyItsOwn(c)'
      <4>1. Rivals(r, name) = {}
        BY <2>1, <2>5, <3>1, <3>4 DEF Rivals, OnlyItsOwn, Holding
      <4>2. name \in DOMAIN captures \ client[c].before => new = "whole"
        BY <3>4, <4>1 DEF OnlyItsOwn
      <4> HIDE DEF new
      <4>3. \A q \in Runs : run'[q].pressed \subseteq {c} /\ (run'[q].pending # NoFile => run'[q].asked = {c})
        BY <2>3, <3>4 DEF OnlyItsOwn
      <4>4. \A n \in DOMAIN captures' \ client'[c].before :
                captures'[n].asked = {c} /\ captures'[n].state \in {"cut", "whole"}
        BY <1>1, <3>2, <3>4, <4>2 DEF OnlyItsOwn
      <4>5. \A p, q \in Runs : Holding(p)' /\ Holding(q)' => p = q
        BY <3>1, <3>4 DEF OnlyItsOwn
      <4> QED
        BY <4>3, <4>4, <4>5 DEF OnlyItsOwn
    <3> QED
      BY <1>3, <3>1, <3>3, <3>4
  <2> QED
    BY <2>2, <2>4, <2>5
<1> QED
  BY <1>4, <1>5, <1>6

\* What a client does is about itself, but for the key it puts into a run: that
\* one is company to the others who wait.
LEMMA ClientKeepsPictures ==
    ASSUME Invariant, PictureInvariant, NEW c \in Clients,
           Snapshot(c) \/ SendCommand(c) \/ Poll(c) \/ GiveUp(c)
    PROVE  PictureInvariant'
<1> USE DEF PictureInvariant
<1>1. captures' = captures
  BY DEF Snapshot, SendCommand, Poll, GiveUp
<1>2. ASSUME run' = run, NEW own, client' = [client EXCEPT ![c] = own],
             DOMAIN own = DOMAIN client[c], own.others \in BOOLEAN,
             ~own.others => Undisturbed(c)',
             own.phase = "answered" =>
                 /\ own.answer.state # "cut"
                 /\ ~own.others => own.answer.state = "whole" /\ c \in own.answer.asked
      PROVE  PictureInvariant'
  <2>1. client'[c] = own /\ \A d \in Clients \ {c} : client'[d] = client[d]
    BY <1>2 DEF PictureTypes
  <2>2. PictureTypes'
    BY <1>1, <1>2, <2>1 DEF PictureTypes, SettingsFile
  <2>3. \A d \in Clients : ~client'[d].others => Undisturbed(d)'
    BY <1>1, <1>2, <2>1 DEF Undisturbed, NothingComing, OnlyItsOwn, Holding
  <2>4. PictureIsTheOneAsked'
    BY <1>2, <2>1 DEF PictureIsTheOneAsked
  <2> QED
    BY <2>2, <2>3, <2>4
<1>3. DOMAIN client = Clients /\ DOMAIN client[c] = {"phase", "before", "answer", "others"}
      /\ client[c].others \in BOOLEAN
  BY DEF PictureTypes
<1>4. CASE Snapshot(c)
  <2> DEFINE own == [client[c] EXCEPT !.phase = "send", !.before = DOMAIN captures, !.others = @ \/ Outstanding]
  <2>1. client' = [client EXCEPT ![c] = own] /\ run' = run
    BY <1>4 DEF Snapshot
  <2>2. /\ DOMAIN own = DOMAIN client[c] /\ own.phase = "send" /\ own.before = DOMAIN captures
        /\ own.others = (client[c].others \/ Outstanding)
    BY <1>3
  <2> HIDE DEF own
  <2>3. client'[c] = own
    BY <1>3, <2>1
  <2>4. ~own.others => Undisturbed(c)'
    <3>1. ~Outstanding => \A r \in Runs : ~Holding(r)
      BY DEF Outstanding, Holding, Writing
    <3>2. (\A r \in Runs : ~Holding(r)) => NothingComing(c)'
      BY <1>1, <2>1, <2>2, <2>3 DEF NothingComing, Holding
    <3> QED
      BY <2>2, <2>3, <3>1, <3>2 DEF Undisturbed
  <2>5. own.others \in BOOLEAN
    BY <1>3, <2>2 DEF Outstanding
  <2> QED
    BY <1>2, <2>1, <2>2, <2>4, <2>5
<1>5. CASE Poll(c)
  <2>1. PICK name \in DOMAIN captures \ client[c].before :
            /\ captures[name].state # "cut"
            /\ client' = [client EXCEPT ![c].phase = "answered", ![c].answer = captures[name]]
    BY <1>5 DEF Poll, Complete
  <2> DEFINE own == [client[c] EXCEPT !.phase = "answered", !.answer = captures[name]]
  <2>2. client' = [client EXCEPT ![c] = own] /\ run' = run /\ client[c].phase = "poll"
    BY <1>5, <2>1 DEF Poll
  <2>3. /\ DOMAIN own = DOMAIN client[c] /\ own.phase = "answered" /\ own.answer = captures[name]
        /\ own.others = client[c].others
    BY <1>3
  <2> HIDE DEF own
  <2>4. client'[c] = own
    BY <1>3, <2>2
  <2>5. ~own.others => Undisturbed(c)'
    BY <2>3, <2>4 DEF Undisturbed
  <2>6. ~own.others => captures[name].state = "whole" /\ c \in captures[name].asked
    <3>1. ~own.others => OnlyItsOwn(c)
      BY <2>2, <2>3 DEF Undisturbed
    <3> QED
      BY <2>1, <3>1 DEF OnlyItsOwn
  <2> QED
    BY <1>2, <1>3, <2>1, <2>2, <2>3, <2>5, <2>6
<1>6. CASE GiveUp(c) \/ (SendCommand(c) /\ run' = run /\ client' = [client EXCEPT ![c].phase = "gone"])
  <2> DEFINE own == [client[c] EXCEPT !.phase = "gone"]
  <2>1. client' = [client EXCEPT ![c] = own] /\ run' = run
    BY <1>6 DEF GiveUp
  <2>2. DOMAIN own = DOMAIN client[c] /\ own.phase = "gone" /\ own.others = client[c].others
    BY <1>3
  <2> HIDE DEF own
  <2>3. client'[c] = own
    BY <1>3, <2>1
  <2>4. Undisturbed(c)'
    BY <2>2, <2>3 DEF Undisturbed
  <2> QED
    BY <1>2, <1>3, <2>1, <2>2, <2>4
<1>7. CASE SendCommand(c) /\ socket # Nobody /\ run[socket].listening
  <2>1. PICK phase \in {"poll", "gone"} :
            client' = [d \in Clients |->
                IF d = c THEN [client[d] EXCEPT !.phase = phase]
                ELSE [client[d] EXCEPT !.others = @ \/ client[d].phase # "idle"]]
    BY <1>7 DEF SendCommand
  <2>2. run' = [run EXCEPT ![socket].pressed = @ \cup {c}] /\ client[c].phase = "send" /\ socket \in Runs
    BY <1>7 DEF SendCommand, Invariant, NameIsSomeones
  <2>3. /\ \A r \in Runs : /\ run'[r].pending = run[r].pending /\ run'[r].file = run[r].file
                           /\ run'[r].asked = run[r].asked
                           /\ run'[r].pressed = IF r = socket THEN run[r].pressed \cup {c} ELSE run[r].pressed
    BY <2>2 DEF Invariant, Shaped, Fresh
  <2>4. /\ DOMAIN client' = Clients
        /\ client'[c].phase = phase /\ client'[c].others = client[c].others
        /\ client'[c].before = client[c].before
        /\ DOMAIN client'[c] = DOMAIN client[c]
    BY <1>3, <2>1
  <2>5. \A d \in Clients \ {c} :
            /\ DOMAIN client'[d] = DOMAIN client[d]
            /\ client'[d].phase = client[d].phase /\ client'[d].answer = client[d].answer
            /\ client'[d].others = (client[d].others \/ client[d].phase # "idle")
    BY <2>1 DEF PictureTypes
  <2>6. PictureTypes'
    <3>1. \A d \in Clients : /\ DOMAIN client'[d] = {"phase", "before", "answer", "others"}
                             /\ client'[d].others \in BOOLEAN
      BY <2>4, <2>5 DEF PictureTypes
    <3> QED
      BY <1>1, <2>3, <2>4, <3>1 DEF PictureTypes, SettingsFile
  <2>7. ~client[c].others => OnlyItsOwn(c)'
    <3> SUFFICES ASSUME ~client[c].others PROVE OnlyItsOwn(c)'
      OBVIOUS
    <3>1. NothingComing(c)
      BY <2>2 DEF Undisturbed
    <3>2. \A r \in Runs : run[r].pressed = {} /\ run[r].pending = NoFile /\ run[r].file \in {NoFile, SettingsFile}
      BY <3>1 DEF NothingComing, Holding
    <3>3. \A r \in Runs : run'[r].pressed \subseteq {c} /\ run'[r].pending = NoFile /\ (Holding(r)' => r = socket)
      BY <2>3, <3>2 DEF Holding
    <3>4. DOMAIN captures' \ client'[c].before = {}
      BY <1>1, <2>4, <3>1 DEF NothingComing
    <3> QED
      BY <3>3, <3>4 DEF OnlyItsOwn
  <2>8. \A d \in Clients : ~client'[d].others => Undisturbed(d)'
    <3>1. ~client'[c].others => Undisturbed(c)'
      BY <2>1, <2>4, <2>7 DEF Undisturbed
    <3>2. ASSUME NEW d \in Clients \ {c}, ~client'[d].others PROVE Undisturbed(d)'
      BY <2>5, <3>2 DEF Undisturbed
    <3> QED
      BY <3>1, <3>2
  <2>9. PictureIsTheOneAsked'
    BY <2>1, <2>4, <2>5, ZenonT(40) DEF PictureIsTheOneAsked
  <2> QED
    BY <2>6, <2>8, <2>9
<1> QED
  BY <1>4, <1>5, <1>6, <1>7 DEF SendCommand

LEMMA PicturesHold == Spec => []PictureInvariant
<1>1. Init => PictureInvariant
  <2> SUFFICES ASSUME Init PROVE PictureInvariant
    OBVIOUS
  <2>1. DOMAIN captures = {} /\ DOMAIN client = Clients
    BY DEF Init
  <2>2. \A c \in Clients : /\ DOMAIN client[c] = {"phase", "before", "answer", "others"}
                           /\ client[c].phase = "idle" /\ client[c].others = FALSE
    BY DEF Init
  <2>3. \A r \in Runs : run[r].pending # SettingsFile
    BY DEF Init, Fresh, NoFile, SettingsFile
  <2> QED
    BY <2>1, <2>2, <2>3 DEF PictureInvariant, PictureTypes, Undisturbed, PictureIsTheOneAsked
<1>2. Invariant /\ PictureInvariant /\ [Next]_vars => PictureInvariant'
  <2> SUFFICES ASSUME Invariant, PictureInvariant, [Next]_vars PROVE PictureInvariant'
    OBVIOUS
  <2>1. CASE Tick \/ Finished \/ UNCHANGED vars
    <3>1. UNCHANGED <<run, captures, client>>
      BY <2>1 DEF Tick, Finished, vars
    <3>2. Eases
      BY <3>1 DEF Eases
    <3> QED
      BY <3>2, EasingKeepsPictures
  <2> QED
    BY <2>1, OthersEase, EasingKeepsPictures, KeyKeepsPictures, CaptureKeepsPictures, ClientKeepsPictures DEF Next
<1> QED
  BY <1>1, <1>2, InvariantHolds, PTL DEF Spec

\* A client is never handed a picture that is cut short; and if nobody else had
\* or got a picture coming since it looked at the directory, the picture is
\* whole and was taken because it asked: for any number of runs and clients.
THEOREM PicturesAreTheOnesAsked == Spec => []PictureIsTheOneAsked
BY PicturesHold, PTL DEF PictureInvariant

-----------------------------------------------------------------------------
(* The debug UI's settings.                                                *)

SettingsTypes ==
    /\ settings.state \in {"absent", "whole", "cut"} /\ settings.value \in Int
    /\ \A r \in Runs : run[r].scale \in Int /\ run[r].saved \in Int

\* Who wrote last, and is not at it again, left what it saved.
LastWriteStands ==
    \A r \in Runs :
        past.writer = r /\ run[r].saved # Unknown /\ run[r].file # SettingsFile =>
            settings.state = "whole" /\ settings.value = run[r].saved

SavedIsShown ==
    \A r \in Runs :
        run[r].saved # Unknown =>
            session.located /\ (run[r].phase = "flush" /\ run[r].drawn => run[r].saved = Stored(run[r].scale))

ExpectedIsOnDisk ==
    past.expected # Unknown =>
        /\ session.located /\ settings.state = "whole"
        /\ past.expected \in Int
        /\ settings.value = Stored(past.expected) /\ settings.value > 0
        /\ \A r \in Runs : run[r].file # SettingsFile

SettingsInvariant == SettingsTypes /\ LastWriteStands /\ SavedIsShown /\ ExpectedIsOnDisk

LEMMA SettingsIsAFile == SettingsFile # NoFile
<1>1. Len(SettingsFile) = 1 /\ Len(NoFile) = 0
  BY DEF SettingsFile, NoFile
<1> QED
  BY <1>1

\* Steps that write no settings.
NoSettings ==
    /\ UNCHANGED <<session, settings, past.writer, past.expected>>
    /\ \A r \in Runs :
           /\ run'[r].scale \in Int
           /\ run'[r].saved \in {run[r].saved, Unknown}
           /\ run'[r].saved # Unknown => (run'[r].file = SettingsFile) = (run[r].file = SettingsFile)
           /\ run'[r].file = SettingsFile => run[r].file = SettingsFile
           /\ run'[r].phase = "flush" /\ run'[r].drawn =>
                  run[r].phase = "flush" /\ run[r].drawn /\ run'[r].scale = run[r].scale

LEMMA NoSettingsKeepsThem ==
    ASSUME SettingsInvariant, NoSettings
    PROVE  SettingsInvariant'
<1> USE DEF SettingsInvariant, NoSettings
<1>1. SettingsTypes'
  BY DEF SettingsTypes, Unknown
<1>2. LastWriteStands'
  BY DEF LastWriteStands
<1>3. SavedIsShown'
  BY DEF SavedIsShown
<1>4. ExpectedIsOnDisk'
  BY DEF ExpectedIsOnDisk
<1> QED
  BY <1>1, <1>2, <1>3, <1>4

\* The file is opened, which empties it, or cannot be.
LEMMA OpeningKeepsSettings ==
    ASSUME Invariant, LogTypes, SettingsInvariant, NEW r \in Runs, NEW phase, OpenSettings(r, phase),
           session' = session
    PROVE  SettingsInvariant'
<1> USE DEF SettingsInvariant
<1>1. Stored(run[r].scale) \in Int
  BY DEF SettingsTypes, Stored
<1>2. CASE /\ session.located
           /\ settings' = [state |-> "cut", value |-> Stored(run[r].scale)]
           /\ run' = [run EXCEPT ![r].phase = phase, ![r].file = SettingsFile, ![r].dirty = FALSE,
                                 ![r].saved = Stored(run[r].scale)]
           /\ past' = [past EXCEPT !.expected = Unknown, !.writer = r]
  <2>1. /\ run'[r].scale = run[r].scale /\ run'[r].drawn = run[r].drawn
        /\ run'[r].file = SettingsFile /\ run'[r].saved = Stored(run[r].scale)
        /\ \A q \in Runs \ {r} : run'[q] = run[q]
    BY <1>2 DEF Invariant, Shaped, Fresh
  <2>2. past'.writer = r /\ past'.expected = Unknown
    BY <1>2 DEF LogTypes
  <2>3. SettingsTypes'
    BY <1>1, <1>2, <2>1 DEF SettingsTypes
  <2>4. LastWriteStands'
    BY <2>1, <2>2 DEF LastWriteStands
  <2>5. SavedIsShown'
    BY <1>2, <2>1, ZenonT(40) DEF SavedIsShown
  <2> QED
    BY <2>2, <2>3, <2>4, <2>5 DEF ExpectedIsOnDisk
<1>3. CASE /\ run' = [run EXCEPT ![r].phase = phase, ![r].dirty = FALSE, ![r].saved = Unknown]
           /\ UNCHANGED <<settings, past>>
  <2>1. /\ run'[r].scale = run[r].scale /\ run'[r].file = run[r].file /\ run'[r].saved = Unknown
        /\ \A q \in Runs \ {r} : run'[q] = run[q]
    BY <1>3 DEF Invariant, Shaped, Fresh
  <2>2. SettingsTypes'
    <3>1. \A q \in Runs : run'[q].scale \in Int /\ run'[q].saved \in Int
      BY <2>1 DEF SettingsTypes, Unknown
    <3> QED
      BY <1>3, <3>1 DEF SettingsTypes
  <2>3. LastWriteStands'
    BY <1>3, <2>1 DEF LastWriteStands
  <2>4. SavedIsShown'
    BY <2>1 DEF SavedIsShown
  <2>5. ExpectedIsOnDisk'
    BY <1>3, <2>1 DEF ExpectedIsOnDisk
  <2> QED
    BY <2>2, <2>3, <2>4, <2>5
<1> QED
  BY <1>2, <1>3 DEF OpenSettings

\* The bytes of a picture are no business of the settings; those of the
\* settings are there, or the run knows that they are not.
LEMMA FinishingKeepsSettings ==
    ASSUME Invariant, LogTypes, SettingsInvariant, NEW r \in Runs, FinishWrite(r)
    PROVE  SettingsInvariant'
<1> USE DEF SettingsInvariant, Invariant, Shaped, Fresh
<1>1. session' = session /\ \A q \in Runs : run'[q].scale = run[q].scale /\ run'[q].drawn = run[q].drawn
                                            /\ run'[q].phase = run[q].phase
  BY DEF FinishWrite
<1>2. CASE run[r].file # SettingsFile
  <2>1. run' = [run EXCEPT ![r].file = NoFile] /\ UNCHANGED <<settings, past>>
    BY <1>2 DEF FinishWrite
  <2>2. NoSettings
    BY <1>1, <1>2, <2>1, SettingsIsAFile DEF NoSettings, SettingsTypes
  <2> QED
    BY <2>2, NoSettingsKeepsThem
<1>3. CASE run[r].file = SettingsFile
  <2>1. /\ \A q \in Runs \ {r} : run'[q] = run[q]
        /\ run'[r].file = NoFile
        /\ \/ settings' = [state |-> "whole", value |-> run[r].saved] /\ run'[r].saved = run[r].saved
           \/ settings' = [state |-> "cut", value |-> run[r].saved] /\ run'[r].saved = Unknown
    BY <1>3 DEF FinishWrite
  <2>2. past'.writer = r /\ past'.expected = past.expected
    BY <1>3 DEF FinishWrite, LogTypes
  <2>3. past.expected = Unknown
    BY <1>3 DEF ExpectedIsOnDisk
  <2>4. SettingsTypes'
    BY <1>1, <2>1 DEF SettingsTypes, Unknown
  <2>5. LastWriteStands'
    BY <2>1, <2>2 DEF LastWriteStands
  <2>6. SavedIsShown'
    BY <1>1, <2>1 DEF SavedIsShown
  <2> QED
    BY <2>2, <2>3, <2>4, <2>5, <2>6 DEF ExpectedIsOnDisk
<1> QED
  BY <1>2, <1>3

\* A run that showed its scale and wrote last has told what the next will find.
LEMMA FlushKeepsSettings ==
    ASSUME Invariant, LogTypes, SettingsInvariant, NEW r \in Runs, Flush(r)
    PROVE  SettingsInvariant'
<1> USE DEF SettingsInvariant
<1>1. /\ run[r].phase = "flush" /\ run[r].file = NoFile /\ UNCHANGED <<session, settings>>
      /\ run' = [run EXCEPT ![r] = Ended(r, "done")]
  BY DEF Flush, Writing
<1>2. /\ run'[r].scale = DefaultScale /\ run'[r].saved = Unknown /\ run'[r].file = NoFile
      /\ \A q \in Runs \ {r} : run'[q] = run[q]
  BY <1>1 DEF Ended, Fresh, Invariant, Shaped
<1>3. past'.writer = past.writer
  BY DEF Flush, LogTypes
<1>4. SettingsTypes'
  BY <1>1, <1>2, RunsAssumption DEF SettingsTypes, Unknown
<1>5. LastWriteStands'
  BY <1>1, <1>2, <1>3 DEF LastWriteStands
<1>6. SavedIsShown'
  BY <1>1, <1>2 DEF SavedIsShown
<1>7. ExpectedIsOnDisk'
  <2>1. CASE past'.expected = past.expected
    BY <1>1, <1>2, <2>1, SettingsIsAFile DEF ExpectedIsOnDisk
  <2>2. CASE past'.expected = Unknown
    BY <2>2 DEF ExpectedIsOnDisk
  <2>3. CASE /\ past'.expected = run[r].scale /\ run[r].drawn /\ run[r].saved # Unknown
             /\ ~ Stored(run[r].scale) <= 0 /\ past.writer = r /\ Rivals(r, SettingsFile) = {}
    <3>1. settings.state = "whole" /\ settings.value = run[r].saved
      BY <1>1, <2>3, SettingsIsAFile DEF LastWriteStands
    <3>2. session.located /\ run[r].saved = Stored(run[r].scale)
      BY <1>1, <2>3 DEF SavedIsShown
    <3>3. run[r].scale \in Int /\ Stored(run[r].scale) \in Int
      BY DEF SettingsTypes, Stored
    <3>4. \A q \in Runs : run'[q].file # SettingsFile
      BY <1>2, <2>3, SettingsIsAFile DEF Rivals
    <3>5. settings.value > 0
      BY <2>3, <3>1, <3>2, <3>3
    <3> QED
      BY <1>1, <2>3, <3>1, <3>2, <3>3, <3>4, <3>5 DEF ExpectedIsOnDisk
  <2> QED
    BY <2>1, <2>2, <2>3 DEF Flush, LogTypes
<1> QED
  BY <1>4, <1>5, <1>6, <1>7

\* What is read is a number.
LEMMA ReadingsAreNumbers ==
    ASSUME SettingsTypes
    PROVE  Readings \subseteq Int
<1>1. DefaultScale \in Int /\ settings.value \in Int
  BY RunsAssumption DEF SettingsTypes
<1>2. CutShort(settings.value) \subseteq Int
  BY <1>1 DEF CutShort
<1>3. CASE settings.state = "absent"
  BY <1>1, <1>3 DEF Readings
<1>4. CASE settings.state = "whole"
  BY <1>1, <1>4 DEF Readings
<1>5. CASE settings.state = "cut"
  <2> DEFINE found == {0} \cup CutShort(settings.value)
  <2>1. Readings = {IF value > 0 THEN value ELSE DefaultScale : value \in found}
    BY <1>5 DEF Readings
  <2>2. found \subseteq Int
    BY <1>2
  <2> HIDE DEF found
  <2> QED
    BY <1>1, <2>1, <2>2
<1> QED
  BY <1>3, <1>4, <1>5 DEF SettingsTypes

\* Everything else of a run leaves the settings alone.
LEMMA OthersLeaveSettings ==
    ASSUME Invariant, Invariant', LogTypes, PictureTypes, SettingsInvariant, NEW r \in Runs,
           \/ Start(r) \/ Configure(r) \/ MakeFileSink(r) \/ LoadSettings(r) \/ BootFails(r)
           \/ UnlinkLeftover(r) \/ Bind(r) \/ Listen(r)
           \/ \E level \in {"info", "warn"} : LogLine(r, level)
           \/ PressKey(r) \/ ServiceRequests(r) \/ NoRequest(r) \/ DrawSettingsPanel(r)
           \/ DrawFrame(r) \/ Close(r) \/ Stop(r) \/ Crash(r)
    PROVE  NoSettings
<1> DEFINE Leaves(q) ==
              /\ run'[q].scale \in Int
              /\ run'[q].saved \in {run[q].saved, Unknown}
              /\ run'[q].saved # Unknown => (run'[q].file = SettingsFile) = (run[q].file = SettingsFile)
              /\ run'[q].file = SettingsFile => run[q].file = SettingsFile
              /\ run'[q].phase = "flush" /\ run'[q].drawn =>
                     run[q].phase = "flush" /\ run[q].drawn /\ run'[q].scale = run[q].scale
           Same(q) == /\ run'[q].scale = run[q].scale /\ run'[q].saved = run[q].saved
                      /\ run'[q].file = run[q].file /\ run'[q].drawn = run[q].drawn
<1>1. UNCHANGED <<session, settings, past.writer, past.expected>>
  BY DEF LogTypes, Start, Configure, MakeFileSink, LoadSettings, BootFails, UnlinkLeftover, Bind, Listen,
         LogLine, PressKey, ServiceRequests, NoRequest, DrawSettingsPanel, DrawFrame, Close, Stop, Crash
<1>2. ASSUME \A q \in Runs : Leaves(q) PROVE NoSettings
  BY <1>1, <1>2 DEF NoSettings
<1>3. \A q \in Runs : run[q].scale \in Int
  BY DEF SettingsInvariant, SettingsTypes
<1>4. ASSUME \A q \in Runs : Same(q), \A q \in Runs : run'[q].phase = "flush" => run[q].phase = "flush"
      PROVE  NoSettings
  BY <1>2, <1>3, <1>4
<1> USE DEF Invariant, Shaped, Fresh
<1>5. CASE Start(r)
  BY <1>4, <1>5 DEF Start
<1>6. CASE Configure(r)
  BY <1>4, <1>6 DEF Configure
<1>7. CASE MakeFileSink(r)
  BY <1>4, <1>7 DEF MakeFileSink
<1>8. CASE LoadSettings(r)
  <2>1. PICK scale \in Int, phase \in {"unlink", "run"} :
            run' = [run EXCEPT ![r].scale = scale, ![r].phase = phase]
    <3>1. PICK scale \in (IF session.located THEN Readings ELSE {DefaultScale}),
               phase \in {IF session.channel THEN "unlink" ELSE "run"} :
              run' = [run EXCEPT ![r].scale = scale, ![r].phase = phase]
      BY <1>8 DEF LoadSettings
    <3>2. scale \in Int /\ phase \in {"unlink", "run"}
      BY <3>1, ReadingsAreNumbers, RunsAssumption DEF SettingsInvariant
    <3> QED
      BY <3>1, <3>2
  <2>2. \A q \in Runs : Leaves(q)
    BY <1>3, <2>1
  <2> QED
    BY <1>2, <2>2
<1>9. CASE BootFails(r)
  BY <1>4, <1>9 DEF BootFails
<1>10. CASE UnlinkLeftover(r) \/ Bind(r) \/ Listen(r) \/ Stop(r)
  <2> USE TouchMarks, TouchKeepsTheRest
  <2>1. CASE UnlinkLeftover(r)
    <3>1. CASE run' = [Touch(r) EXCEPT ![r].phase = "bind"]
      BY <1>4, <3>1
    <3>2. CASE Unavailable(r)
      BY <1>4, <3>2 DEF Unavailable
    <3> QED
      BY <2>1, <3>1, <3>2 DEF UnlinkLeftover
  <2>2. CASE Bind(r)
    <3>1. CASE run' = [Touch(r) EXCEPT ![r].phase = "listen"]
      BY <1>4, <3>1
    <3>2. CASE run' = [Touch(r) EXCEPT ![r].phase = "run"]
      BY <1>4, <3>2
    <3>3. CASE Unavailable(r)
      BY <1>4, <3>3 DEF Unavailable
    <3> QED
      BY <2>2, <3>1, <3>2, <3>3 DEF Bind
  <2>3. CASE Listen(r)
    <3>1. CASE run' = [Touch(r) EXCEPT ![r].phase = "run", ![r].listening = TRUE]
      BY <1>4, <3>1
    <3>2. CASE Unavailable(r)
      BY <1>4, <3>2 DEF Unavailable
    <3> QED
      BY <2>3, <3>1, <3>2 DEF Listen
  <2>4. CASE Stop(r)
    <3>1. CASE run' = [Touch(r) EXCEPT ![r].phase = "save", ![r].listening = FALSE]
      BY <1>4, <3>1
    <3>2. CASE run' = [run EXCEPT ![r].phase = "save"]
      BY <1>4, <3>2
    <3> QED
      BY <2>4, <3>1, <3>2 DEF Stop
  <2> QED
    BY <1>10, <2>1, <2>2, <2>3, <2>4
<1>11. CASE \E level \in {"info", "warn"} : LogLine(r, level)
  BY <1>4, <1>11 DEF LogLine
<1>12. CASE PressKey(r)
  BY <1>4, <1>12 DEF PressKey
<1>13. CASE ServiceRequests(r)
  BY <1>4, <1>13 DEF ServiceRequests, AfterRequests
<1>14. CASE NoRequest(r)
  BY <1>4, <1>14 DEF NoRequest, AfterRequests
<1>15. CASE DrawSettingsPanel(r)
  <2>1. CASE \E scale \in Scales \ {run[r].scale} :
                 run' = [run EXCEPT ![r].scale = scale, ![r].dirty = TRUE, ![r].drawn = TRUE,
                                    ![r].phase = "end"]
    BY <1>2, <1>3, <2>1, RunsAssumption
  <2>2. CASE run' = [run EXCEPT ![r].drawn = TRUE,
                                ![r].phase = IF run[r].dirty THEN "end" ELSE "draw"]
    <3>1. PICK phase \in {"end", "draw"} : run' = [run EXCEPT ![r].drawn = TRUE, ![r].phase = phase]
      BY <2>2
    <3> QED
      BY <1>2, <1>3, <3>1
  <2> QED
    BY <1>15, <2>1, <2>2 DEF DrawSettingsPanel
<1>16. CASE DrawFrame(r)
  <2>1. run[r].file # SettingsFile /\ run[r].pending # SettingsFile
    BY <1>16, SettingsIsAFile DEF DrawFrame, Writing, PictureTypes
  <2>2. PICK file \in {run[r].file, run[r].pending} : /\ run'[r].file = file /\ run'[r].phase = "run"
                   /\ run'[r].scale = run[r].scale /\ run'[r].saved = run[r].saved
                   /\ \A q \in Runs \ {r} : run'[q] = run[q]
    BY <1>16 DEF DrawFrame
  <2>3. \A q \in Runs : Leaves(q)
    BY <1>3, <2>1, <2>2
  <2> QED
    BY <1>2, <2>3
<1>17. CASE Close(r)
  BY <1>4, <1>17 DEF Close
<1>18. CASE Crash(r)
  <2>1. /\ run'[r].scale = DefaultScale /\ run'[r].saved = Unknown /\ run'[r].file = NoFile
        /\ run'[r].phase = "crashed" /\ \A q \in Runs \ {r} : run'[q] = run[q]
    BY <1>18 DEF Crash, Ended
  <2>2. \A q \in Runs : Leaves(q)
    BY <1>3, <2>1, SettingsIsAFile, RunsAssumption
  <2> QED
    BY <1>2, <2>2
<1> QED
  BY <1>5, <1>6, <1>7, <1>8, <1>9, <1>10, <1>11, <1>12, <1>13, <1>14, <1>15, <1>16, <1>17, <1>18

\* Only reading its settings takes a run from there to the channel or its frames.
LEMMA OnlyLoadingGoesOn ==
    ASSUME Invariant, [Next]_vars, NEW r \in Runs, run[r].phase = "ui", run'[r].phase \in {"unlink", "run"}
    PROVE  LoadSettings(r)
<1> USE DEF Invariant, Shaped, Fresh
<1>1. ASSUME NEW q \in Runs, q # r,
             \/ Start(q) \/ Configure(q) \/ MakeFileSink(q) \/ LoadSettings(q) \/ BootFails(q)
             \/ UnlinkLeftover(q) \/ Bind(q) \/ Listen(q)
             \/ \E level \in {"info", "warn"} : LogLine(q, level)
             \/ PressKey(q) \/ ServiceRequests(q) \/ NoRequest(q)
             \/ DrawSettingsPanel(q) \/ EndFrame(q) \/ DrawFrame(q) \/ FinishWrite(q)
             \/ Close(q) \/ Stop(q) \/ DestroyDebugUi(q) \/ Flush(q) \/ Crash(q)
      PROVE  run'[r].phase = run[r].phase
  <2>1. CASE UnlinkLeftover(q) \/ Bind(q) \/ Listen(q) \/ Stop(q)
    BY <1>1, <2>1, TouchMarks DEF UnlinkLeftover, Bind, Listen, Stop, Unavailable
  <2>2. CASE ~ (UnlinkLeftover(q) \/ Bind(q) \/ Listen(q) \/ Stop(q))
    BY <1>1, <2>2 DEF Start, Configure, MakeFileSink, LoadSettings, BootFails, LogLine, PressKey,
       ServiceRequests, NoRequest, DrawSettingsPanel, EndFrame, DrawFrame, FinishWrite, Close,
       DestroyDebugUi, OpenSettings, Flush, Crash
  <2> QED
    BY <2>1, <2>2
<1>2. ASSUME \/ \E c \in Clients : Snapshot(c) \/ SendCommand(c) \/ Poll(c) \/ GiveUp(c)
             \/ Tick \/ Finished \/ UNCHANGED vars
      PROVE  run'[r].phase = run[r].phase
  <2>1. CASE \E c \in Clients : SendCommand(c)
    <3>1. PICK c \in Clients : SendCommand(c)
      BY <2>1
    <3>2. CASE run' = [run EXCEPT ![socket].pressed = @ \cup {c}]
      BY <3>2
    <3> QED
      BY <3>1, <3>2 DEF SendCommand
  <2> QED
    BY <1>2, <2>1 DEF Snapshot, Poll, GiveUp, Tick, Finished, vars
<1>3. ASSUME \/ Start(r) \/ Configure(r) \/ MakeFileSink(r)
             \/ UnlinkLeftover(r) \/ Bind(r) \/ Listen(r)
             \/ \E level \in {"info", "warn"} : LogLine(r, level)
             \/ PressKey(r) \/ ServiceRequests(r) \/ NoRequest(r)
             \/ DrawSettingsPanel(r) \/ EndFrame(r) \/ DrawFrame(r)
             \/ Close(r) \/ Stop(r) \/ DestroyDebugUi(r) \/ Flush(r)
      PROVE  FALSE
  BY <1>3 DEF Start, Configure, MakeFileSink, UnlinkLeftover, Bind, Listen, LogLine, PressKey, Idle,
     ServiceRequests, NoRequest, DrawSettingsPanel, EndFrame, DrawFrame, Close, Stop, DestroyDebugUi, Flush
<1>4. ASSUME BootFails(r) \/ Crash(r) \/ FinishWrite(r) PROVE run'[r].phase \notin {"unlink", "run"}
  <2>1. CASE BootFails(r)
    BY <2>1 DEF BootFails
  <2>2. CASE Crash(r)
    BY <2>2 DEF Crash, Ended
  <2>3. CASE FinishWrite(r)
    BY <2>3 DEF FinishWrite
  <2> QED
    BY <1>4, <2>1, <2>2, <2>3
<1> QED
  BY <1>1, <1>2, <1>3, <1>4 DEF Next

\* A run finds the font scale that the last run showed when it ended, up to the
\* hundredth that is stored, provided that run ended alone and could save and
\* nobody has written since: for any scales, those that are no scale included.
THEOREM ScaleIsRemembered == Spec => ScaleRemembered
<1>1. Init => SettingsInvariant
  <2> SUFFICES ASSUME Init PROVE SettingsInvariant
    OBVIOUS
  <2>1. \A r \in Runs : run[r].saved = Unknown /\ run[r].scale = DefaultScale
    BY DEF Init, Fresh
  <2>2. settings.state = "absent" /\ settings.value = DefaultScale /\ past.expected = Unknown
    BY DEF Init
  <2> QED
    BY <2>1, <2>2, RunsAssumption
    DEF SettingsInvariant, SettingsTypes, LastWriteStands, SavedIsShown, ExpectedIsOnDisk, Unknown
<1>2. Invariant /\ Invariant' /\ LogInvariant /\ PictureInvariant /\ SettingsInvariant /\ [Next]_vars
          => SettingsInvariant'
  <2> SUFFICES ASSUME Invariant, Invariant', LogInvariant, PictureInvariant, SettingsInvariant, [Next]_vars
               PROVE  SettingsInvariant'
    OBVIOUS
  <2>0. LogTypes /\ PictureTypes
    BY DEF LogInvariant, PictureInvariant
  <2>1. ASSUME NEW r \in Runs, EndFrame(r) \/ DestroyDebugUi(r) PROVE SettingsInvariant'
    <3>1. session' = session
      BY <2>1 DEF EndFrame, DestroyDebugUi
    <3>2. ASSUME NEW phase \in {"draw", "flush"}, OpenSettings(r, phase) PROVE SettingsInvariant'
      BY <2>0, <3>1, <3>2, OpeningKeepsSettings
    <3>3. ASSUME NEW phase \in {"draw", "flush"}, run' = [run EXCEPT ![r].phase = phase],
                 UNCHANGED <<settings, past>>, phase = "flush" => ~run[r].drawn
          PROVE  SettingsInvariant'
      <4>1. \A q \in Runs : /\ run'[q].scale = run[q].scale /\ run'[q].saved = run[q].saved
                            /\ run'[q].file = run[q].file /\ run'[q].drawn = run[q].drawn
                            /\ run'[q].phase = "flush" /\ run[q].drawn => run[q].phase = "flush"
        BY <3>3 DEF Invariant, Shaped, Fresh
      <4>2. NoSettings
        BY <3>1, <3>3, <4>1 DEF NoSettings, SettingsInvariant, SettingsTypes
      <4> QED
        BY <4>2, NoSettingsKeepsThem
    <3> QED
      BY <2>1, <3>2, <3>3 DEF EndFrame, DestroyDebugUi
  <2>2. CASE \/ \E c \in Clients : Snapshot(c) \/ SendCommand(c) \/ Poll(c) \/ GiveUp(c)
             \/ Tick \/ Finished \/ UNCHANGED vars
    <3>1. UNCHANGED <<session, settings, past>>
      BY <2>2 DEF Snapshot, SendCommand, Poll, GiveUp, Tick, Finished, vars
    <3>2. \A q \in Runs : /\ run'[q].scale = run[q].scale /\ run'[q].saved = run[q].saved
                          /\ run'[q].file = run[q].file /\ run'[q].drawn = run[q].drawn
                          /\ run'[q].phase = run[q].phase
      <4>1. CASE \E c \in Clients : SendCommand(c)
        <5>1. PICK c \in Clients : SendCommand(c)
          BY <4>1
        <5>2. CASE run' = [run EXCEPT ![socket].pressed = @ \cup {c}]
          BY <5>2 DEF Invariant, Shaped, Fresh
        <5> QED
          BY <5>1, <5>2 DEF SendCommand
      <4> QED
        BY <2>2, <4>1 DEF Snapshot, Poll, GiveUp, Tick, Finished, vars
    <3>3. NoSettings
      BY <3>1, <3>2 DEF NoSettings, SettingsInvariant, SettingsTypes
    <3> QED
      BY <3>3, NoSettingsKeepsThem
  <2> QED
    BY <2>0, <2>1, <2>2, OthersLeaveSettings, NoSettingsKeepsThem, FinishingKeepsSettings, FlushKeepsSettings
    DEF Next
<1>3. Invariant /\ SettingsInvariant /\ [Next]_vars =>
          \A r \in Runs :
              run[r].phase = "ui" /\ run'[r].phase \in {"unlink", "run"} /\ past.expected # Unknown
              => run'[r].scale - past.expected \in -5 .. 5
  <2> SUFFICES ASSUME Invariant, SettingsInvariant, [Next]_vars, NEW r \in Runs, run[r].phase = "ui",
                      run'[r].phase \in {"unlink", "run"}, past.expected # Unknown
               PROVE  run'[r].scale - past.expected \in -5 .. 5
    OBVIOUS
  <2>1. LoadSettings(r)
    BY OnlyLoadingGoesOn
  <2>2. /\ session.located /\ settings.state = "whole" /\ past.expected \in Int
        /\ settings.value = Stored(past.expected) /\ settings.value > 0
    BY DEF SettingsInvariant, ExpectedIsOnDisk
  <2>3. Readings = {settings.value}
    BY <2>2 DEF Readings
  <2>4. PICK scale, phase : /\ scale = settings.value
                            /\ run' = [run EXCEPT ![r].scale = scale, ![r].phase = phase]
                            /\ phase = IF session.channel THEN "unlink" ELSE "run"
    BY <2>1, <2>2, <2>3 DEF LoadSettings
  <2>5. run'[r].scale = Stored(past.expected)
    BY <2>2, <2>4 DEF Invariant, Shaped, Fresh
  <2>6. Stored(past.expected) - past.expected \in -5 .. 5
    BY <2>2 DEF Stored
  <2> QED
    BY <2>5, <2>6
<1>4. Spec => []LogInvariant
  BY LogsHold
<1>5. Spec => []PictureInvariant
  BY PicturesHold
<1> QED
  BY <1>1, <1>2, <1>3, <1>4, <1>5, InvariantHolds, PTL DEF Spec, ScaleRemembered

=============================================================================
