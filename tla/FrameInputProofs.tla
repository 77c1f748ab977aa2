--------------------------- MODULE FrameInputProofs ---------------------------
(*************************************************************************)
(* The way of the events, the key map and its edges, what the window,    *)
(* the agents, the game and the panels each hold, and the tables between *)
(* their codes, for any keys, buttons and number of events. Fold, By and *)
(* HeldAfter go through events one at a time, so what they return is     *)
(* shown by induction.                                                   *)
(*************************************************************************)
EXTENDS FrameInput, TLAPS, FiniteSetTheorems, SequenceTheorems, WellFoundedInduction

-----------------------------------------------------------------------------
(* Induction over numbers and sequences: what is shown of each of them is  *)
(* given as the set of those it holds for, which the provers can put in    *)
(* place of a variable, unlike an operator.                                *)

\* A set of natural numbers that is not empty has a least one.
LEMMA LeastElement ==
    ASSUME NEW S \in SUBSET Nat, S # {}
    PROVE  \E least \in S : \A n \in S : least <= n
<1> DEFINE Below == {0 .. n : n \in S}
<1>1. Below \subseteq FiniteSubsetsOf(Nat)
  <2>1. SUFFICES ASSUME NEW n \in S PROVE 0 .. n \in FiniteSubsetsOf(Nat)
    OBVIOUS
  <2>2. n \in Int
    OBVIOUS
  <2>3. IsFiniteSet(0 .. n)
    BY <2>2, FS_Interval
  <2>4. 0 .. n \subseteq Nat
    BY <2>2
  <2>5. QED
    BY <2>3, <2>4 DEF FiniteSubsetsOf
<1>2. PICK X \in Below : \A Y \in Below : <<Y, X>> \notin StrictSubsetOrdering(Nat)
  <2>1. Below # {}
    OBVIOUS
  <2>2. IsWellFoundedOn(StrictSubsetOrdering(Nat), FiniteSubsetsOf(Nat))
    BY FS_StrictSubsetOrderingWellFounded
  <2> HIDE DEF Below
  <2>3. QED
    BY <1>1, <2>1, <2>2, WFMin, Zenon
<1>3. PICK least \in S : X = 0 .. least
  OBVIOUS
<1>4. ASSUME NEW n \in S, n < least PROVE FALSE
  <2>1. 0 .. n \subseteq 0 .. least /\ least \notin 0 .. n /\ least \in 0 .. least
    BY <1>4
  <2>2. 0 .. n \in SUBSET Nat /\ 0 .. least \in SUBSET Nat
    OBVIOUS
  <2>3. <<0 .. n, 0 .. least>> \in StrictSubsetOrdering(Nat)
    BY <2>1, <2>2 DEF StrictSubsetOrdering
  <2>4. QED
    BY <1>2, <1>3, <2>3
<1>5. QED
  BY <1>3, <1>4

\* What holds of 0, and of the next number wherever it holds, holds up to k.
LEMMA InductionUpTo ==
    ASSUME NEW k \in Nat, NEW Good, 0 \in Good,
           \A n \in 1 .. k : n - 1 \in Good => n \in Good
    PROVE  \A n \in 0 .. k : n \in Good
<1> DEFINE Bad == {n \in 0 .. k : n \notin Good}
<1>1. SUFFICES ASSUME Bad # {} PROVE FALSE
  OBVIOUS
<1>2. PICK m \in Bad : \A n \in Bad : m <= n
  <2>1. Bad \in SUBSET Nat
    OBVIOUS
  <2> HIDE DEF Bad
  <2>2. QED
    BY <1>1, <2>1, LeastElement
<1>3. m # 0 /\ m \in 1 .. k /\ m - 1 \in 0 .. k /\ ~(m <= m - 1)
  BY <1>2
<1>4. m - 1 \in Good
  BY <1>2, <1>3
<1> QED
  BY <1>2, <1>3, <1>4

\* What holds of the empty sequence and survives one more element holds of all.
LEMMA InductionByAppend ==
    ASSUME NEW T, NEW Good, <<>> \in Good,
           \A u \in Seq(T), e \in T : u \in Good => Append(u, e) \in Good
    PROVE  \A s \in Seq(T) : s \in Good
<1> SUFFICES ASSUME NEW s \in Seq(T) PROVE s \in Good
  OBVIOUS
<1> DEFINE Fine == {n \in 0 .. Len(s) : SubSeq(s, 1, n) \in Good}
<1>1. Len(s) \in Nat
  OBVIOUS
<1>2. 0 \in Fine
  <2>1. SubSeq(s, 1, 0) = <<>>
    BY SubSeqEmpty, <1>1
  <2>2. SubSeq(s, 1, 0) \in Good
    BY <2>1, Zenon
  <2>3. 0 \in 0 .. Len(s)
    BY <1>1
  <2> QED
    BY <2>2, <2>3, Zenon
<1>3. ASSUME NEW n \in 1 .. Len(s), n - 1 \in Fine PROVE n \in Fine
  <2>1. SubSeq(s, 1, n - 1) \in Seq(T) /\ s[n] \in T
    BY <1>1
  <2>2. SubSeq(s, 1, n) = Append(SubSeq(s, 1, n - 1), s[n])
    BY <1>1
  <2>3. SubSeq(s, 1, n - 1) \in Good
    BY <1>3, Zenon
  <2>4. SubSeq(s, 1, n) \in Good
    BY <2>1, <2>2, <2>3, Zenon
  <2>5. n \in 0 .. Len(s)
    BY <1>1
  <2> QED
    BY <2>4, <2>5, Zenon
<1> HIDE DEF Fine
<1>4. Len(s) \in Fine
  <2>1. \A n \in 0 .. Len(s) : n \in Fine
    BY <1>1, <1>2, <1>3, InductionUpTo
  <2> QED
    BY <1>1, <2>1
<1>5. SubSeq(s, 1, Len(s)) = s
  BY SubSeqFull
<1> QED
  BY <1>4, <1>5 DEF Fine


Map == [Codes -> {"pressed", "released"}]

-----------------------------------------------------------------------------
(* Fold is what its recursion says.                                        *)

Folds(after, map, events, k) ==
    after = [n \in 0 .. k |-> IF n = 0 THEN map ELSE Press(after[n - 1], events[n])]

LEMMA FoldsExists ==
    ASSUME NEW map, NEW events, NEW k \in Nat
    PROVE  \E after : Folds(after, map, events, k)
<1> DEFINE Good == {n \in Nat : \E after : Folds(after, map, events, n)}
<1>1. 0 \in Good
  <2> DEFINE after == [n \in 0 .. 0 |-> map]
  <2>1. Folds(after, map, events, 0)
    BY DEF Folds
  <2> QED
    BY <2>1
<1>2. ASSUME NEW m \in 1 .. k, m - 1 \in Good PROVE m \in Good
  <2>1. m \in Nat /\ m - 1 \in Nat
    OBVIOUS
  <2>2. PICK before : Folds(before, map, events, m - 1)
    BY <1>2
  <2> DEFINE after == [n \in 0 .. m |-> IF n = m THEN Press(before[m - 1], events[m]) ELSE before[n]]
  <2>3. \A n \in 0 .. m - 1 :
            before[n] = IF n = 0 THEN map ELSE Press(before[n - 1], events[n])
    BY <2>1, <2>2 DEF Folds
  <2>4. \A n \in 0 .. m : after[n] = IF n = 0 THEN map ELSE Press(after[n - 1], events[n])
    <3>1. TAKE n \in 0 .. m
    <3>2. CASE n = m
      BY <2>1, <3>2
    <3>3. CASE n # m
      BY <2>1, <2>3, <3>3
    <3> QED
      BY <3>2, <3>3
  <2>5. Folds(after, map, events, m)
    BY <2>4 DEF Folds
  <2> QED
    BY <2>1, <2>5
<1> HIDE DEF Good
<1>3. k \in Good
  BY <1>1, <1>2, InductionUpTo
<1> QED
  BY <1>3 DEF Good

\* What Fold returns is a key map, whatever the events are.
LEMMA FoldType ==
    ASSUME NEW map \in Map, NEW events, Len(events) \in Nat
    PROVE  Fold(map, events) \in Map
<1> DEFINE after == CHOOSE f : Folds(f, map, events, Len(events))
<1>1. Folds(after, map, events, Len(events))
  BY FoldsExists
<1>2. Fold(map, events) = after[Len(events)]
  BY DEF Fold, Folds
<1> HIDE DEF after
<1>3. \A n \in 0 .. Len(events) :
          after[n] = IF n = 0 THEN map ELSE Press(after[n - 1], events[n])
  BY <1>1 DEF Folds
<1> DEFINE Good == {n \in 0 .. Len(events) : after[n] \in Map}
<1>4. 0 \in Good
  BY <1>3
<1>5. ASSUME NEW m \in 1 .. Len(events), m - 1 \in Good PROVE m \in Good
  <2>1. Press(after[m - 1], events[m]) \in Map
    BY <1>5 DEF Press, Map
  <2> QED
    BY <1>3, <2>1
<1> HIDE DEF Good
<1>6. \A n \in 0 .. Len(events) : n \in Good
  BY <1>4, <1>5, InductionUpTo
<1> QED
  BY <1>2, <1>6 DEF Good

-----------------------------------------------------------------------------
(* Types.                                                                  *)

\* Only codes of keys and buttons are kept, and there are 128 of those.
LEMMA CodesFinite == IsFiniteSet(Codes)
<1>1. Codes \subseteq 1 .. 263
  BY DEF Codes, IsKeyboardCode, IsPointerCode
<1>2. IsFiniteSet(1 .. 263)
  <2>1. 1 \in Int /\ 263 \in Int
    OBVIOUS
  <2>2. QED
    BY <2>1, FS_Interval, Zenon
<1>3. QED
  BY <1>1, <1>2, FS_Subset, Zenon

LEMMA SetToSeqType ==
    ASSUME NEW T, NEW S \in SUBSET T, IsFiniteSet(S)
    PROVE  SetToSeq(S) \in Seq(T)
<1>1. Cardinality(S) \in Nat /\ ExistsBijection(1 .. Cardinality(S), S)
  BY FS_CardinalityType
<1>2. \E f \in [1 .. Cardinality(S) -> S] : IsInjective(f)
  BY <1>1 DEF ExistsBijection, Bijection, Injection, IsInjective
<1>3. SetToSeq(S) \in [1 .. Cardinality(S) -> S]
  BY <1>2 DEF SetToSeq
<1>4. QED
  BY <1>1, <1>3

\* A loss of focus releases finitely many.
LEMMA ReleasesFinite ==
    IsFiniteSet({[from |-> "window", type |-> "released", code |-> c] : c \in {d \in Codes : WindowHolds(d)}})
<1> DEFINE Released(c) == [from |-> "window", type |-> "released", code |-> c]
           Holds == {d \in Codes : WindowHolds(d)}
           All == {Released(c) : c \in Holds}
           release == [c \in Holds |-> Released(c)]
<1>1. IsFiniteSet(Holds)
  BY CodesFinite, FS_Subset
<1>2. release \in Surjection(Holds, All)
  BY DEF Surjection
<1> QED
  BY <1>1, <1>2, FS_Surjection

\* The releases that come with a loss of focus are events of the window too.
LEMMA WindowReportsWindowEvents ==
    ASSUME NEW event \in WindowEvent
    PROVE  WindowReports(event) \in Seq(WindowEvent)
<1>1. CASE event.type # "unfocused"
  BY <1>1 DEF WindowReports
<1>2. CASE event.type = "unfocused"
  <2> DEFINE Released(c) == [from |-> "window", type |-> "released", code |-> c]
             All == {Released(c) : c \in {d \in Codes : WindowHolds(d)}}
  <2>1. \A c \in Codes : Released(c) \in WindowEvent
    BY DEF Codes, WindowEvent
  <2>2. IsFiniteSet(All)
    BY ReleasesFinite
  <2>3. SetToSeq(All) \in Seq(WindowEvent)
    <3>1. All \in SUBSET WindowEvent
      BY <2>1
    <3> HIDE DEF All
    <3> QED
      BY <2>2, <3>1, SetToSeqType
  <2>4. WindowReports(event) = <<event>> \o SetToSeq(All)
    BY <1>2 DEF WindowReports
  <2> HIDE DEF All
  <2> QED
    BY <2>3, <2>4
<1> QED
  BY <1>1, <1>2

LEMMA EventsHaveOneMaker ==
    /\ \A e \in WindowEvent : e.from = "window" /\ e \in Event
    /\ \A e \in AgentEvent : e.from = "agent" /\ e \in Event
    /\ \A e \in Event : e.from = "window" => e \in WindowEvent
    /\ \A e \in Event : e.from # "window" => e \in AgentEvent
BY DEF Event, WindowEvent, AgentEvent

LEMMA InitType == Init => TypeOK
BY DEF Init, TypeOK, Producer, Codes

LEMMA NextType == TypeOK /\ [Next]_vars => TypeOK'
<1> SUFFICES ASSUME TypeOK, [Next]_vars PROVE TypeOK'
  OBVIOUS
<1> USE DEF TypeOK
<1>1. ASSUME NEW event \in Event, Produce(event) PROVE TypeOK'
  <2>1. event.from = "window" => WindowReports(event) \in Seq(Event)
    BY EventsHaveOneMaker, WindowReportsWindowEvents
  <2>2. UNCHANGED <<stage, running, windowServer, pendingEvents, record, inputVars, seen>>
    BY <1>1 DEF Produce
  <2>3. CASE event.from = "window"
    <3>1. /\ windowQueue' = windowQueue \o WindowReports(event)
          /\ produced' = [produced EXCEPT !["window"] = @ \o WindowReports(event)]
          /\ UNCHANGED agentQueue
      BY <1>1, <2>3 DEF Produce
    <3> HIDE DEF TypeOK
    <3>2. windowQueue' \in Seq(Event)
      BY <2>1, <2>3, <3>1 DEF TypeOK
    <3>3. produced' \in [Producer -> Seq(Event)]
      BY <2>1, <2>3, <3>1 DEF TypeOK, Producer
    <3>4. QED
      BY <2>2, <3>1, <3>2, <3>3 DEF TypeOK, inputVars
  <2>4. CASE event.from # "window"
    <3>1. /\ agentQueue' = Append(agentQueue, event)
          /\ produced' = [produced EXCEPT !["agent"] = Append(@, event)]
          /\ UNCHANGED windowQueue
      BY <1>1, <2>4 DEF Produce
    <3> HIDE DEF TypeOK
    <3>2. agentQueue' \in Seq(Event)
      BY <3>1 DEF TypeOK
    <3>3. produced' \in [Producer -> Seq(Event)]
      BY <3>1 DEF TypeOK, Producer
    <3>4. QED
      BY <2>2, <3>1, <3>2, <3>3 DEF TypeOK, inputVars
  <2>5. QED
    BY <2>3, <2>4
<1>2. CASE CallbackOutsidePoll
  BY <1>2 DEF CallbackOutsidePoll, inputVars
<1>3. CASE Clear
  BY <1>3 DEF Clear, inputVars
<1>4. CASE Pump
  BY <1>4 DEF Pump, inputVars
<1>5. CASE Drain
  BY <1>5 DEF Drain, inputVars
<1>6. CASE Consume
  BY <1>6 DEF Consume, inputVars
<1>7. CASE BeginFrame
  BY <1>7 DEF BeginFrame
<1>8. CASE UiFrame
  BY <1>8 DEF UiFrame
<1>9. CASE OnStep
  BY <1>9 DEF OnStep
<1>10. CASE SystemsStep
  <2>1. Len(copied) \in Nat
    OBVIOUS
  <2>2. current' \in [Codes -> {"pressed", "released"}]
    BY <1>10, <2>1, FoldType DEF SystemsStep, Map
  <2>3. held' \in [Codes -> Int]
    BY <1>10 DEF SystemsStep
  <2>4. QED
    BY <1>10, <2>2, <2>3 DEF SystemsStep
<1>11. CASE UNCHANGED vars
  BY <1>11 DEF vars, inputVars
<1>12. QED
  BY <1>1, <1>2, <1>3, <1>4, <1>5, <1>6, <1>7, <1>8, <1>9, <1>10, <1>11 DEF Next, RunStep

\* The queues hold events and the key map has every code, whatever is produced
\* and however callbacks and steps interleave.
THEOREM TypeCorrect == Spec => []TypeOK
BY InitType, NextType, PTL DEF Spec

-----------------------------------------------------------------------------
(* Edges.                                                                  *)

\* Only the input system's step changes the map or what was counted of it.
LEMMA OthersKeepTheMap ==
    ASSUME [Next]_vars, ~SystemsStep
    PROVE  UNCHANGED <<current, held>>
<1>1. ASSUME NEW event \in Event, Produce(event) PROVE UNCHANGED <<current, held>>
  BY <1>1 DEF Produce, inputVars
<1>2. CASE CallbackOutsidePoll
  BY <1>2 DEF CallbackOutsidePoll, inputVars
<1>3. CASE RunStep
  BY <1>3 DEF RunStep, Clear, Pump, Drain, Consume, BeginFrame, UiFrame, OnStep, inputVars
<1>4. CASE UNCHANGED vars
  BY <1>4 DEF vars, inputVars
<1>5. QED
  BY <1>1, <1>2, <1>3, <1>4 DEF Next

\* Whatever the events of a frame do to a code, the step shows at most one edge
\* of it, and the one that leads from the map as it was to the map as it is.
LEMMA StepShowsTheEdge ==
    ASSUME TypeOK, EdgesMatchTheMap, SystemsStep
    PROVE  EdgesMatchTheMap'
<1>1. Len(copied) \in Nat /\ current \in Map
  BY DEF TypeOK, Map
<1>2. current' \in Map /\ previous' = current
  BY <1>1, FoldType DEF SystemsStep
<1>3. SUFFICES ASSUME NEW c \in Codes
               PROVE  held'[c] = (IF current'[c] = "pressed" THEN 1 ELSE 0)
  BY DEF EdgesMatchTheMap
<1>4. held'[c] = held[c] + (CASE current'[c] = "pressed" /\ current[c] = "released" -> 1
                              [] current'[c] = "released" /\ current[c] = "pressed" -> -1
                              [] OTHER -> 0)
  BY <1>2 DEF SystemsStep, WasPressedThisFrame, WasReleasedThisFrame
<1>5. held[c] = (IF current[c] = "pressed" THEN 1 ELSE 0)
  BY DEF EdgesMatchTheMap
<1>6. current[c] \in {"pressed", "released"} /\ current'[c] \in {"pressed", "released"}
  BY <1>1, <1>2 DEF Map
<1>7. QED
  BY <1>4, <1>5, <1>6

\* A system that counts press edges up and release edges down always has 1 for a
\* pressed code and 0 for a released one: for any keys, any events, any number
\* of frames.
THEOREM EdgesNeverDrift == Spec => []EdgesMatchTheMap
<1>1. Init => EdgesMatchTheMap
  BY DEF Init, EdgesMatchTheMap
<1>2. TypeOK /\ EdgesMatchTheMap /\ [Next]_vars => EdgesMatchTheMap'
  <2>1. SUFFICES ASSUME TypeOK, EdgesMatchTheMap, [Next]_vars PROVE EdgesMatchTheMap'
    OBVIOUS
  <2>2. CASE SystemsStep
    BY <2>1, <2>2, StepShowsTheEdge
  <2>3. CASE ~SystemsStep
    BY <2>1, <2>3, OthersKeepTheMap DEF EdgesMatchTheMap
  <2>4. QED
    BY <2>2, <2>3
<1>3. QED
  BY <1>1, <1>2, TypeCorrect, PTL DEF Spec

-----------------------------------------------------------------------------
(* By picks a producer's events and keeps their order.                     *)

Picks(picked, p, events, k) ==
    picked = [n \in 0 .. k |->
                 IF n = 0 THEN <<>>
                 ELSE IF events[n].from = p THEN Append(picked[n - 1], events[n])
                 ELSE picked[n - 1]]

LEMMA PicksExists ==
    ASSUME NEW p, NEW events, NEW k \in Nat
    PROVE  \E picked : Picks(picked, p, events, k)
<1> DEFINE Good == {n \in Nat : \E picked : Picks(picked, p, events, n)}
<1>1. 0 \in Good
  <2> DEFINE picked == [n \in 0 .. 0 |-> <<>>]
  <2>1. Picks(picked, p, events, 0)
    BY DEF Picks
  <2> QED
    BY <2>1
<1>2. ASSUME NEW m \in 1 .. k, m - 1 \in Good PROVE m \in Good
  <2>1. m \in Nat /\ m - 1 \in Nat
    OBVIOUS
  <2>2. PICK before : Picks(before, p, events, m - 1)
    BY <1>2
  <2> DEFINE last == IF events[m].from = p THEN Append(before[m - 1], events[m]) ELSE before[m - 1]
             picked == [n \in 0 .. m |-> IF n = m THEN last ELSE before[n]]
  <2>3. \A n \in 0 .. m - 1 :
            before[n] = IF n = 0 THEN <<>>
                        ELSE IF events[n].from = p THEN Append(before[n - 1], events[n])
                        ELSE before[n - 1]
    BY <2>1, <2>2 DEF Picks
  <2>4. \A n \in 0 .. m :
            picked[n] = IF n = 0 THEN <<>>
                        ELSE IF events[n].from = p THEN Append(picked[n - 1], events[n])
                        ELSE picked[n - 1]
    <3>1. TAKE n \in 0 .. m
    <3>2. CASE n = m
      BY <2>1, <3>2
    <3>3. CASE n # m
      BY <2>1, <2>3, <3>3
    <3> QED
      BY <3>2, <3>3
  <2>5. Picks(picked, p, events, m)
    BY <2>4 DEF Picks
  <2> QED
    BY <2>1, <2>5
<1> HIDE DEF Good
<1>3. \A n \in 0 .. k : n \in Good
  BY <1>1, <1>2, InductionUpTo
<1> QED
  BY <1>3 DEF Good

LEMMA ByPicks ==
    ASSUME NEW p, NEW events, Len(events) \in Nat
    PROVE  \E picked : Picks(picked, p, events, Len(events)) /\ By(p, events) = picked[Len(events)]
<1> DEFINE picked == CHOOSE f : Picks(f, p, events, Len(events))
<1>1. Picks(picked, p, events, Len(events))
  BY PicksExists
<1>2. By(p, events) = picked[Len(events)]
  BY DEF By, Picks
<1> QED
  BY <1>1, <1>2

LEMMA ByEmpty == \A p : By(p, <<>>) = <<>>
<1>1. TAKE p
<1>2. Len(<<>>) = 0
  OBVIOUS
<1>3. PICK picked : Picks(picked, p, <<>>, 0) /\ By(p, <<>>) = picked[0]
  BY <1>2, ByPicks
<1> QED
  BY <1>3 DEF Picks

LEMMA ByAppend ==
    ASSUME NEW T, NEW p, NEW events \in Seq(T), NEW e \in T
    PROVE  /\ e.from = p => By(p, Append(events, e)) = Append(By(p, events), e)
           /\ e.from # p => By(p, Append(events, e)) = By(p, events)
<1> DEFINE k == Len(events)
           more == Append(events, e)
<1>1. k \in Nat /\ Len(more) = k + 1 /\ more[k + 1] = e /\ \A n \in 1 .. k : more[n] = events[n]
  OBVIOUS
<1>2. PICK f : Picks(f, p, events, k) /\ By(p, events) = f[k]
  BY <1>1, ByPicks
<1>3. PICK g : Picks(g, p, more, k + 1) /\ By(p, more) = g[k + 1]
  <2> HIDE DEF k, more
  <2>1. k + 1 \in Nat
    BY <1>1
  <2> QED
    BY <1>1, <2>1, ByPicks
<1> HIDE DEF k, more
<1>4. \A n \in 0 .. k :
          f[n] = IF n = 0 THEN <<>>
                 ELSE IF events[n].from = p THEN Append(f[n - 1], events[n]) ELSE f[n - 1]
  BY <1>2 DEF Picks
<1>5. \A n \in 0 .. k + 1 :
          g[n] = IF n = 0 THEN <<>>
                 ELSE IF more[n].from = p THEN Append(g[n - 1], more[n]) ELSE g[n - 1]
  BY <1>3 DEF Picks
<1> DEFINE Good == {n \in 0 .. k : f[n] = g[n]}
<1>6. 0 \in Good
  BY <1>1, <1>4, <1>5
<1>7. ASSUME NEW m \in 1 .. k, m - 1 \in Good PROVE m \in Good
  <2>1. m # 0 /\ m \in 0 .. k /\ m \in 0 .. k + 1 /\ more[m] = events[m]
    BY <1>1
  <2>2. f[m] = IF events[m].from = p THEN Append(f[m - 1], events[m]) ELSE f[m - 1]
    BY <1>4, <2>1
  <2>3. g[m] = IF more[m].from = p THEN Append(g[m - 1], more[m]) ELSE g[m - 1]
    BY <1>5, <2>1
  <2>4. f[m - 1] = g[m - 1]
    BY <1>7
  <2>5. f[m] = g[m]
    BY <2>1, <2>2, <2>3, <2>4
  <2> QED
    BY <2>1, <2>5
<1>8. f[k] = g[k]
  <2> HIDE DEF Good
  <2>1. \A n \in 0 .. k : n \in Good
    BY <1>1, <1>6, <1>7, InductionUpTo
  <2> QED
    BY <1>1, <2>1 DEF Good
<1>9. g[k + 1] = IF e.from = p THEN Append(g[k], e) ELSE g[k]
  <2>1. k + 1 \in 0 .. k + 1 /\ k + 1 # 0 /\ (k + 1) - 1 = k
    BY <1>1
  <2> QED
    BY <1>1, <1>5, <2>1
<1> QED
  BY <1>2, <1>3, <1>8, <1>9 DEF more

LEMMA ByType ==
    ASSUME NEW T, NEW p
    PROVE  \A s \in Seq(T) : By(p, s) \in Seq(T)
<1> DEFINE Good == {s \in Seq(T) : By(p, s) \in Seq(T)}
<1>1. <<>> \in Good
  <2>1. <<>> \in Seq(T)
    OBVIOUS
  <2> QED
    BY <2>1, ByEmpty, Zenon
<1>2. ASSUME NEW u \in Seq(T), NEW e \in T, u \in Good PROVE Append(u, e) \in Good
  BY <1>2, ByAppend
<1> HIDE DEF Good
<1>3. \A s \in Seq(T) : s \in Good
  BY <1>1, <1>2, InductionByAppend
<1> QED
  BY <1>3 DEF Good

LEMMA ByConcat ==
    ASSUME NEW T, NEW p, NEW s \in Seq(T)
    PROVE  \A t \in Seq(T) : By(p, s \o t) = By(p, s) \o By(p, t)
<1> DEFINE Good == {t \in Seq(T) : By(p, s \o t) = By(p, s) \o By(p, t)}
<1>1. <<>> \in Good
  <2>1. By(p, s) \in Seq(T)
    BY ByType
  <2> QED
    BY <2>1, ByEmpty
<1>2. ASSUME NEW u \in Seq(T), NEW e \in T, u \in Good PROVE Append(u, e) \in Good
  <2>1. s \o u \in Seq(T) /\ s \o Append(u, e) = Append(s \o u, e)
    OBVIOUS
  <2>2. By(p, s) \in Seq(T) /\ By(p, u) \in Seq(T)
    BY ByType
  <2>3. By(p, s) \o Append(By(p, u), e) = Append(By(p, s) \o By(p, u), e)
    BY <2>2
  <2>4. By(p, s \o u) = By(p, s) \o By(p, u)
    BY <1>2
  <2>5. \A v \in Seq(T) : /\ e.from = p => By(p, Append(v, e)) = Append(By(p, v), e)
                          /\ e.from # p => By(p, Append(v, e)) = By(p, v)
    BY ByAppend
  <2>6. By(p, s \o Append(u, e)) = By(p, s) \o By(p, Append(u, e))
    <3>1. CASE e.from = p
      <4>1. By(p, Append(s \o u, e)) = Append(By(p, s \o u), e)
        BY <2>1, <2>5, <3>1, Zenon
      <4>2. By(p, Append(u, e)) = Append(By(p, u), e)
        BY <2>5, <3>1, Zenon
      <4> QED
        BY <2>1, <2>3, <2>4, <4>1, <4>2, Zenon
    <3>2. CASE e.from # p
      <4>1. By(p, Append(s \o u, e)) = By(p, s \o u)
        BY <2>1, <2>5, <3>2, Zenon
      <4>2. By(p, Append(u, e)) = By(p, u)
        BY <2>5, <3>2, Zenon
      <4> QED
        BY <2>1, <2>4, <4>1, <4>2, Zenon
    <3> QED
      BY <3>1, <3>2
  <2>7. Append(u, e) \in Seq(T)
    OBVIOUS
  <2> QED
    BY <2>6, <2>7, Zenon
<1> HIDE DEF Good
<1>3. \A t \in Seq(T) : t \in Good
  BY <1>1, <1>2, InductionByAppend
<1> QED
  BY <1>3 DEF Good

\* Of one producer's own events By leaves none out, and takes none of another's.
LEMMA ByOwn ==
    ASSUME NEW T, NEW p, \A e \in T : e.from = p
    PROVE  \A s \in Seq(T) : By(p, s) = s
<1> DEFINE Good == {s \in Seq(T) : By(p, s) = s}
<1>1. <<>> \in Good
  <2>1. <<>> \in Seq(T)
    OBVIOUS
  <2> QED
    BY <2>1, ByEmpty, Zenon
<1>2. ASSUME NEW u \in Seq(T), NEW e \in T, u \in Good PROVE Append(u, e) \in Good
  BY <1>2, ByAppend
<1> HIDE DEF Good
<1>3. \A s \in Seq(T) : s \in Good
  BY <1>1, <1>2, InductionByAppend
<1> QED
  BY <1>3 DEF Good

LEMMA ByOther ==
    ASSUME NEW T, NEW p, \A e \in T : e.from # p
    PROVE  \A s \in Seq(T) : By(p, s) = <<>>
<1> DEFINE Good == {s \in Seq(T) : By(p, s) = <<>>}
<1>1. <<>> \in Good
  <2>1. <<>> \in Seq(T)
    OBVIOUS
  <2> QED
    BY <2>1, ByEmpty, Zenon
<1>2. ASSUME NEW u \in Seq(T), NEW e \in T, u \in Good PROVE Append(u, e) \in Good
  BY <1>2, ByAppend
<1> HIDE DEF Good
<1>3. \A s \in Seq(T) : s \in Good
  BY <1>1, <1>2, InductionByAppend
<1> QED
  BY <1>3 DEF Good

-----------------------------------------------------------------------------
(* The way of the events.                                                  *)

\* What is still on its way is with its own side, and a pump starts on an empty
\* record.
OnTheWay ==
    /\ windowQueue \in Seq(WindowEvent) /\ pendingEvents \in Seq(WindowEvent)
    /\ agentQueue \in Seq(AgentEvent)
    /\ stage = "pump" => record = <<>>

InTransit == pendingEvents \o windowQueue

\* Whatever a step does, it does one of these to the events on their way.
WindowAdds ==
    /\ \E w \in Seq(WindowEvent) :
          windowQueue' = windowQueue \o w /\ produced' = [produced EXCEPT !["window"] = @ \o w]
    /\ UNCHANGED <<pendingEvents, agentQueue, Given("window"), Given("agent")>>

AgentAdds ==
    /\ \E e \in AgentEvent :
          agentQueue' = Append(agentQueue, e) /\ produced' = [produced EXCEPT !["agent"] = Append(@, e)]
    /\ UNCHANGED <<pendingEvents, windowQueue, Given("window"), Given("agent")>>

WindowHandsOver ==
    /\ windowQueue' = <<>> /\ pendingEvents' = <<>>
    /\ Given("window")' = Given("window") \o InTransit
    /\ UNCHANGED <<agentQueue, produced, Given("agent")>>

AgentHandsOver ==
    /\ agentQueue' = <<>>
    /\ Given("agent")' = Given("agent") \o agentQueue
    /\ UNCHANGED <<windowQueue, pendingEvents, produced, Given("window")>>

NothingMoves ==
    /\ windowQueue' \in Seq(WindowEvent) /\ pendingEvents' \in Seq(WindowEvent)
    /\ UNCHANGED <<InTransit, agentQueue, produced, Given("window"), Given("agent")>>

LEMMA PumpHandsOver == TypeOK /\ OnTheWay /\ Pump => WindowHandsOver
<1> SUFFICES ASSUME TypeOK, OnTheWay, Pump PROVE WindowHandsOver
  OBVIOUS
<1>1. record = <<>> /\ Unseen = <<>> /\ Unseen' = record' /\ seen' = seen
  BY DEF Pump, OnTheWay, Unseen
<1>2. seen \in Seq(Event) /\ InTransit \in Seq(Event) /\ InTransit \in Seq(WindowEvent)
  BY EventsHaveOneMaker DEF TypeOK, OnTheWay, InTransit
<1>3. record' = InTransit
  BY <1>1, <1>2 DEF Pump, OnTheWay, InTransit
<1>4. \A p : By(p, seen \o InTransit) = By(p, seen) \o By(p, InTransit)
  BY <1>2, ByConcat
<1>5. By("window", InTransit) = InTransit /\ By("agent", InTransit) = <<>>
  <2>1. \A e \in WindowEvent : e.from = "window" /\ e.from # "agent"
    BY EventsHaveOneMaker
  <2> QED
    BY <1>2, <2>1, ByOwn, ByOther
<1>6. By("agent", seen) \in Seq(Event) /\ By("window", seen) \in Seq(Event)
  BY <1>2, ByType
<1>7. Given("window")' = Given("window") \o InTransit
  BY <1>1, <1>2, <1>3, <1>4, <1>5 DEF Given
<1>8. Given("agent")' = Given("agent")
  <2>1. Given("agent")' = By("agent", seen) \o <<>>
    BY <1>1, <1>3, <1>4, <1>5 DEF Given
  <2>2. Given("agent") = By("agent", seen)
    BY <1>1, <1>2 DEF Given
  <2>3. By("agent", seen) \o <<>> = By("agent", seen)
    BY <1>6
  <2> QED
    BY <2>1, <2>2, <2>3
<1> QED
  BY <1>7, <1>8 DEF WindowHandsOver, Pump

LEMMA DrainHandsOver == TypeOK /\ OnTheWay /\ Drain => AgentHandsOver
<1> SUFFICES ASSUME TypeOK, OnTheWay, Drain PROVE AgentHandsOver
  OBVIOUS
<1> DEFINE before == seen \o record
<1>1. Unseen = record /\ Unseen' = record \o agentQueue /\ seen' = seen
  BY DEF Drain, Unseen
<1>2. /\ seen \in Seq(Event) /\ record \in Seq(Event) /\ before \in Seq(Event)
      /\ agentQueue \in Seq(Event) /\ agentQueue \in Seq(AgentEvent)
  BY DEF TypeOK, OnTheWay
<1>3. seen \o (record \o agentQueue) = before \o agentQueue
  BY <1>2
<1> HIDE DEF before
<1>4. \A p : By(p, before \o agentQueue) = By(p, before) \o By(p, agentQueue)
  BY <1>2, ByConcat, SMTT(30)
<1>5. By("window", agentQueue) = <<>> /\ By("agent", agentQueue) = agentQueue
  <2>1. \A e \in AgentEvent : e.from = "agent" /\ e.from # "window"
    BY EventsHaveOneMaker
  <2> QED
    BY <1>2, <2>1, ByOwn, ByOther
<1>6. By("window", before) \in Seq(Event)
  BY <1>2, ByType
<1>7. \A p : Given(p) = By(p, before) /\ Given(p)' = By(p, before \o agentQueue)
  BY <1>1, <1>3 DEF Given, before
<1>8. By("window", before) \o <<>> = By("window", before)
  BY <1>6
<1>9. Given("window")' = Given("window") /\ Given("agent")' = Given("agent") \o agentQueue
  BY <1>4, <1>5, <1>7, <1>8, Zenon
<1> QED
  BY <1>9 DEF AgentHandsOver, Drain

LEMMA CallbackMovesNothing == OnTheWay /\ CallbackOutsidePoll => NothingMoves
<1> SUFFICES ASSUME OnTheWay, CallbackOutsidePoll PROVE NothingMoves
  OBVIOUS
<1>1. /\ windowQueue \in Seq(WindowEvent) /\ windowQueue # <<>> /\ pendingEvents \in Seq(WindowEvent)
      /\ pendingEvents' = Append(pendingEvents, Head(windowQueue)) /\ windowQueue' = Tail(windowQueue)
  BY DEF OnTheWay, CallbackOutsidePoll
<1>2. Head(windowQueue) \in WindowEvent /\ Tail(windowQueue) \in Seq(WindowEvent)
  BY <1>1
<1>3. Append(pendingEvents, Head(windowQueue)) \o Tail(windowQueue) = pendingEvents \o windowQueue
  BY <1>1, <1>2
<1>4. InTransit' = InTransit
  BY <1>1, <1>3 DEF InTransit
<1>5. UNCHANGED <<agentQueue, produced, Given("window"), Given("agent")>>
  BY DEF CallbackOutsidePoll, Given, Unseen
<1> QED
  BY <1>1, <1>2, <1>4, <1>5 DEF NothingMoves

LEMMA StepMovesEvents ==
    TypeOK /\ OnTheWay /\ [Next]_vars =>
        WindowAdds \/ AgentAdds \/ WindowHandsOver \/ AgentHandsOver \/ NothingMoves
<1> SUFFICES ASSUME TypeOK, OnTheWay, [Next]_vars
             PROVE  WindowAdds \/ AgentAdds \/ WindowHandsOver \/ AgentHandsOver \/ NothingMoves
  OBVIOUS
<1>1. ASSUME NEW event \in Event, Produce(event) PROVE WindowAdds \/ AgentAdds
  <2>1. UNCHANGED <<pendingEvents, Given("window"), Given("agent")>>
    BY <1>1 DEF Produce, Given, Unseen
  <2>2. CASE event.from = "window"
    <3>1. WindowReports(event) \in Seq(WindowEvent)
      BY <2>2, EventsHaveOneMaker, WindowReportsWindowEvents
    <3> QED
      BY <1>1, <2>1, <2>2, <3>1 DEF Produce, WindowAdds
  <2>3. CASE event.from # "window"
    <3>1. event \in AgentEvent
      BY <2>3, EventsHaveOneMaker
    <3> QED
      BY <1>1, <2>1, <2>3, <3>1 DEF Produce, AgentAdds
  <2> QED
    BY <2>2, <2>3
<1>2. CASE Clear \/ BeginFrame \/ UiFrame \/ OnStep \/ SystemsStep \/ UNCHANGED vars
  <2>1. UNCHANGED <<windowQueue, pendingEvents, agentQueue, produced, seen>>
    BY <1>2 DEF Clear, BeginFrame, UiFrame, OnStep, SystemsStep, vars
  <2>2. Unseen' = Unseen
    BY <1>2 DEF Clear, BeginFrame, UiFrame, OnStep, SystemsStep, vars, Unseen
  <2> QED
    BY <2>1, <2>2 DEF NothingMoves, InTransit, Given, OnTheWay
<1>3. CASE Consume
  <2>1. UNCHANGED <<windowQueue, pendingEvents, agentQueue, produced>>
    BY <1>3 DEF Consume
  <2>2. seen' = seen \o record /\ Unseen = record /\ Unseen' = <<>>
    BY <1>3 DEF Consume, Unseen
  <2>3. (seen \o record) \o <<>> = seen \o record
    BY DEF TypeOK
  <2>4. \A p : Given(p)' = Given(p)
    BY <2>2, <2>3 DEF Given
  <2> QED
    BY <2>1, <2>4 DEF NothingMoves, InTransit, OnTheWay
<1> QED
  BY <1>1, <1>2, <1>3, PumpHandsOver, DrainHandsOver, CallbackMovesNothing DEF Next, RunStep

LEMMA OnTheWayHolds == Spec => []OnTheWay
<1>1. Init => OnTheWay
  BY DEF Init, OnTheWay
<1>2. TypeOK /\ OnTheWay /\ [Next]_vars => OnTheWay'
  <2> SUFFICES ASSUME TypeOK, OnTheWay, [Next]_vars PROVE OnTheWay'
    OBVIOUS
  <2>1. stage' = "pump" => record' = <<>>
    <3>1. ASSUME NEW event \in Event, Produce(event) PROVE UNCHANGED <<stage, record>>
      BY <3>1 DEF Produce
    <3>2. ASSUME RunStep PROVE stage' = "pump" => record' = <<>>
      BY <3>2 DEF RunStep, Clear, Pump, Drain, Consume, BeginFrame, UiFrame, OnStep, SystemsStep
    <3>3. CallbackOutsidePoll \/ UNCHANGED vars => UNCHANGED <<stage, record>>
      BY DEF CallbackOutsidePoll, vars
    <3> QED
      BY <3>1, <3>2, <3>3 DEF Next, OnTheWay
  <2>2. CASE WindowAdds
    <3>1. PICK x \in Seq(WindowEvent) : windowQueue' = windowQueue \o x
      BY <2>2 DEF WindowAdds
    <3>2. windowQueue \o x \in Seq(WindowEvent)
      BY DEF OnTheWay
    <3> QED
      BY <2>1, <2>2, <3>1, <3>2 DEF WindowAdds, OnTheWay
  <2>3. CASE AgentAdds
    <3>1. PICK e \in AgentEvent : agentQueue' = Append(agentQueue, e)
      BY <2>3 DEF AgentAdds
    <3>2. Append(agentQueue, e) \in Seq(AgentEvent)
      BY DEF OnTheWay
    <3> QED
      BY <2>1, <2>3, <3>1, <3>2 DEF AgentAdds, OnTheWay
  <2>4. CASE WindowHandsOver
    BY <2>1, <2>4 DEF WindowHandsOver, OnTheWay
  <2>5. CASE AgentHandsOver
    BY <2>1, <2>5 DEF AgentHandsOver, OnTheWay
  <2>6. CASE NothingMoves
    BY <2>1, <2>6 DEF NothingMoves, OnTheWay
  <2> QED
    BY <2>2, <2>3, <2>4, <2>5, <2>6, StepMovesEvents
<1> QED
  BY <1>1, <1>2, TypeCorrect, PTL DEF Spec

LEMMA GivenType == TypeOK => \A p : Given(p) \in Seq(Event)
<1> SUFFICES ASSUME TypeOK, NEW p PROVE Given(p) \in Seq(Event)
  OBVIOUS
<1>1. seen \o Unseen \in Seq(Event)
  BY DEF TypeOK, Unseen
<1> QED
  BY <1>1, ByType DEF Given

\* Every event either producer ever made is in the record of exactly one frame,
\* each producer's in the order they were made, or still on its way there: for
\* any number of events, and for callbacks that fire between the polls.
THEOREM NoEventLost == Spec => []EveryEventInOneFrame
<1>1. Init => EveryEventInOneFrame
  <2> SUFFICES ASSUME Init PROVE EveryEventInOneFrame
    OBVIOUS
  <2>1. seen \o Unseen = <<>>
    BY DEF Init, Unseen
  <2>2. \A p : Given(p) = <<>>
    BY <2>1, ByEmpty DEF Given
  <2> QED
    BY <2>2 DEF Init, EveryEventInOneFrame, Producer
<1>2. TypeOK /\ OnTheWay /\ EveryEventInOneFrame /\ [Next]_vars => EveryEventInOneFrame'
  <2> SUFFICES ASSUME TypeOK, OnTheWay, EveryEventInOneFrame, [Next]_vars PROVE EveryEventInOneFrame'
    OBVIOUS
  <2> DEFINE w == Given("window")
             a == Given("agent")
  <2>1. /\ w \in Seq(Event) /\ a \in Seq(Event)
        /\ windowQueue \in Seq(Event) /\ pendingEvents \in Seq(Event) /\ agentQueue \in Seq(Event)
        /\ InTransit \in Seq(Event)
    BY GivenType DEF TypeOK, InTransit
  <2>2. "window" \in DOMAIN produced /\ "agent" \in DOMAIN produced
    BY DEF TypeOK, Producer
  <2>3. TypeOK'
    BY NextType
  <2>4. w' \in Seq(Event) /\ a' \in Seq(Event)
    <3>1. (seen \o Unseen)' \in Seq(Event)
      BY <2>3 DEF TypeOK, Unseen
    <3> QED
      BY <3>1, ByType DEF Given
  <2>5. pendingEvents' \in Seq(Event) /\ windowQueue' \in Seq(Event) /\ agentQueue' \in Seq(Event)
    BY <2>3 DEF TypeOK
  <2>6. produced["window"] = (w \o pendingEvents) \o windowQueue /\ produced["agent"] = a \o agentQueue
    BY DEF EveryEventInOneFrame
  <2> HIDE DEF w, a
  <2>7. produced["window"] = w \o InTransit
    BY <2>1, <2>6, SMTT(30) DEF InTransit
  <2>8. SUFFICES produced'["window"] = w' \o (pendingEvents' \o windowQueue') /\ produced'["agent"] = a' \o agentQueue'
    <3>1. (w' \o pendingEvents') \o windowQueue' = w' \o (pendingEvents' \o windowQueue')
      BY <2>4, <2>5, SMTT(30)
    <3> QED
      BY <3>1 DEF EveryEventInOneFrame, w, a
  <2>9. CASE WindowAdds
    <3>1. PICK x \in Seq(WindowEvent) :
              windowQueue' = windowQueue \o x /\ produced' = [produced EXCEPT !["window"] = @ \o x]
      BY <2>9 DEF WindowAdds
    <3>2. x \in Seq(Event)
      BY <3>1, EventsHaveOneMaker
    <3>3. (w \o InTransit) \o x = w \o (pendingEvents \o (windowQueue \o x))
      BY <2>1, <3>2, SMTT(30) DEF InTransit
    <3> QED
      BY <2>2, <2>6, <2>7, <2>9, <3>1, <3>3 DEF WindowAdds, w, a
  <2>10. CASE AgentAdds
    <3>1. PICK e \in AgentEvent :
              agentQueue' = Append(agentQueue, e) /\ produced' = [produced EXCEPT !["agent"] = Append(@, e)]
      BY <2>10 DEF AgentAdds
    <3>2. Append(a \o agentQueue, e) = a \o Append(agentQueue, e)
      <4>1. e \in Event
        BY EventsHaveOneMaker
      <4>2. a \in Seq(Event) /\ agentQueue \in Seq(Event)
        BY <2>1
      <4>3. <<e>> \in Seq(Event) /\ a \o agentQueue \in Seq(Event)
        BY <4>1, <4>2
      <4>4. Append(agentQueue, e) = agentQueue \o <<e>>
        BY <4>1, <4>2, AppendIsConcat
      <4>5. Append(a \o agentQueue, e) = (a \o agentQueue) \o <<e>>
        BY <4>1, <4>3, AppendIsConcat
      <4>6. (a \o agentQueue) \o <<e>> = a \o (agentQueue \o <<e>>)
        BY <4>2, <4>3, ConcatAssociative
      <4> QED
        BY <4>4, <4>5, <4>6, Zenon
    <3> QED
      BY <2>2, <2>6, <2>7, <2>10, <3>1, <3>2 DEF AgentAdds, InTransit, w, a
  <2>11. CASE WindowHandsOver
    <3>1. (w \o InTransit) \o (<<>> \o <<>>) = w \o InTransit
      BY <2>1
    <3> QED
      BY <2>6, <2>7, <2>11, <3>1 DEF WindowHandsOver, w, a
  <2>12. CASE AgentHandsOver
    <3>1. (a \o agentQueue) \o <<>> = a \o agentQueue
      BY <2>1
    <3> QED
      BY <2>6, <2>7, <2>12, <3>1 DEF AgentHandsOver, InTransit, w, a
  <2>13. CASE NothingMoves
    BY <2>6, <2>7, <2>13 DEF NothingMoves, InTransit, w, a
  <2> QED
    BY <2>9, <2>10, <2>11, <2>12, <2>13, StepMovesEvents
<1> QED
  BY <1>1, <1>2, TypeCorrect, OnTheWayHolds, PTL DEF Spec

\* Of the agent channel the engine uses what AgentQueue promises and no more: a
\* command is accepted or the whole batch delivered, every other step stutters.
THEOREM InputUsesAgentQueue == Spec => UsesAgentQueue
<1>1. Init => Agent!Init
  <2> SUFFICES ASSUME Init PROVE Agent!Init
    OBVIOUS
  <2>1. seen \o Unseen = <<>>
    BY DEF Init, Unseen
  <2> QED
    BY <2>1, ByEmpty DEF Init, Agent!Init, Given
<1>2. TypeOK /\ OnTheWay /\ [Next]_vars => [Agent!Next]_(Agent!vars)
  <2> SUFFICES ASSUME TypeOK, OnTheWay, [Next]_vars
               PROVE  Agent!Next \/ UNCHANGED Agent!vars
    OBVIOUS
  <2>1. CASE AgentAdds
    <3>1. PICK e \in AgentEvent : agentQueue' = Append(agentQueue, e)
      BY <2>1 DEF AgentAdds
    <3>2. Agent!Accept(e)
      BY <2>1, <3>1 DEF AgentAdds, Agent!Accept
    <3> QED
      BY <3>2 DEF Agent!Next
  <2>2. CASE AgentHandsOver
    <3>1. agentQueue \in Seq(AgentEvent) /\ Given("agent") \in Seq(Event)
      BY GivenType DEF OnTheWay
    <3>2. CASE agentQueue = <<>>
      BY <2>2, <3>1, <3>2, ConcatEmptySeq DEF AgentHandsOver, Agent!vars
    <3>3. CASE agentQueue # <<>>
      <4> DEFINE n == Len(agentQueue)
      <4>1. n \in 1 .. Len(agentQueue)
        BY <3>1, <3>3
      <4>2. SubSeq(agentQueue, 1, n) = agentQueue /\ SubSeq(agentQueue, n + 1, Len(agentQueue)) = <<>>
        BY <3>1, <4>1, SubSeqFull, SubSeqEmpty
      <4>3. Agent!Deliver
        BY <2>2, <4>1, <4>2 DEF AgentHandsOver, Agent!Deliver
      <4> QED
        BY <4>3 DEF Agent!Next
    <3> QED
      BY <3>2, <3>3
  <2>3. CASE WindowAdds \/ WindowHandsOver \/ NothingMoves
    BY <2>3 DEF WindowAdds, WindowHandsOver, NothingMoves, Agent!vars
  <2> QED
    BY <2>1, <2>2, <2>3, StepMovesEvents
<1> QED
  BY <1>1, <1>2, TypeCorrect, OnTheWayHolds, PTL DEF Spec, UsesAgentQueue, Agent!Spec

-----------------------------------------------------------------------------
(* The codes themselves: the switch statements of both translations give   *)
(* every key a code of its own, whatever number a window system reports.   *)

Stretches == Int \X Int \X Nat

\* Two stretches of a table share no number and become no number in common.
Apart(table) ==
    \A s, t \in table : s # t =>
        /\ s[1] + s[3] <= t[1] \/ t[1] + t[3] <= s[1]
        /\ s[2] + s[3] <= t[2] \/ t[2] + t[3] <= s[2]

\* A table whose stretches are apart never gives two numbers the same meaning.
LEMMA ApartIsInjective ==
    ASSUME NEW table \in SUBSET Stretches, Apart(table),
           NEW a \in Int, NEW b \in Int,
           Translate(table, a) # Unknown,
           Translate(table, a) = Translate(table, b)
    PROVE  a = b
<1>1. PICK s \in table : In(a, s) /\ Translate(table, a) = s[2] + (a - s[1])
  <2>1. \E s \in table : In(a, s)
    BY DEF Translate
  <2>2. QED
    BY <2>1 DEF Translate
<1>2. PICK t \in table : In(b, t) /\ Translate(table, b) = t[2] + (b - t[1])
  <2>1. \E t \in table : In(b, t)
    BY DEF Translate
  <2>2. QED
    BY <2>1 DEF Translate
<1>3. /\ s[1] \in Int /\ s[2] \in Int /\ s[3] \in Int
      /\ t[1] \in Int /\ t[2] \in Int /\ t[3] \in Int
  BY DEF Stretches
<1>4. /\ s[1] <= a /\ a <= s[1] + s[3] - 1
      /\ t[1] <= b /\ b <= t[1] + t[3] - 1
  BY <1>1, <1>2, <1>3 DEF In
<1>5. s[2] + (a - s[1]) = t[2] + (b - t[1])
  BY <1>1, <1>2
<1>6. s = t
  <2>1. SUFFICES ASSUME s # t PROVE FALSE
    OBVIOUS
  <2>2. s[2] + s[3] <= t[2] \/ t[2] + t[3] <= s[2]
    BY <2>1 DEF Apart
  <2>3. QED
    BY <1>3, <1>4, <1>5, <2>2
<1>7. QED
  BY <1>3, <1>5, <1>6

\* The 26 letters, ten digits and so on of GlfwInputTranslation.cpp.
LEMMA GlfwApart == GlfwKeys \in SUBSET Stretches /\ Apart(GlfwKeys)
<1>1. GlfwKeys \in SUBSET Stretches
  BY DEF GlfwKeys, GlfwLetters, GlfwDigits, GlfwPrintables, GlfwEditing, GlfwFunctionKeys,
         GlfwNumpad, GlfwModifierKeys, Stretches
<1>2. Apart(GlfwKeys)
  BY SMTT(60) DEF Apart, GlfwKeys, GlfwLetters, GlfwDigits, GlfwPrintables, GlfwEditing,
         GlfwFunctionKeys, GlfwNumpad, GlfwModifierKeys
<1>3. QED
  BY <1>1, <1>2

\* And those of DebugUIInputTranslation.cpp.
LEMMA UiApart == UiKeys \in SUBSET Stretches /\ Apart(UiKeys)
<1>1. UiKeys \in SUBSET Stretches
  BY DEF UiKeys, UiLetters, UiDigits, UiPrintables, UiEditing, UiFunctionKeys, UiNumpad,
         UiModifierKeys, Stretches
<1>2. Apart(UiKeys)
  BY SMTT(120) DEF Apart, UiKeys, UiLetters, UiDigits, UiPrintables, UiEditing, UiFunctionKeys,
         UiNumpad, UiModifierKeys
<1>3. QED
  BY <1>1, <1>2

\* No two of the numbers GLFW may report for a key become the same InputCode, so
\* no key's release can end another key's press.
THEOREM EachGlfwKeyHasItsCode ==
    \A a, b \in Int :
        TranslateGlfwKey(a) # Unknown /\ TranslateGlfwKey(a) = TranslateGlfwKey(b) => a = b
BY GlfwApart, ApartIsInjective DEF TranslateGlfwKey

\* No two codes become the same key of ImGui: whoever holds one is not let go of
\* by the other.
THEOREM EachCodeHasItsUiKey ==
    \A a, b \in Int :
        TranslateKeyCode(a) # Unknown /\ TranslateKeyCode(a) = TranslateKeyCode(b) => a = b
BY UiApart, ApartIsInjective DEF TranslateKeyCode

\* Every code of the keyboard but KeyWorld2 and KeyF25 has a key in ImGui.
THEOREM UiKnowsAllButTwo ==
    \A code \in 1 .. 120 : TranslateKeyCode(code) = Unknown <=> code \in {50, 95}
<1>1. TAKE code \in 1 .. 120
<1>2. (\E s \in UiKeys : In(code, s)) <=> code \notin {50, 95}
  BY SMTT(60) DEF In, UiKeys, UiLetters, UiDigits, UiPrintables, UiEditing, UiFunctionKeys, UiNumpad,
         UiModifierKeys
<1>3. \A s \in UiKeys : In(code, s) => s[2] + (code - s[1]) # Unknown
  BY SMTT(60) DEF In, Unknown, UiKeys, UiLetters, UiDigits, UiPrintables, UiEditing, UiFunctionKeys,
         UiNumpad, UiModifierKeys
<1>4. QED
  BY <1>2, <1>3 DEF TranslateKeyCode, Translate

-----------------------------------------------------------------------------
(* The key map is the fold of all records so far.                          *)

LEMMA FoldFolds ==
    ASSUME NEW map, NEW events, Len(events) \in Nat
    PROVE  \E after : /\ Folds(after, map, events, Len(events))
                      /\ Fold(map, events) = after[Len(events)]
<1> DEFINE after == CHOOSE f : Folds(f, map, events, Len(events))
<1>1. Folds(after, map, events, Len(events))
  BY FoldsExists
<1>2. Fold(map, events) = after[Len(events)]
  BY DEF Fold, Folds
<1> QED
  BY <1>1, <1>2

LEMMA FoldEmpty == \A map : Fold(map, <<>>) = map
<1>1. TAKE map
<1>2. Len(<<>>) = 0
  OBVIOUS
<1>3. PICK after : Folds(after, map, <<>>, 0) /\ Fold(map, <<>>) = after[0]
  BY <1>2, FoldFolds
<1> QED
  BY <1>3 DEF Folds

LEMMA FoldAppend ==
    ASSUME NEW T, NEW map, NEW events \in Seq(T), NEW e \in T
    PROVE  Fold(map, Append(events, e)) = Press(Fold(map, events), e)
<1> DEFINE k == Len(events)
           more == Append(events, e)
<1>1. k \in Nat /\ Len(more) = k + 1 /\ more[k + 1] = e /\ \A n \in 1 .. k : more[n] = events[n]
  OBVIOUS
<1>2. PICK f : Folds(f, map, events, k) /\ Fold(map, events) = f[k]
  BY <1>1, FoldFolds
<1>3. PICK g : Folds(g, map, more, k + 1) /\ Fold(map, more) = g[k + 1]
  <2> HIDE DEF k, more
  <2>1. k + 1 \in Nat
    BY <1>1
  <2> QED
    BY <1>1, <2>1, FoldFolds
<1> HIDE DEF k, more
<1>4. \A n \in 0 .. k : f[n] = IF n = 0 THEN map ELSE Press(f[n - 1], events[n])
  BY <1>2 DEF Folds
<1>5. \A n \in 0 .. k + 1 : g[n] = IF n = 0 THEN map ELSE Press(g[n - 1], more[n])
  BY <1>3 DEF Folds
<1> DEFINE Good == {n \in 0 .. k : f[n] = g[n]}
<1>6. 0 \in Good
  BY <1>1, <1>4, <1>5
<1>7. ASSUME NEW m \in 1 .. k, m - 1 \in Good PROVE m \in Good
  <2>1. m # 0 /\ m \in 0 .. k /\ m \in 0 .. k + 1 /\ more[m] = events[m]
    BY <1>1
  <2>2. f[m] = Press(f[m - 1], events[m]) /\ g[m] = Press(g[m - 1], more[m])
    BY <1>4, <1>5, <2>1
  <2>3. f[m - 1] = g[m - 1]
    BY <1>7
  <2> QED
    BY <2>1, <2>2, <2>3
<1>8. f[k] = g[k]
  <2> HIDE DEF Good
  <2>1. \A n \in 0 .. k : n \in Good
    BY <1>1, <1>6, <1>7, InductionUpTo
  <2> QED
    BY <1>1, <2>1 DEF Good
<1>9. g[k + 1] = Press(g[k], e)
  <2>1. k + 1 \in 0 .. k + 1 /\ k + 1 # 0 /\ (k + 1) - 1 = k
    BY <1>1
  <2> QED
    BY <1>1, <1>5, <2>1
<1> QED
  BY <1>2, <1>3, <1>8, <1>9 DEF more

LEMMA FoldConcat ==
    ASSUME NEW T, NEW map, NEW s \in Seq(T)
    PROVE  \A t \in Seq(T) : Fold(map, s \o t) = Fold(Fold(map, s), t)
<1> DEFINE Good == {t \in Seq(T) : Fold(map, s \o t) = Fold(Fold(map, s), t)}
<1>1. <<>> \in Good
  <2>1. s \o <<>> = s /\ <<>> \in Seq(T)
    OBVIOUS
  <2> QED
    BY <2>1, FoldEmpty, Zenon
<1>2. ASSUME NEW u \in Seq(T), NEW e \in T, u \in Good PROVE Append(u, e) \in Good
  <2>1. s \o u \in Seq(T) /\ s \o Append(u, e) = Append(s \o u, e) /\ Append(u, e) \in Seq(T)
    OBVIOUS
  <2>2. Fold(map, Append(s \o u, e)) = Press(Fold(map, s \o u), e)
    <3>1. \A v \in Seq(T) : Fold(map, Append(v, e)) = Press(Fold(map, v), e)
      BY FoldAppend
    <3> QED
      BY <2>1, <3>1, Zenon
  <2>3. Fold(Fold(map, s), Append(u, e)) = Press(Fold(Fold(map, s), u), e)
    BY FoldAppend
  <2> QED
    BY <1>2, <2>1, <2>2, <2>3, Zenon
<1> HIDE DEF Good
<1>3. \A t \in Seq(T) : t \in Good
  BY <1>1, <1>2, InductionByAppend
<1> QED
  BY <1>3 DEF Good

Released == [c \in Codes |-> "released"]

\* The map as it will be when the frame at hand has been folded in.
MapToBe == IF stage \in {"ui", "frame", "app", "systems"} THEN Fold(current, record) ELSE current

MapIsTheFold ==
    /\ MapToBe = Fold(Released, seen)
    /\ stage = "systems" => copied = record
    /\ stage = "ui" => \A i \in DOMAIN record : \E j \in DOMAIN seen : seen[j] = record[i]

LEMMA MapIsTheFoldHolds == Spec => []MapIsTheFold
<1>1. Init => MapIsTheFold
  BY FoldEmpty DEF Init, MapIsTheFold, MapToBe, Released
<1>2. TypeOK /\ MapIsTheFold /\ [Next]_vars => MapIsTheFold'
  <2> SUFFICES ASSUME TypeOK, MapIsTheFold, [Next]_vars PROVE MapIsTheFold'
    OBVIOUS
  <2>1. CASE UNCHANGED <<stage, record, copied, current, seen>>
    BY <2>1 DEF MapIsTheFold, MapToBe
  <2>2. ASSUME NEW event \in Event, Produce(event) PROVE UNCHANGED <<stage, record, copied, current, seen>>
    BY <2>2 DEF Produce, inputVars
  <2>3. CallbackOutsidePoll \/ UNCHANGED vars => UNCHANGED <<stage, record, copied, current, seen>>
    BY DEF CallbackOutsidePoll, vars, inputVars
  <2>4. CASE Clear \/ Pump \/ Drain
    BY <2>4 DEF Clear, Pump, Drain, inputVars, MapIsTheFold, MapToBe
  <2>5. CASE Consume
    <3>1. seen' = seen \o record /\ stage = "consume" /\ stage' = "ui" /\ UNCHANGED <<record, current, copied>>
      BY <2>5 DEF Consume, inputVars
    <3>2. seen \in Seq(Event) /\ record \in Seq(Event)
      BY DEF TypeOK
    <3>3. current = Fold(Released, seen)
      BY <3>1 DEF MapIsTheFold, MapToBe
    <3>4. Fold(Released, seen \o record) = Fold(Fold(Released, seen), record)
      BY <3>2, FoldConcat
    <3>5. \A i \in DOMAIN record : \E j \in DOMAIN (seen \o record) : (seen \o record)[j] = record[i]
      <4>1. TAKE i \in DOMAIN record
      <4>2. Len(seen) + i \in DOMAIN (seen \o record) /\ (seen \o record)[Len(seen) + i] = record[i]
        BY <3>2
      <4> QED
        BY <4>2
    <3> QED
      BY <3>1, <3>3, <3>4, <3>5 DEF MapIsTheFold, MapToBe
  <2>6. CASE BeginFrame \/ UiFrame \/ OnStep
    BY <2>6 DEF BeginFrame, UiFrame, OnStep, MapIsTheFold, MapToBe
  <2>7. CASE SystemsStep
    BY <2>7 DEF SystemsStep, MapIsTheFold, MapToBe
  <2> QED
    BY <2>1, <2>2, <2>3, <2>4, <2>5, <2>6, <2>7 DEF Next, RunStep
<1> QED
  BY <1>1, <1>2, TypeCorrect, PTL DEF Spec

-----------------------------------------------------------------------------
(* What is pressed, somebody pressed last.                                 *)

\* A press stands if it comes last, and as long as only what leaves it alone follows.
LEMMA PressComesLast ==
    ASSUME NEW T, NEW s \in Seq(T), NEW e \in T, NEW c, NEW ending,
           e.code = c, e.type = "pressed"
    PROVE  PressStands(c, Append(s, e), ending)
<1> DEFINE more == Append(s, e)
           k == Len(s) + 1
<1>1. k \in DOMAIN more /\ more[k] = e /\ Len(more) = k /\ k \in Nat
  OBVIOUS
<1>2. \A j \in k + 1 .. Len(more) : FALSE
  BY <1>1
<1> QED
  BY <1>1, <1>2 DEF PressStands

LEMMA PressKeepsStanding ==
    ASSUME NEW T, NEW s \in Seq(T), NEW e \in T, NEW c, NEW ending,
           PressStands(c, s, ending), e.code # c, e.type \notin ending
    PROVE  PressStands(c, Append(s, e), ending)
<1> DEFINE more == Append(s, e)
<1>1. PICK i \in DOMAIN s :
          /\ s[i].code = c /\ s[i].type = "pressed"
          /\ \A j \in i + 1 .. Len(s) : s[j].code # c /\ s[j].type \notin ending
  BY DEF PressStands
<1>2. /\ i \in 1 .. Len(s) /\ Len(s) \in Nat /\ Len(more) = Len(s) + 1
      /\ DOMAIN more = 1 .. Len(more) /\ more[Len(s) + 1] = e
      /\ \A j \in 1 .. Len(s) : more[j] = s[j]
  OBVIOUS
<1> HIDE DEF more
<1>3. \A j \in i + 1 .. Len(more) : more[j].code # c /\ more[j].type \notin ending
  <2>1. TAKE j \in i + 1 .. Len(more)
  <2>2. CASE j = Len(s) + 1
    BY <1>2, <2>2
  <2>3. CASE j # Len(s) + 1
    <3>1. j \in i + 1 .. Len(s) /\ j \in 1 .. Len(s)
      BY <1>2, <2>3
    <3> QED
      BY <1>1, <1>2, <3>1
  <2> QED
    BY <2>2, <2>3
<1>4. i \in DOMAIN more /\ more[i] = s[i]
  BY <1>2
<1> QED
  BY <1>1, <1>3, <1>4 DEF PressStands, more

LEMMA PressedIsStanding ==
    ASSUME NEW c \in Codes
    PROVE  \A s \in Seq(Event) :
               Fold(Released, s)[c] = "pressed" => \E p \in Producer : PressStands(c, By(p, s), {})
<1> DEFINE Claim(s) == Fold(Released, s)[c] = "pressed" => \E p \in Producer : PressStands(c, By(p, s), {})
           Good == {s \in Seq(Event) : Claim(s)}
<1>1. <<>> \in Good
  <2>1. <<>> \in Seq(Event)
    OBVIOUS
  <2>2. Fold(Released, <<>>)[c] = "released"
    BY FoldEmpty DEF Released
  <2> QED
    BY <2>1, <2>2
<1>2. ASSUME NEW u \in Seq(Event), NEW e \in Event, u \in Good PROVE Append(u, e) \in Good
  <2> DEFINE before == Fold(Released, u)
             more == Append(u, e)
  <2>1. more \in Seq(Event)
    OBVIOUS
  <2>2. Fold(Released, more) = Press(before, e)
    BY FoldAppend
  <2>3. before \in Map
    BY FoldType DEF Released, Map
  <2>4. \A p \in Producer : By(p, u) \in Seq(Event)
    BY ByType
  <2>5. \A p \in Producer : /\ e.from = p => By(p, more) = Append(By(p, u), e)
                            /\ e.from # p => By(p, more) = By(p, u)
    BY ByAppend
  <2>6. e.from \in Producer
    BY DEF Event, WindowEvent, AgentEvent, Producer
  <2> HIDE DEF before, more
  <2>7. ASSUME Fold(Released, more)[c] = "pressed"
        PROVE  \E p \in Producer : PressStands(c, By(p, more), {})
    <3>1. CASE e.code = c
      <4>1. e.type = "pressed"
        BY <2>2, <2>3, <2>7, <3>1 DEF Press, Map
      <4>2. PressStands(c, Append(By(e.from, u), e), {})
        BY <2>4, <2>6, <3>1, <4>1, PressComesLast
      <4> QED
        BY <2>5, <2>6, <4>2
    <3>2. CASE e.code # c
      <4>1. before[c] = "pressed"
        BY <2>2, <2>3, <2>7, <3>2 DEF Press, Map
      <4>2. PICK p \in Producer : PressStands(c, By(p, u), {})
        BY <1>2, <4>1 DEF before
      <4>3. CASE e.from = p
        <5>1. PressStands(c, Append(By(p, u), e), {})
          BY <2>4, <3>2, <4>2, PressKeepsStanding
        <5> QED
          BY <2>5, <4>3, <5>1
      <4>4. CASE e.from # p
        BY <2>5, <4>2, <4>4
      <4> QED
        BY <4>3, <4>4
    <3> QED
      BY <3>1, <3>2
  <2> QED
    BY <2>1, <2>7 DEF more
<1> HIDE DEF Good
<1>3. \A s \in Seq(Event) : s \in Good
  BY <1>1, <1>2, InductionByAppend
<1> QED
  BY <1>3 DEF Good

-----------------------------------------------------------------------------
(* The window lets go of everything with its focus.                        *)

\* After a loss of focus no press made before it is the last of its code.
LetsGo(events) ==
    \A i, j \in DOMAIN events :
        /\ i < j /\ events[j].type = "unfocused"
        /\ events[i].type = "pressed" /\ events[i].code \in Codes
        => \E k \in i + 1 .. Len(events) : events[k].code = events[i].code

\* So a press that stands at all stands to this day.
LEMMA StandsForGood ==
    ASSUME NEW s \in Seq(Event), LetsGo(s), NEW c \in Codes, PressStands(c, s, {})
    PROVE  PressStands(c, s, {"unfocused"})
<1>1. PICK i \in DOMAIN s :
          /\ s[i].code = c /\ s[i].type = "pressed"
          /\ \A j \in i + 1 .. Len(s) : s[j].code # c
  BY DEF PressStands
<1>2. ASSUME NEW j \in i + 1 .. Len(s), s[j].type = "unfocused" PROVE FALSE
  <2>1. j \in DOMAIN s /\ i < j
    OBVIOUS
  <2>2. \E k \in i + 1 .. Len(s) : s[k].code = s[i].code
    BY <1>1, <1>2, <2>1 DEF LetsGo
  <2> QED
    BY <1>1, <2>2
<1> QED
  BY <1>1, <1>2 DEF PressStands

\* Everything that can be listed is in the list.
LEMMA SetToSeqHasAll ==
    ASSUME NEW S, IsFiniteSet(S), NEW x \in S
    PROVE  \E i \in DOMAIN SetToSeq(S) : SetToSeq(S)[i] = x
<1> DEFINE n == Cardinality(S)
<1>1. n \in Nat /\ ExistsBijection(1 .. n, S)
  BY FS_CardinalityType
<1>2. \E f \in [1 .. n -> S] : IsInjective(f)
  BY <1>1 DEF ExistsBijection, Bijection, Injection, IsInjective
<1>3. SetToSeq(S) \in [1 .. n -> S] /\ IsInjective(SetToSeq(S))
  BY <1>2 DEF SetToSeq
<1>4. SetToSeq(S) \in Injection(1 .. n, S)
  BY <1>3 DEF Injection, IsInjective
<1>5. Cardinality(1 .. n) = n
  <2>1. Cardinality(1 .. n) = IF 1 > n THEN 0 ELSE n - 1 + 1
    BY <1>1, FS_Interval
  <2> QED
    BY <1>1, <2>1
<1>6. SetToSeq(S) \in Surjection(1 .. n, S)
  BY <1>4, <1>5, FS_Injection
<1> QED
  BY <1>3, <1>6 DEF Surjection

LEMMA ReportsLetGo ==
    ASSUME NEW event \in WindowEvent, produced["window"] \in Seq(Event), LetsGo(produced["window"])
    PROVE  LetsGo(produced["window"] \o WindowReports(event))
<1> DEFINE s == produced["window"]
           r == WindowReports(event)
           more == s \o r
           n == Len(s)
<1>1. s \in Seq(Event) /\ r \in Seq(Event)
  BY WindowReportsWindowEvents, EventsHaveOneMaker
<1>2. /\ n \in Nat /\ Len(r) \in Nat /\ Len(more) = n + Len(r)
      /\ DOMAIN more = 1 .. n + Len(r) /\ DOMAIN s = 1 .. n /\ DOMAIN r = 1 .. Len(r)
      /\ \A i \in 1 .. n : more[i] = s[i]
      /\ \A i \in 1 .. Len(r) : more[n + i] = r[i]
  BY <1>1
<1> DEFINE Released1(c) == [from |-> "window", type |-> "released", code |-> c]
           All == {Released1(c) : c \in {d \in Codes : WindowHolds(d)}}
           releases == SetToSeq(All)
<1>3. CASE event.type # "unfocused"
  <2>1. r = <<event>> /\ Len(r) = 1 /\ r[1] = event
    BY <1>3 DEF WindowReports
  <2> HIDE DEF r, s, more, n
  <2>2. SUFFICES ASSUME NEW i \in DOMAIN more, NEW j \in DOMAIN more, i < j, more[j].type = "unfocused",
                        more[i].type = "pressed", more[i].code \in Codes
                 PROVE  \E k \in i + 1 .. Len(more) : more[k].code = more[i].code
    BY DEF LetsGo, more, s, r
  <2>3. j \in 1 .. n
    BY <1>2, <1>3, <2>1, <2>2
  <2>4. \E k \in i + 1 .. n : s[k].code = s[i].code
    <3>1. i \in DOMAIN s /\ j \in DOMAIN s /\ more[i] = s[i] /\ more[j] = s[j]
      BY <1>2, <2>2, <2>3
    <3> QED
      BY <2>2, <3>1 DEF LetsGo, s, n
  <2> QED
    BY <1>2, <2>2, <2>3, <2>4
<1>4. CASE event.type = "unfocused"
  <2>1. IsFiniteSet(All) /\ r = <<event>> \o releases
    BY <1>4, ReleasesFinite DEF WindowReports
  <2>2. \A c \in Codes : Released1(c) \in Event
    BY DEF Codes, WindowEvent, Event
  <2>3. All \subseteq Event /\ \A e \in All : e.type = "released"
    BY <2>2
  <2>4. \A c \in Codes : WindowHolds(c) => Released1(c) \in All
    OBVIOUS
  <2> HIDE DEF All
  <2>5. releases \in Seq(All) /\ \A e \in All : \E m \in DOMAIN releases : releases[m] = e
    BY <2>1, SetToSeqType, SetToSeqHasAll
  <2>6. /\ Len(releases) \in Nat /\ DOMAIN releases = 1 .. Len(releases)
        /\ \A m \in 1 .. Len(releases) : releases[m] \in All
    BY <2>5
  <2>7. /\ Len(r) = 1 + Len(releases) /\ r[1] = event
        /\ \A m \in 1 .. Len(releases) : r[1 + m] = releases[m]
    <3>1. <<event>> \in Seq(Event) /\ releases \in Seq(Event) /\ Len(<<event>>) = 1 /\ <<event>>[1] = event
      BY <2>3, <2>5, EventsHaveOneMaker
    <3> HIDE DEF releases
    <3> QED
      BY <2>1, <2>6, <3>1
  <2> HIDE DEF releases, r, s, more, n
  <2>8. SUFFICES ASSUME NEW i \in DOMAIN more, NEW j \in DOMAIN more, i < j, more[j].type = "unfocused",
                        more[i].type = "pressed", more[i].code \in Codes
                 PROVE  \E k \in i + 1 .. Len(more) : more[k].code = more[i].code
    BY DEF LetsGo, more, s, r
  <2>9. i \in 1 .. n
    <3>1. SUFFICES ASSUME i \notin 1 .. n PROVE FALSE
      OBVIOUS
    <3>2. i - n \in 1 .. Len(r) /\ more[i] = r[i - n]
      BY <1>2, <2>8, <3>1
    <3>3. i - n = 1 \/ (i - n) - 1 \in 1 .. Len(releases)
      BY <1>2, <2>6, <2>7, <3>2
    <3>4. i - n = 1 => more[i].type = "unfocused"
      BY <1>4, <2>7, <3>2
    <3>5. (i - n) - 1 \in 1 .. Len(releases) => more[i].type = "released"
      <4>1. SUFFICES ASSUME (i - n) - 1 \in 1 .. Len(releases) PROVE more[i].type = "released"
        OBVIOUS
      <4>2. 1 + ((i - n) - 1) = i - n
        BY <3>2
      <4>3. more[i] = releases[(i - n) - 1]
        BY <2>7, <3>2, <4>1, <4>2
      <4> QED
        BY <2>3, <2>6, <4>1, <4>3
    <3> QED
      BY <2>8, <3>3, <3>4, <3>5
  <2>10. CASE \E k \in i + 1 .. n : s[k].code = s[i].code
    BY <1>2, <2>9, <2>10
  <2>11. CASE ~\E k \in i + 1 .. n : s[k].code = s[i].code
    <3> DEFINE c == s[i].code
    <3>1. more[i] = s[i] /\ i \in DOMAIN s
      BY <1>2, <2>9
    <3>2. PressStands(c, s, {})
      BY <2>8, <2>11, <3>1 DEF PressStands, n
    <3>3. Released1(c) \in All
      BY <2>4, <2>8, <3>1, <3>2 DEF WindowHolds, s
    <3>4. PICK m \in 1 .. Len(releases) : releases[m] = Released1(c)
      BY <2>5, <2>6, <3>3
    <3>5. r[1 + m].code = c /\ 1 + m \in 1 .. Len(r)
      BY <2>6, <2>7, <3>4
    <3>6. n + (1 + m) \in i + 1 .. Len(more) /\ more[n + (1 + m)].code = c
      BY <1>2, <2>9, <3>5
    <3> QED
      BY <3>1, <3>6
  <2> QED
    BY <2>10, <2>11
<1> QED
  BY <1>3, <1>4

LEMMA FocusIsLetGo == Spec => [](LetsGo(produced["window"]) /\ LetsGo(Given("window")))
<1> DEFINE Free == LetsGo(produced["window"]) /\ LetsGo(Given("window"))
<1>1. Init => Free
  <2> SUFFICES ASSUME Init PROVE Free
    OBVIOUS
  <2>1. seen \o Unseen = <<>>
    BY DEF Init, Unseen
  <2>2. Given("window") = <<>> /\ produced["window"] = <<>>
    BY <2>1, ByEmpty DEF Init, Given, Producer
  <2> QED
    BY <2>2 DEF LetsGo
<1>2. TypeOK /\ OnTheWay /\ EveryEventInOneFrame /\ EveryEventInOneFrame' /\ Free /\ [Next]_vars => Free'
  <2> SUFFICES ASSUME TypeOK, OnTheWay, EveryEventInOneFrame', Free, [Next]_vars PROVE Free'
    OBVIOUS
  <2>1. produced["window"] \in Seq(Event) /\ "window" \in DOMAIN produced
    BY DEF TypeOK, Producer
  <2>2. LetsGo(produced["window"])'
    <3>1. ASSUME NEW event \in Event, Produce(event) PROVE LetsGo(produced["window"])'
      <4>1. CASE event.from = "window"
        <5>1. event \in WindowEvent
          BY <4>1, EventsHaveOneMaker
        <5>2. produced'["window"] = produced["window"] \o WindowReports(event)
          BY <2>1, <3>1, <4>1 DEF Produce
        <5> QED
          BY <2>1, <5>1, <5>2, ReportsLetGo
      <4>2. CASE event.from # "window"
        BY <2>1, <3>1, <4>2 DEF Produce
      <4> QED
        BY <4>1, <4>2
    <3>2. ASSUME CallbackOutsidePoll \/ RunStep \/ UNCHANGED vars PROVE produced' = produced
      BY <3>2 DEF CallbackOutsidePoll, RunStep, Clear, Pump, Drain, Consume, BeginFrame, UiFrame, OnStep,
         SystemsStep, vars
    <3> QED
      BY <3>1, <3>2 DEF Next
  <2>3. LetsGo(Given("window"))'
    <3>1. CASE WindowHandsOver
      <4>1. TypeOK'
        BY NextType
      <4>2. Given("window")' \in Seq(Event)
        <5>1. (seen \o Unseen)' \in Seq(Event)
          BY <4>1 DEF TypeOK, Unseen
        <5> QED
          BY <5>1, ByType DEF Given
      <4>3. Given("window")' = produced'["window"]
        <5>1. produced'["window"] = (Given("window")' \o <<>>) \o <<>>
          BY <3>1 DEF WindowHandsOver, EveryEventInOneFrame
        <5> QED
          BY <4>2, <5>1
      <4> QED
        BY <2>2, <4>3
    <3>2. CASE WindowAdds \/ AgentAdds \/ AgentHandsOver \/ NothingMoves
      BY <3>2 DEF WindowAdds, AgentAdds, AgentHandsOver, NothingMoves
    <3> QED
      BY <3>1, <3>2, StepMovesEvents
  <2> QED
    BY <2>2, <2>3
<1> QED
  BY <1>1, <1>2, TypeCorrect, OnTheWayHolds, NoEventLost, PTL DEF Spec

-----------------------------------------------------------------------------
(* ImGui's side: what is submitted, and what its queue comes to.           *)

UiInput == {AsInput(e) : e \in Event}

Submits(submitted, events, k) ==
    submitted = [n \in 0 .. k |->
                    IF n = 0 THEN <<>>
                    ELSE IF Submitted(events[n]) THEN Append(submitted[n - 1], AsInput(events[n]))
                    ELSE submitted[n - 1]]

LEMMA SubmitsExists ==
    ASSUME NEW events, NEW k \in Nat
    PROVE  \E submitted : Submits(submitted, events, k)
<1> DEFINE Good == {n \in Nat : \E f : Submits(f, events, n)}
<1>1. 0 \in Good
  <2> DEFINE f == [n \in 0 .. 0 |-> <<>>]
  <2>1. Submits(f, events, 0)
    BY DEF Submits
  <2> QED
    BY <2>1
<1>2. ASSUME NEW m \in 1 .. k, m - 1 \in Good PROVE m \in Good
  <2>1. m \in Nat /\ m - 1 \in Nat
    OBVIOUS
  <2>2. PICK before : Submits(before, events, m - 1)
    BY <1>2
  <2> DEFINE last == IF Submitted(events[m]) THEN Append(before[m - 1], AsInput(events[m])) ELSE before[m - 1]
             f == [n \in 0 .. m |-> IF n = m THEN last ELSE before[n]]
  <2>3. \A n \in 0 .. m - 1 :
            before[n] = IF n = 0 THEN <<>>
                        ELSE IF Submitted(events[n]) THEN Append(before[n - 1], AsInput(events[n]))
                        ELSE before[n - 1]
    BY <2>1, <2>2 DEF Submits
  <2>4. \A n \in 0 .. m :
            f[n] = IF n = 0 THEN <<>>
                   ELSE IF Submitted(events[n]) THEN Append(f[n - 1], AsInput(events[n]))
                   ELSE f[n - 1]
    <3>1. TAKE n \in 0 .. m
    <3>2. CASE n = m
      BY <2>1, <3>2
    <3>3. CASE n # m
      BY <2>1, <2>3, <3>3
    <3> QED
      BY <3>2, <3>3
  <2>5. Submits(f, events, m)
    BY <2>4 DEF Submits
  <2> QED
    BY <2>1, <2>5
<1> HIDE DEF Good
<1>3. \A n \in 0 .. k : n \in Good
  BY <1>1, <1>2, InductionUpTo
<1> QED
  BY <1>3 DEF Good

LEMMA SubmitSubmits ==
    ASSUME NEW events, Len(events) \in Nat
    PROVE  \E f : Submits(f, events, Len(events)) /\ SubmitPlatformEvents(events) = f[Len(events)]
<1> DEFINE f == CHOOSE g : Submits(g, events, Len(events))
<1>1. Submits(f, events, Len(events))
  BY SubmitsExists
<1>2. SubmitPlatformEvents(events) = f[Len(events)]
  BY DEF SubmitPlatformEvents, Submits
<1> QED
  BY <1>1, <1>2

LEMMA SubmitEmpty == SubmitPlatformEvents(<<>>) = <<>>
<1>1. Len(<<>>) = 0
  OBVIOUS
<1>2. PICK f : Submits(f, <<>>, 0) /\ SubmitPlatformEvents(<<>>) = f[0]
  BY <1>1, SubmitSubmits
<1> QED
  BY <1>2 DEF Submits

LEMMA SubmitAppend ==
    ASSUME NEW T, NEW events \in Seq(T), NEW e \in T
    PROVE  SubmitPlatformEvents(Append(events, e)) =
               IF Submitted(e) THEN Append(SubmitPlatformEvents(events), AsInput(e))
               ELSE SubmitPlatformEvents(events)
<1> DEFINE k == Len(events)
           more == Append(events, e)
<1>1. k \in Nat /\ Len(more) = k + 1 /\ more[k + 1] = e /\ \A n \in 1 .. k : more[n] = events[n]
  OBVIOUS
<1>2. PICK f : Submits(f, events, k) /\ SubmitPlatformEvents(events) = f[k]
  BY <1>1, SubmitSubmits
<1>3. PICK g : Submits(g, more, k + 1) /\ SubmitPlatformEvents(more) = g[k + 1]
  <2> HIDE DEF k, more
  <2>1. k + 1 \in Nat
    BY <1>1
  <2> QED
    BY <1>1, <2>1, SubmitSubmits
<1> HIDE DEF k, more
<1>4. \A n \in 0 .. k :
          f[n] = IF n = 0 THEN <<>>
                 ELSE IF Submitted(events[n]) THEN Append(f[n - 1], AsInput(events[n])) ELSE f[n - 1]
  BY <1>2 DEF Submits
<1>5. \A n \in 0 .. k + 1 :
          g[n] = IF n = 0 THEN <<>>
                 ELSE IF Submitted(more[n]) THEN Append(g[n - 1], AsInput(more[n])) ELSE g[n - 1]
  BY <1>3 DEF Submits
<1> DEFINE Good == {n \in 0 .. k : f[n] = g[n]}
<1>6. 0 \in Good
  BY <1>1, <1>4, <1>5
<1>7. ASSUME NEW m \in 1 .. k, m - 1 \in Good PROVE m \in Good
  <2>1. m # 0 /\ m \in 0 .. k /\ m \in 0 .. k + 1 /\ more[m] = events[m]
    BY <1>1
  <2>2. f[m] = IF Submitted(events[m]) THEN Append(f[m - 1], AsInput(events[m])) ELSE f[m - 1]
    BY <1>4, <2>1
  <2>3. g[m] = IF Submitted(more[m]) THEN Append(g[m - 1], AsInput(more[m])) ELSE g[m - 1]
    BY <1>5, <2>1
  <2>4. f[m - 1] = g[m - 1]
    BY <1>7
  <2>5. f[m] = g[m]
    BY <2>1, <2>2, <2>3, <2>4
  <2> QED
    BY <2>1, <2>5
<1>8. f[k] = g[k]
  <2> HIDE DEF Good
  <2>1. \A n \in 0 .. k : n \in Good
    BY <1>1, <1>6, <1>7, InductionUpTo
  <2> QED
    BY <1>1, <2>1 DEF Good
<1>9. g[k + 1] = IF Submitted(e) THEN Append(g[k], AsInput(e)) ELSE g[k]
  <2>1. k + 1 \in 0 .. k + 1 /\ k + 1 # 0 /\ (k + 1) - 1 = k
    BY <1>1
  <2> QED
    BY <1>1, <1>5, <2>1
<1> QED
  BY <1>2, <1>3, <1>8, <1>9 DEF more

LEMMA SubmitType == \A s \in Seq(Event) : SubmitPlatformEvents(s) \in Seq(UiInput)
<1> DEFINE Good == {s \in Seq(Event) : SubmitPlatformEvents(s) \in Seq(UiInput)}
<1>1. <<>> \in Good
  <2>1. <<>> \in Seq(Event) /\ <<>> \in Seq(UiInput)
    OBVIOUS
  <2> QED
    BY <2>1, SubmitEmpty, Zenon
<1>2. ASSUME NEW u \in Seq(Event), NEW e \in Event, u \in Good PROVE Append(u, e) \in Good
  <2>1. AsInput(e) \in UiInput
    BY DEF UiInput
  <2>2. Append(SubmitPlatformEvents(u), AsInput(e)) \in Seq(UiInput)
    BY <1>2, <2>1
  <2>3. SubmitPlatformEvents(Append(u, e)) \in Seq(UiInput)
    BY <1>2, <2>2, SubmitAppend
  <2> QED
    BY <2>3
<1> HIDE DEF Good
<1>3. \A s \in Seq(Event) : s \in Good
  BY <1>1, <1>2, InductionByAppend
<1> QED
  BY <1>3 DEF Good

\* Only a loss of focus is submitted as one.
LEMMA SubmitsNoFocus ==
    \A s \in Seq(Event) :
        (\A i \in DOMAIN s : s[i].type # "unfocused") =>
            \A i \in DOMAIN SubmitPlatformEvents(s) : SubmitPlatformEvents(s)[i].kind # "focus"
<1> DEFINE Free(s) == \A i \in DOMAIN s : s[i].type # "unfocused"
           Clean(x) == \A i \in DOMAIN x : x[i].kind # "focus"
           Good == {s \in Seq(Event) : Free(s) => Clean(SubmitPlatformEvents(s))}
<1>1. <<>> \in Good
  <2>1. <<>> \in Seq(Event) /\ DOMAIN <<>> = {}
    OBVIOUS
  <2>2. Clean(<<>>)
    BY <2>1
  <2> QED
    BY <2>1, <2>2, SubmitEmpty, Zenon
<1>2. ASSUME NEW u \in Seq(Event), NEW e \in Event, u \in Good PROVE Append(u, e) \in Good
  <2> DEFINE x == SubmitPlatformEvents(u)
  <2>1. x \in Seq(UiInput)
    BY SubmitType
  <2>2. Append(u, e) \in Seq(Event)
    OBVIOUS
  <2>3. ASSUME Free(Append(u, e)) PROVE Clean(SubmitPlatformEvents(Append(u, e)))
    <3>1. Free(u) /\ e.type # "unfocused"
      <4>1. /\ Len(u) \in Nat /\ DOMAIN u = 1 .. Len(u) /\ DOMAIN Append(u, e) = 1 .. Len(u) + 1
            /\ Append(u, e)[Len(u) + 1] = e /\ \A i \in 1 .. Len(u) : Append(u, e)[i] = u[i]
        OBVIOUS
      <4> QED
        BY <2>3, <4>1
    <3>2. Clean(x)
      BY <1>2, <3>1
    <3>3. AsInput(e).kind # "focus"
      BY <3>1 DEF AsInput, Input
    <3>4. Clean(Append(x, AsInput(e)))
      <4> HIDE DEF x
      <4>1. /\ Len(x) \in Nat /\ DOMAIN x = 1 .. Len(x)
            /\ DOMAIN Append(x, AsInput(e)) = 1 .. Len(x) + 1
            /\ Append(x, AsInput(e))[Len(x) + 1] = AsInput(e)
            /\ \A i \in 1 .. Len(x) : Append(x, AsInput(e))[i] = x[i]
        <5>1. AsInput(e) \in UiInput
          BY DEF UiInput
        <5> QED
          BY <2>1, <5>1
      <4>2. TAKE i \in DOMAIN Append(x, AsInput(e))
      <4>3. i = Len(x) + 1 \/ i \in 1 .. Len(x)
        BY <4>1
      <4> QED
        BY <3>2, <3>3, <4>1, <4>3
    <3> QED
      BY <3>2, <3>4, SubmitAppend
  <2> QED
    BY <2>2, <2>3
<1> HIDE DEF Good
<1>3. \A s \in Seq(Event) : s \in Good
  BY <1>1, <1>2, InductionByAppend
<1> QED
  BY <1>3 DEF Good

Works(after, held0, inputs, k) ==
    after = [n \in 0 .. k |-> IF n = 0 THEN held0 ELSE Taken(after[n - 1], inputs[n])]

LEMMA WorksExists ==
    ASSUME NEW h, NEW inputs, NEW k \in Nat
    PROVE  \E after : Works(after, h, inputs, k)
<1> DEFINE Good == {n \in Nat : \E after : Works(after, h, inputs, n)}
<1>1. 0 \in Good
  <2> DEFINE after == [n \in 0 .. 0 |-> h]
  <2>1. Works(after, h, inputs, 0)
    BY DEF Works
  <2> QED
    BY <2>1
<1>2. ASSUME NEW m \in 1 .. k, m - 1 \in Good PROVE m \in Good
  <2>1. m \in Nat /\ m - 1 \in Nat
    OBVIOUS
  <2>2. PICK before : Works(before, h, inputs, m - 1)
    BY <1>2
  <2> DEFINE after == [n \in 0 .. m |-> IF n = m THEN Taken(before[m - 1], inputs[m]) ELSE before[n]]
  <2>3. \A n \in 0 .. m - 1 : before[n] = IF n = 0 THEN h ELSE Taken(before[n - 1], inputs[n])
    BY <2>1, <2>2 DEF Works
  <2>4. \A n \in 0 .. m : after[n] = IF n = 0 THEN h ELSE Taken(after[n - 1], inputs[n])
    <3>1. TAKE n \in 0 .. m
    <3>2. CASE n = m
      BY <2>1, <3>2
    <3>3. CASE n # m
      BY <2>1, <2>3, <3>3
    <3> QED
      BY <3>2, <3>3
  <2>5. Works(after, h, inputs, m)
    BY <2>4 DEF Works
  <2> QED
    BY <2>1, <2>5
<1> HIDE DEF Good
<1>3. k \in Good
  BY <1>1, <1>2, InductionUpTo
<1> QED
  BY <1>3 DEF Good

LEMMA HeldAfterWorks ==
    ASSUME NEW h, NEW inputs, Len(inputs) \in Nat
    PROVE  \A n \in 0 .. Len(inputs) :
               HeldAfter(h, inputs)[n] = IF n = 0 THEN h ELSE Taken(HeldAfter(h, inputs)[n - 1], inputs[n])
<1> DEFINE after == CHOOSE f : Works(f, h, inputs, Len(inputs))
<1>1. Works(after, h, inputs, Len(inputs))
  BY WorksExists
<1>2. HeldAfter(h, inputs) = after
  BY DEF HeldAfter, Works
<1> HIDE DEF after
<1> QED
  BY <1>1, <1>2 DEF Works

\* What is held after some of the inputs does not depend on those that follow.
LEMMA HeldSoFar ==
    ASSUME NEW h, NEW s, NEW t, Len(s) \in Nat, Len(t) \in Nat,
           NEW n \in Nat, n <= Len(s), n <= Len(t), \A i \in 1 .. n : s[i] = t[i]
    PROVE  HeldAfter(h, s)[n] = HeldAfter(h, t)[n]
<1> DEFINE f == HeldAfter(h, s)
           g == HeldAfter(h, t)
           Good == {i \in 0 .. n : f[i] = g[i]}
<1>1. \A i \in 0 .. Len(s) : f[i] = IF i = 0 THEN h ELSE Taken(f[i - 1], s[i])
  BY HeldAfterWorks
<1>2. \A i \in 0 .. Len(t) : g[i] = IF i = 0 THEN h ELSE Taken(g[i - 1], t[i])
  BY HeldAfterWorks
<1> HIDE DEF f, g
<1>3. 0 \in Good
  BY <1>1, <1>2
<1>4. ASSUME NEW m \in 1 .. n, m - 1 \in Good PROVE m \in Good
  <2>1. m # 0 /\ m \in 0 .. Len(s) /\ m \in 0 .. Len(t) /\ m \in 0 .. n /\ s[m] = t[m]
    OBVIOUS
  <2>2. f[m] = Taken(f[m - 1], s[m]) /\ g[m] = Taken(g[m - 1], t[m])
    BY <1>1, <1>2, <2>1
  <2>3. f[m - 1] = g[m - 1]
    BY <1>4
  <2> QED
    BY <2>1, <2>2, <2>3
<1> HIDE DEF Good
<1>5. \A i \in 0 .. n : i \in Good
  BY <1>3, <1>4, InductionUpTo
<1> QED
  BY <1>5 DEF Good, f, g

\* What is held once the queue has been worked off.
Settled(h, inputs) == HeldAfter(h, inputs)[Len(inputs)]

LEMMA SettledEmpty == \A h : Settled(h, <<>>) = h
<1>1. TAKE h
<1>2. Len(<<>>) = 0
  OBVIOUS
<1>3. HeldAfter(h, <<>>)[0] = h
  BY <1>2, HeldAfterWorks
<1> QED
  BY <1>2, <1>3 DEF Settled

LEMMA SettledAppend ==
    ASSUME NEW T, NEW h, NEW s \in Seq(T), NEW x \in T
    PROVE  Settled(h, Append(s, x)) = Taken(Settled(h, s), x)
<1> DEFINE more == Append(s, x)
           k == Len(s)
<1>1. /\ k \in Nat /\ Len(more) = k + 1 /\ more[k + 1] = x
      /\ \A i \in 1 .. k : more[i] = s[i]
  OBVIOUS
<1> HIDE DEF more
<1>2. HeldAfter(h, more)[k + 1] = Taken(HeldAfter(h, more)[k], x)
  <2>1. k + 1 \in 0 .. Len(more) /\ k + 1 # 0 /\ (k + 1) - 1 = k /\ Len(more) \in Nat
    BY <1>1
  <2>2. HeldAfter(h, more)[k + 1] = IF k + 1 = 0 THEN h ELSE Taken(HeldAfter(h, more)[(k + 1) - 1], more[k + 1])
    BY <2>1, HeldAfterWorks
  <2> QED
    BY <1>1, <2>1, <2>2
<1>3. HeldAfter(h, more)[k] = HeldAfter(h, s)[k]
  <2>1. Len(more) \in Nat /\ k <= Len(more) /\ k <= Len(s)
    BY <1>1
  <2> QED
    BY <1>1, <2>1, HeldSoFar
<1> QED
  BY <1>1, <1>2, <1>3 DEF Settled, more

LEMMA SettledConcat ==
    ASSUME NEW T, NEW h, NEW s \in Seq(T)
    PROVE  \A t \in Seq(T) : Settled(h, s \o t) = Settled(Settled(h, s), t)
<1> DEFINE Good == {t \in Seq(T) : Settled(h, s \o t) = Settled(Settled(h, s), t)}
<1>1. <<>> \in Good
  <2>1. s \o <<>> = s /\ <<>> \in Seq(T)
    OBVIOUS
  <2> QED
    BY <2>1, SettledEmpty, Zenon
<1>2. ASSUME NEW u \in Seq(T), NEW e \in T, u \in Good PROVE Append(u, e) \in Good
  <2>1. s \o u \in Seq(T) /\ s \o Append(u, e) = Append(s \o u, e) /\ Append(u, e) \in Seq(T)
    OBVIOUS
  <2>2. \A v \in Seq(T) : Settled(h, Append(v, e)) = Taken(Settled(h, v), e)
    BY SettledAppend
  <2>3. Settled(Settled(h, s), Append(u, e)) = Taken(Settled(Settled(h, s), u), e)
    BY SettledAppend
  <2> QED
    BY <1>2, <2>1, <2>2, <2>3, Zenon
<1> HIDE DEF Good
<1>3. \A t \in Seq(T) : t \in Good
  BY <1>1, <1>2, InductionByAppend
<1> QED
  BY <1>3 DEF Good

\* Who holds less to begin with holds no more in the end.
LEMMA SettledGrows ==
    ASSUME NEW T, NEW g, NEW h, g \subseteq h
    PROVE  \A s \in Seq(T) : Settled(g, s) \subseteq Settled(h, s)
<1> DEFINE Good == {s \in Seq(T) : Settled(g, s) \subseteq Settled(h, s)}
<1>1. <<>> \in Good
  <2>1. <<>> \in Seq(T)
    OBVIOUS
  <2>2. Settled(g, <<>>) = g /\ Settled(h, <<>>) = h
    BY SettledEmpty
  <2> QED
    BY <2>1, <2>2
<1>2. ASSUME NEW u \in Seq(T), NEW e \in T, u \in Good PROVE Append(u, e) \in Good
  <2>1. Append(u, e) \in Seq(T)
    OBVIOUS
  <2>2. Settled(g, Append(u, e)) = Taken(Settled(g, u), e) /\ Settled(h, Append(u, e)) = Taken(Settled(h, u), e)
    BY SettledAppend
  <2>3. Taken(Settled(g, u), e) \subseteq Taken(Settled(h, u), e)
    BY <1>2 DEF Taken
  <2> QED
    BY <2>1, <2>2, <2>3
<1> HIDE DEF Good
<1>3. \A s \in Seq(T) : s \in Good
  BY <1>1, <1>2, InductionByAppend
<1> QED
  BY <1>3 DEF Good

-----------------------------------------------------------------------------
(* The panels follow the key map.                                          *)

\* Only codes of the keyboard have keys in ImGui.
LEMMA KeysAreOnTheKeyboard == \A code : HasKey(code) => code \in 1 .. 120
<1>1. TAKE code
<1>2. \A s \in UiKeys : In(code, s) => code \in 1 .. 120
  BY SMTT(60) DEF In, UiKeys, UiLetters, UiDigits, UiPrintables, UiEditing, UiFunctionKeys, UiNumpad,
     UiModifierKeys
<1> QED
  BY <1>2 DEF HasKey, TranslateKeyCode, Translate

\* What a code is to ImGui, if it is anything.
Named(c) == IF IsPointerCode(c) THEN HasButton(c) ELSE HasKey(c)
Image(c) == IF IsPointerCode(c) THEN <<"button", TranslatePointerButton(c)>> ELSE <<"key", TranslateKeyCode(c)>>

LEMMA ImagesAreOfNamed == \A A \in SUBSET Codes : Images(A) = {Image(c) : c \in {d \in A : Named(d)}}
<1>1. TAKE A \in SUBSET Codes
<1>2. \A c \in A : IsPointerCode(c) => TranslateKeyCode(c) = Unknown
  BY KeysAreOnTheKeyboard DEF IsPointerCode, HasKey
<1>3. \A c \in A : ~IsPointerCode(c) => TranslatePointerButton(c) = -1
  BY DEF IsPointerCode, TranslatePointerButton
<1>4. \A c \in A : IsPointerCode(c) => (HasButton(c) <=> TranslatePointerButton(c) # -1)
  BY DEF HasButton, TranslatePointerButton, IsPointerCode
<1>5. \A c \in A : HasKey(c) <=> TranslateKeyCode(c) # Unknown
  BY DEF HasKey
<1>6. \A x, y : <<"key", x>> # <<"button", y>>
  OBVIOUS
<1>7. ASSUME NEW c \in A, <<"key", TranslateKeyCode(c)>> \notin {<<"key", Unknown>>, <<"button", -1>>}
      PROVE  Named(c) /\ Image(c) = <<"key", TranslateKeyCode(c)>>
  BY <1>2, <1>5, <1>7 DEF Named, Image
<1>8. ASSUME NEW c \in A, <<"button", TranslatePointerButton(c)>> \notin {<<"key", Unknown>>, <<"button", -1>>}
      PROVE  Named(c) /\ Image(c) = <<"button", TranslatePointerButton(c)>>
  BY <1>3, <1>4, <1>8 DEF Named, Image
<1>9. ASSUME NEW c \in A, Named(c) PROVE Image(c) \in Images(A)
  <2>1. CASE IsPointerCode(c)
    <3>1. Image(c) = <<"button", TranslatePointerButton(c)>> /\ TranslatePointerButton(c) # -1
      BY <1>4, <1>9, <2>1 DEF Named, Image
    <3> QED
      BY <1>6, <3>1 DEF Images
  <2>2. CASE ~IsPointerCode(c)
    <3>1. Image(c) = <<"key", TranslateKeyCode(c)>> /\ TranslateKeyCode(c) # Unknown
      BY <1>5, <1>9, <2>2 DEF Named, Image
    <3> QED
      BY <1>6, <3>1 DEF Images
  <2> QED
    BY <2>1, <2>2
<1>10. ASSUME NEW x \in Images(A) PROVE \E c \in A : Named(c) /\ x = Image(c)
  <2>1. x \notin {<<"key", Unknown>>, <<"button", -1>>}
    BY <1>10 DEF Images
  <2>2. \E c \in A : x = <<"key", TranslateKeyCode(c)>> \/ x = <<"button", TranslatePointerButton(c)>>
    BY <1>10 DEF Images
  <2> QED
    BY <1>7, <1>8, <2>1, <2>2
<1> QED
  BY <1>9, <1>10

LEMMA ImagesAreTheirOwn ==
    \A c, d \in Codes : Named(c) /\ Named(d) /\ Image(c) = Image(d) => c = d
<1>1. TAKE c, d \in Codes
<1>2. SUFFICES ASSUME Named(c), Named(d), Image(c) = Image(d) PROVE c = d
  OBVIOUS
<1>3. c \in Int /\ d \in Int
  BY DEF Codes, IsKeyboardCode, IsPointerCode
<1>4. CASE IsPointerCode(c) /\ IsPointerCode(d)
  <2>1. TranslatePointerButton(c) = TranslatePointerButton(d)
    BY <1>2, <1>4 DEF Image
  <2>2. TranslatePointerButton(c) >= 0 /\ TranslatePointerButton(d) >= 0
    BY <1>2, <1>4 DEF Named, HasButton
  <2> QED
    BY <1>3, <2>1, <2>2 DEF TranslatePointerButton
<1>5. CASE ~IsPointerCode(c) /\ ~IsPointerCode(d)
  <2>1. TranslateKeyCode(c) = TranslateKeyCode(d)
    BY <1>2, <1>5 DEF Image
  <2>2. TranslateKeyCode(c) # Unknown
    BY <1>2, <1>5 DEF Named, HasKey
  <2> QED
    BY <1>3, <2>1, <2>2, EachCodeHasItsUiKey
<1>6. (IsPointerCode(c) <=> IsPointerCode(d))
  BY <1>2 DEF Image
<1> QED
  BY <1>4, <1>5, <1>6

Down(map) == {c \in Codes : map[c] = "pressed"}

\* One event has the same effect on both sides.
LEMMA OneEvent ==
    ASSUME NEW map \in Map, NEW e \in Event
    PROVE  /\ Submitted(e) => Taken(Images(Down(map)), AsInput(e)) = Images(Down(Press(map, e)))
           /\ ~Submitted(e) => Images(Down(Press(map, e))) = Images(Down(map))
<1>1. \A c \in Codes : c \in 1 .. 120 \/ c \in 256 .. 263
  BY DEF Codes, IsKeyboardCode, IsPointerCode
<1>2. /\ e.type \in {"pressed", "released", "close", "unfocused"}
      /\ e.type \in {"close", "unfocused"} => e.code = Unknown
      /\ e.code \in Codes \/ (~IsKeyboardCode(e.code) /\ ~IsPointerCode(e.code))
  <2>1. e.type \in {"close", "unfocused"} => e.code = Unknown
    BY DEF Event, AgentEvent, WindowEvent
  <2>2. e.type \in {"pressed", "released", "close", "unfocused"}
    BY DEF Event, AgentEvent, WindowEvent
  <2>3. e.code \in OnKey \cup OnPointerButton \cup {Unknown}
    BY DEF Event, AgentEvent, WindowEvent, Codes
  <2>4. ~IsKeyboardCode(Unknown) /\ ~IsPointerCode(Unknown)
    BY DEF Unknown, IsKeyboardCode, IsPointerCode
  <2> QED
    BY <2>1, <2>2, <2>3, <2>4 DEF Codes
<1>3. Unknown \notin Codes
  BY <1>1 DEF Unknown
<1>4. CASE e.code \notin Codes
  <2>1. Press(map, e) = map
    BY <1>4 DEF Press
  <2>2. ~HasKey(e.code)
    BY <1>2, <1>4, KeysAreOnTheKeyboard DEF IsKeyboardCode
  <2>3. Submitted(e) => e.type = "unfocused"
    BY <1>2, <1>4, <2>2 DEF Submitted
  <2>4. e.type = "unfocused" => Taken(Images(Down(map)), AsInput(e)) = Images(Down(map))
    BY DEF Taken, AsInput, Input
  <2> QED
    BY <2>1, <2>3, <2>4
<1>5. CASE e.code \in Codes
  <2> DEFINE c == e.code
             after == Press(map, e)
             A == Down(map)
             B == Down(after)
  <2>1. e.type \in {"pressed", "released"}
    BY <1>2, <1>3, <1>5
  <2>2. after = [map EXCEPT ![c] = IF e.type = "pressed" THEN "pressed" ELSE "released"]
    BY <1>5 DEF Press
  <2>3. B = IF e.type = "pressed" THEN A \cup {c} ELSE A \ {c}
    BY <1>5, <2>2 DEF Down, Map
  <2>4. Submitted(e) <=> Named(c)
    BY <2>1 DEF Submitted, Named
  <2>5. A \in SUBSET Codes /\ B \in SUBSET Codes
    BY DEF Down
  <2>6. Slot(AsInput(e)) = Image(c) /\ AsInput(e).kind # "focus" /\ AsInput(e).down = (e.type = "pressed")
    BY <2>1 DEF AsInput, Input, Slot, Image
  <2>7. Taken(Images(A), AsInput(e)) =
            IF e.type = "pressed" THEN Images(A) \cup {Image(c)} ELSE Images(A) \ {Image(c)}
    BY <2>6 DEF Taken
  <2>8. /\ Images(A) = {Image(d) : d \in {b \in A : Named(b)}}
        /\ Images(B) = {Image(d) : d \in {b \in B : Named(b)}}
    BY <2>5, ImagesAreOfNamed
  <2> HIDE DEF c, after, A, B
  <2>9. c \in Codes
    BY <1>5 DEF c
  <2>10. CASE ~Named(c)
    <3>1. {b \in B : Named(b)} = {b \in A : Named(b)}
      BY <2>3, <2>10
    <3> QED
      BY <2>4, <2>8, <2>10, <3>1 DEF A, B, after
  <2>11. CASE Named(c) /\ e.type = "pressed"
    <3>1. Images(B) = Images(A) \cup {Image(c)}
      BY <2>3, <2>8, <2>11
    <3> QED
      BY <2>4, <2>7, <2>11, <3>1 DEF A, B, after
  <2>12. CASE Named(c) /\ e.type # "pressed"
    <3>1. \A d \in A : Named(d) => (Image(d) = Image(c) <=> d = c)
      BY <2>5, <2>9, <2>12, ImagesAreTheirOwn
    <3>2. Images(B) = Images(A) \ {Image(c)}
      BY <2>3, <2>8, <2>12, <3>1
    <3> QED
      BY <2>4, <2>7, <2>12, <3>2 DEF A, B, after
  <2> QED
    BY <2>10, <2>11, <2>12
<1> QED
  BY <1>4, <1>5

\* And so have all the events of a frame.
LEMMA AllEvents ==
    ASSUME NEW map \in Map
    PROVE  \A s \in Seq(Event) :
               Settled(Images(Down(map)), SubmitPlatformEvents(s)) = Images(Down(Fold(map, s)))
<1> DEFINE h == Images(Down(map))
           Good == {s \in Seq(Event) : Settled(h, SubmitPlatformEvents(s)) = Images(Down(Fold(map, s)))}
<1>1. <<>> \in Good
  <2>1. <<>> \in Seq(Event)
    OBVIOUS
  <2>2. Settled(h, SubmitPlatformEvents(<<>>)) = h /\ Fold(map, <<>>) = map
    BY SubmitEmpty, SettledEmpty, FoldEmpty, Zenon
  <2> QED
    BY <2>1, <2>2
<1>2. ASSUME NEW u \in Seq(Event), NEW e \in Event, u \in Good PROVE Append(u, e) \in Good
  <2> DEFINE x == SubmitPlatformEvents(u)
             m == Fold(map, u)
  <2>1. Append(u, e) \in Seq(Event)
    OBVIOUS
  <2>2. x \in Seq(UiInput) /\ AsInput(e) \in UiInput
    BY SubmitType DEF UiInput
  <2>3. m \in Map
    BY FoldType
  <2>4. Fold(map, Append(u, e)) = Press(m, e)
    BY FoldAppend
  <2>5. Settled(h, x) = Images(Down(m))
    BY <1>2
  <2> HIDE DEF x, m, h
  <2>6. Settled(h, Append(x, AsInput(e))) = Taken(Settled(h, x), AsInput(e))
    BY <2>2, SettledAppend
  <2>7. SubmitPlatformEvents(Append(u, e)) = IF Submitted(e) THEN Append(x, AsInput(e)) ELSE x
    BY SubmitAppend DEF x
  <2>8. Settled(h, SubmitPlatformEvents(Append(u, e))) = Images(Down(Press(m, e)))
    BY <2>3, <2>5, <2>6, <2>7, OneEvent
  <2> QED
    BY <2>1, <2>4, <2>8 DEF h
<1> HIDE DEF Good
<1>3. \A s \in Seq(Event) : s \in Good
  BY <1>1, <1>2, InductionByAppend
<1> QED
  BY <1>3 DEF Good

LEMMA FrameTakesAFewOrAll ==
    ASSUME NEW h, NEW inputs, Len(inputs) \in Nat, DOMAIN inputs = 1 .. Len(inputs)
    PROVE  TakenInOneFrame(h, inputs) \in 0 .. Len(inputs)
<1> DEFINE after == HeldAfter(h, inputs)
           changes == {n \in DOMAIN inputs : after[n] # after[n - 1]}
           late == {n \in changes : \E m \in changes :
                       /\ m < n
                       /\ \/ Slot(inputs[m]) = Slot(inputs[n])
                          \/ inputs[m].kind = "button" /\ inputs[n].kind = "key"}
           first == CHOOSE n \in late : \A m \in late : n <= m
<1>1. TakenInOneFrame(h, inputs) = IF late = {} THEN Len(inputs) ELSE first - 1
  BY DEF TakenInOneFrame
<1>2. late \in SUBSET (1 .. Len(inputs))
  OBVIOUS
<1> HIDE DEF late
<1>3. late # {} => first \in 1 .. Len(inputs)
  <2>1. SUFFICES ASSUME late # {} PROVE first \in 1 .. Len(inputs)
    OBVIOUS
  <2>2. \E n \in late : \A m \in late : n <= m
    <3>1. late \in SUBSET Nat
      BY <1>2
    <3> QED
      BY <2>1, <3>1, LeastElement
  <2>3. first \in late
    BY <2>2
  <2> QED
    BY <1>2, <2>3
<1> HIDE DEF first
<1> QED
  BY <1>1, <1>3

LEMMA CutInTwo ==
    ASSUME NEW T, NEW s \in Seq(T), NEW n \in 0 .. Len(s)
    PROVE  LET first == SubSeq(s, 1, n)
               rest == SubSeq(s, n + 1, Len(s))
           IN  /\ first \in Seq(T) /\ rest \in Seq(T) /\ first \o rest = s
               /\ Len(first) = n /\ \A i \in 1 .. n : first[i] = s[i]
               /\ \A i \in DOMAIN rest : \E j \in DOMAIN s : rest[i] = s[j]
<1> DEFINE first == SubSeq(s, 1, n)
           rest == SubSeq(s, n + 1, Len(s))
<1>1. Len(s) \in Nat /\ DOMAIN s = 1 .. Len(s) /\ n \in Nat /\ n <= Len(s)
  OBVIOUS
<1>2. first \in Seq(T) /\ Len(first) = n /\ \A i \in 1 .. n : first[i] = s[i]
  BY <1>1
<1>3. rest \in Seq(T) /\ \A i \in DOMAIN rest : \E j \in DOMAIN s : rest[i] = s[j]
  <2>1. \A i \in n + 1 .. Len(s) : s[i] \in T
    BY <1>1
  <2>2. /\ rest \in Seq(T) /\ Len(rest) = IF n + 1 <= Len(s) THEN Len(s) - (n + 1) + 1 ELSE 0
        /\ \A i \in 1 .. Len(s) - (n + 1) + 1 : rest[i] = s[n + 1 + i - 1]
    BY <1>1, <2>1, SubSeqProperties
  <2> HIDE DEF rest
  <2>3. \A i \in DOMAIN rest : \E j \in DOMAIN s : rest[i] = s[j]
    <3>1. TAKE i \in DOMAIN rest
    <3>2. i \in 1 .. Len(rest)
      BY <2>2
    <3>3. i \in 1 .. Len(s) - (n + 1) + 1 /\ n + 1 + i - 1 \in DOMAIN s
      BY <1>1, <2>2, <3>2
    <3> QED
      BY <2>2, <3>3
  <2> QED
    BY <2>2, <2>3
<1>4. first \o rest = s
  <2>1. 1 \in 1 .. Len(s) + 1 /\ n \in 1 - 1 .. Len(s) /\ Len(s) \in n .. Len(s)
    BY <1>1
  <2>2. first \o rest = SubSeq(s, 1, Len(s))
    BY <2>1, ConcatAdjacentSubSeq
  <2> QED
    BY <2>2, SubSeqFull
<1> QED
  BY <1>2, <1>3, <1>4

\* A frame of ImGui brings its queue no nearer to holding something, and no
\* further from it either if no loss of focus is among its inputs.
LEMMA FrameSettlesNoMore ==
    ASSUME NEW before, before.inputs \in Seq(UiInput), NEW after \in NewFrame(before)
    PROVE  /\ after.inputs \in Seq(UiInput) /\ DOMAIN after = {"held", "inputs"}
           /\ Settled(after.held, after.inputs) \subseteq Settled(before.held, before.inputs)
           /\ (\A i \in DOMAIN before.inputs : before.inputs[i].kind # "focus") =>
                  /\ Settled(after.held, after.inputs) = Settled(before.held, before.inputs)
                  /\ \A i \in DOMAIN after.inputs : after.inputs[i].kind # "focus"
<1> DEFINE s == before.inputs
           h == before.held
           n == TakenInOneFrame(h, s)
           taken == SubSeq(s, 1, n)
           rest == SubSeq(s, n + 1, Len(s))
           had == HeldAfter(h, s)[n]
           unfocused == \E i \in 1 .. n : s[i].kind = "focus"
<1>1. /\ after.inputs = rest /\ DOMAIN after = {"held", "inputs"}
      /\ after.held \subseteq had /\ (~unfocused => after.held = had)
  BY DEF NewFrame
<1>2. Len(s) \in Nat /\ DOMAIN s = 1 .. Len(s) /\ s \in Seq(UiInput)
  OBVIOUS
<1>3. n \in 0 .. Len(s)
  BY <1>2, FrameTakesAFewOrAll
<1> HIDE DEF n, s
<1>4. /\ taken \in Seq(UiInput) /\ rest \in Seq(UiInput) /\ taken \o rest = s
      /\ Len(taken) = n /\ \A i \in 1 .. n : taken[i] = s[i]
      /\ \A i \in DOMAIN rest : \E j \in DOMAIN s : rest[i] = s[j]
  BY <1>2, <1>3, CutInTwo
<1> HIDE DEF taken, rest
<1>5. had = Settled(h, taken)
  <2>1. HeldAfter(h, s)[n] = HeldAfter(h, taken)[n]
    <3>1. n \in Nat /\ n <= Len(s) /\ n <= Len(taken) /\ Len(taken) \in Nat
      BY <1>2, <1>3, <1>4
    <3>2. \A i \in 1 .. n : s[i] = taken[i]
      BY <1>4
    <3> QED
      BY <1>2, <3>1, <3>2, HeldSoFar
  <2> QED
    BY <1>4, <2>1 DEF Settled
<1>6. Settled(had, rest) = Settled(h, s)
  <2>1. \A t \in Seq(UiInput) : Settled(h, taken \o t) = Settled(Settled(h, taken), t)
    BY <1>4, SettledConcat
  <2> QED
    BY <1>4, <1>5, <2>1
<1>7. Settled(after.held, rest) \subseteq Settled(had, rest)
  <2> DEFINE less == after.held
  <2>1. less \subseteq had
    BY <1>1
  <2> HIDE DEF less, had
  <2>2. \A t \in Seq(UiInput) : Settled(less, t) \subseteq Settled(had, t)
    BY <2>1, SettledGrows
  <2> QED
    BY <1>4, <2>2 DEF less
<1>8. ASSUME \A i \in DOMAIN s : s[i].kind # "focus"
      PROVE  ~unfocused /\ \A i \in DOMAIN rest : rest[i].kind # "focus"
  <2>1. ~unfocused
    BY <1>2, <1>3, <1>8
  <2>2. \A i \in DOMAIN rest : rest[i].kind # "focus"
    BY <1>4, <1>8
  <2> QED
    BY <2>1, <2>2
<1> QED
  BY <1>1, <1>4, <1>6, <1>7, <1>8 DEF s

\* The map that ImGui has been told of so far.
MapShown == IF stage \in {"frame", "app", "systems"} THEN Fold(current, record) ELSE current

FocusIsKept == \A i \in DOMAIN seen : seen[i].type # "unfocused"

UiFollowsTheMap ==
    /\ ui.inputs \in Seq(UiInput) /\ DOMAIN ui = {"held", "inputs"}
    /\ windowServer =>
           /\ Settled(ui.held, ui.inputs) \subseteq Images(Down(MapShown))
           /\ FocusIsKept =>
                  /\ Settled(ui.held, ui.inputs) = Images(Down(MapShown))
                  /\ \A i \in DOMAIN ui.inputs : ui.inputs[i].kind # "focus"

LEMMA UiFollowsTheMapHolds == Spec => []UiFollowsTheMap
<1>1. Init => UiFollowsTheMap
  <2> SUFFICES ASSUME Init PROVE UiFollowsTheMap
    OBVIOUS
  <2>1. ui = [held |-> {}, inputs |-> <<>>] /\ stage = "clear" /\ current = Released
    BY DEF Init, Released
  <2>2. Settled({}, <<>>) = {}
    BY SettledEmpty
  <2>3. Images(Down(Released)) = {}
    BY DEF Images, Down, Released
  <2>4. ui.held = {} /\ ui.inputs = <<>> /\ DOMAIN ui = {"held", "inputs"} /\ <<>> \in Seq(UiInput)
    BY <2>1
  <2>5. MapShown = Released /\ DOMAIN <<>> = {}
    BY <2>1 DEF MapShown
  <2>6. Settled(ui.held, ui.inputs) = Images(Down(MapShown))
    BY <2>2, <2>3, <2>4, <2>5
  <2> QED
    BY <2>4, <2>5, <2>6 DEF UiFollowsTheMap
<1>2. TypeOK /\ MapIsTheFold /\ UiFollowsTheMap /\ [Next]_vars => UiFollowsTheMap'
  <2> SUFFICES ASSUME TypeOK, MapIsTheFold, UiFollowsTheMap, [Next]_vars PROVE UiFollowsTheMap'
    OBVIOUS
  <2>1. ASSUME UNCHANGED <<ui, windowServer, MapShown, seen>> PROVE UiFollowsTheMap'
    BY <2>1 DEF UiFollowsTheMap, FocusIsKept
  <2>2. ASSUME NEW event \in Event, Produce(event) PROVE UNCHANGED <<ui, windowServer, MapShown, seen>>
    BY <2>2 DEF Produce, inputVars, MapShown
  <2>3. CallbackOutsidePoll \/ UNCHANGED vars => UNCHANGED <<ui, windowServer, MapShown, seen>>
    BY DEF CallbackOutsidePoll, vars, inputVars, MapShown
  <2>4. Clear \/ Pump \/ Drain \/ OnStep => UNCHANGED <<ui, windowServer, MapShown, seen>>
    BY DEF Clear, Pump, Drain, OnStep, inputVars, MapShown
  <2>5. CASE Consume
    <3>1. UNCHANGED <<ui, windowServer, MapShown>> /\ seen' = seen \o record
      BY <2>5 DEF Consume, inputVars, MapShown
    <3>2. seen \in Seq(Event) /\ record \in Seq(Event)
      BY DEF TypeOK
    <3>3. \A i \in DOMAIN seen : i \in DOMAIN (seen \o record) /\ (seen \o record)[i] = seen[i]
      BY <3>2
    <3>4. FocusIsKept' => FocusIsKept
      BY <3>1, <3>3 DEF FocusIsKept
    <3> QED
      BY <3>1, <3>4 DEF UiFollowsTheMap
  <2>6. CASE BeginFrame
    <3>1. CASE ~windowServer
      BY <2>6, <3>1 DEF BeginFrame, UiFollowsTheMap
    <3>2. CASE windowServer
      <4> DEFINE new == SubmitPlatformEvents(record)
                 s == ui.inputs
      <4>1. /\ ui' = [ui EXCEPT !.inputs = s \o new]
            /\ stage = "ui" /\ stage' = "frame" /\ UNCHANGED <<windowServer, record, current, seen>>
        BY <2>6, <3>2 DEF BeginFrame
      <4>2. ui'.inputs = s \o new /\ ui'.held = ui.held /\ DOMAIN ui' = {"held", "inputs"}
        BY <4>1 DEF UiFollowsTheMap
      <4>3. record \in Seq(Event) /\ current \in Map /\ s \in Seq(UiInput) /\ new \in Seq(UiInput)
        BY SubmitType DEF TypeOK, UiFollowsTheMap, Map
      <4>4. MapShown = current /\ MapShown' = Fold(current, record)
        BY <4>1 DEF MapShown
      <4>5. Settled(ui.held, s \o new) = Settled(Settled(ui.held, s), new)
        <5> HIDE DEF s, new
        <5>1. \A t \in Seq(UiInput) : Settled(ui.held, s \o t) = Settled(Settled(ui.held, s), t)
          BY <4>3, SettledConcat
        <5> QED
          BY <4>3, <5>1
      <4>6. Settled(Images(Down(current)), new) = Images(Down(Fold(current, record)))
        BY <4>3, AllEvents
      <4>7. Settled(Settled(ui.held, s), new) \subseteq Settled(Images(Down(current)), new)
        <5> DEFINE less == Settled(ui.held, s)
                   more == Images(Down(current))
        <5>1. less \subseteq more
          BY <3>2, <4>4 DEF UiFollowsTheMap
        <5> HIDE DEF less, more, new
        <5>2. \A t \in Seq(UiInput) : Settled(less, t) \subseteq Settled(more, t)
          BY <5>1, SettledGrows
        <5> QED
          BY <4>3, <5>2 DEF less, more
      <4>8. ASSUME FocusIsKept
            PROVE  /\ Settled(ui.held, s) = Images(Down(current))
                   /\ \A i \in DOMAIN (s \o new) : (s \o new)[i].kind # "focus"
        <5>1. /\ Settled(ui.held, s) = Images(Down(current))
              /\ \A i \in DOMAIN s : s[i].kind # "focus"
          BY <3>2, <4>4, <4>8 DEF UiFollowsTheMap
        <5>2. \A i \in DOMAIN record : record[i].type # "unfocused"
          BY <4>1, <4>8 DEF MapIsTheFold, FocusIsKept
        <5>3. \A i \in DOMAIN new : new[i].kind # "focus"
          BY <4>3, <5>2, SubmitsNoFocus
        <5> HIDE DEF s, new
        <5>4. \A i \in DOMAIN (s \o new) :
                  \/ i \in DOMAIN s /\ (s \o new)[i] = s[i]
                  \/ i - Len(s) \in DOMAIN new /\ (s \o new)[i] = new[i - Len(s)]
          BY <4>3
        <5>5. \A i \in DOMAIN (s \o new) : (s \o new)[i].kind # "focus"
          BY <5>1, <5>3, <5>4
        <5> QED
          BY <5>1, <5>5
      <4>9. FocusIsKept' = FocusIsKept /\ s \o new \in Seq(UiInput)
        BY <4>1, <4>3 DEF FocusIsKept
      <4> HIDE DEF s, new
      <4> QED
        BY <4>2, <4>4, <4>5, <4>6, <4>7, <4>8, <4>9 DEF UiFollowsTheMap
    <3> QED
      BY <3>1, <3>2
  <2>7. CASE UiFrame
    <3>1. ui' \in NewFrame(ui) /\ UNCHANGED <<windowServer, MapShown, seen>>
      BY <2>7 DEF UiFrame, MapShown
    <3>2. ui.inputs \in Seq(UiInput)
      BY DEF UiFollowsTheMap
    <3>3. /\ ui'.inputs \in Seq(UiInput) /\ DOMAIN ui' = {"held", "inputs"}
          /\ Settled(ui'.held, ui'.inputs) \subseteq Settled(ui.held, ui.inputs)
          /\ (\A i \in DOMAIN ui.inputs : ui.inputs[i].kind # "focus") =>
                 /\ Settled(ui'.held, ui'.inputs) = Settled(ui.held, ui.inputs)
                 /\ \A i \in DOMAIN ui'.inputs : ui'.inputs[i].kind # "focus"
      BY <3>1, <3>2, FrameSettlesNoMore
    <3> QED
      BY <3>1, <3>3 DEF UiFollowsTheMap, FocusIsKept
  <2>8. CASE SystemsStep
    <3>1. stage = "systems" /\ stage' = "clear" /\ current' = Fold(current, copied)
          /\ UNCHANGED <<ui, windowServer, seen>>
      BY <2>8 DEF SystemsStep
    <3>2. MapShown' = MapShown
      BY <3>1 DEF MapShown, MapIsTheFold
    <3> QED
      BY <2>1, <3>1, <3>2
  <2> QED
    BY <2>1, <2>2, <2>3, <2>4, <2>5, <2>6, <2>7, <2>8 DEF Next, RunStep
<1> QED
  BY <1>1, <1>2, TypeCorrect, MapIsTheFoldHolds, PTL DEF Spec

\* What the key map has as pressed, somebody holds: the agent that pressed it
\* last, or the window, which lets go of everything with its focus.  And once
\* ImGui has worked off its queue it holds what the key map does, but for what
\* a loss of focus made it drop.  For any keys and buttons, the fifth of ImGui's
\* and those beyond included, and any number of events.
THEOREM NoKeySticks == Spec => []NothingSticks
<1>1. TypeOK /\ MapIsTheFold /\ UiFollowsTheMap /\ LetsGo(Given("window")) => NothingSticks
  <2> SUFFICES ASSUME TypeOK, MapIsTheFold, UiFollowsTheMap, LetsGo(Given("window")), stage = "clear"
               PROVE  LET pressed == {c \in Codes : current[c] = "pressed"}
                          settled == HeldAfter(ui.held, ui.inputs)[Len(ui.inputs)]
                      IN  /\ \A c \in pressed : HeldBySomebody(c)
                          /\ windowServer =>
                               /\ settled \subseteq Images(pressed)
                               /\ (\A i \in DOMAIN seen : seen[i].type # "unfocused") => settled = Images(pressed)
    BY DEF NothingSticks
  <2>1. ASSUME NEW c \in Codes, current[c] = "pressed" PROVE HeldBySomebody(c)
    <3>1. current = Fold(Released, seen) /\ seen \in Seq(Event)
      BY DEF MapIsTheFold, MapToBe, TypeOK
    <3>2. PICK p \in Producer : PressStands(c, By(p, seen), {})
      BY <2>1, <3>1, PressedIsStanding
    <3>3. CASE p = "window"
      <4>1. Given("window") = By("window", seen)
        BY <3>1 DEF Given, Unseen
      <4>2. By("window", seen) \in Seq(Event)
        BY <3>1, ByType
      <4>3. PressStands(c, By("window", seen), {"unfocused"})
        BY <3>2, <3>3, <4>1, <4>2, StandsForGood
      <4> QED
        BY <4>3 DEF HeldBySomebody, Producer
    <3>4. CASE p # "window"
      BY <3>2, <3>4 DEF HeldBySomebody
    <3> QED
      BY <3>3, <3>4
  <2>2. MapShown = current
    BY DEF MapShown
  <2> QED
    BY <2>1, <2>2 DEF UiFollowsTheMap, FocusIsKept, Settled, Down
<1> QED
  BY <1>1, TypeCorrect, MapIsTheFoldHolds, UiFollowsTheMapHolds, FocusIsLetGo, PTL
=============================================================================
