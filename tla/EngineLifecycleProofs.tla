------------------------ MODULE EngineLifecycleProofs ------------------------
(***************************************************************************)
(* The order in which the engine and the renderer construct, use and       *)
(* destroy what they own, for any machines, sizes of the window, number of *)
(* frames and number of failing calls.  The program is data, so the proof  *)
(* is a typing of programs: a mode says which names are bound, whether the *)
(* GPU may be at work and whether the run goes on, and a program is well   *)
(* typed when each step is allowed in the mode it is met in, whichever way *)
(* the steps before it went.                                               *)
(***************************************************************************)
EXTENDS EngineLifecycle, TLAPS, FiniteSetTheorems, SequenceTheorems, WellFoundedInduction

-----------------------------------------------------------------------------
(* Induction over numbers: what is shown of every number is given as the   *)
(* set of those it holds for, which the provers can put in place of a      *)
(* variable, unlike an operator.                                           *)

\* A set of natural numbers that is not empty has a least one.
LEMMA LeastElement ==
    ASSUME NEW S \in SUBSET Nat, S # {}
    PROVE  \E least \in S : \A n \in S : least <= n
<1> DEFINE Below == {0 .. n : n \in S}
<1>1. Below \subseteq FiniteSubsetsOf(Nat)
  <2>1. SUFFICES ASSUME NEW n \in S PROVE 0 .. n \in FiniteSubsetsOf(Nat)
    OBVIOUS
  <2>2. n \in Int
    OBVIOUS
  <2>3. IsFiniteSet(0 .. n)
    BY <2>2, FS_Interval
  <2>4. 0 .. n \subseteq Nat
    BY <2>2
  <2>5. QED
    BY <2>3, <2>4 DEF FiniteSubsetsOf
<1>2. PICK X \in Below : \A Y \in Below : <<Y, X>> \notin StrictSubsetOrdering(Nat)
  <2>1. Below # {}
    OBVIOUS
  <2>2. IsWellFoundedOn(StrictSubsetOrdering(Nat), FiniteSubsetsOf(Nat))
    BY FS_StrictSubsetOrderingWellFounded
  <2> HIDE DEF Below
  <2>3. QED
    BY <1>1, <2>1, <2>2, WFMin, Zenon
<1>3. PICK least \in S : X = 0 .. least
  OBVIOUS
<1>4. ASSUME NEW n \in S, n < least PROVE FALSE
  <2>1. 0 .. n \subseteq 0 .. least /\ least \notin 0 .. n /\ least \in 0 .. least
    BY <1>4
  <2>2. 0 .. n \in SUBSET Nat /\ 0 .. least \in SUBSET Nat
    OBVIOUS
  <2>3. <<0 .. n, 0 .. least>> \in StrictSubsetOrdering(Nat)
    BY <2>1, <2>2 DEF StrictSubsetOrdering
  <2>4. QED
    BY <1>2, <1>3, <2>3
<1>5. QED
  BY <1>3, <1>4

\* What holds of 0, and of the next number wherever it holds, holds up to k.
LEMMA InductionUpTo ==
    ASSUME NEW k \in Nat, NEW Good, 0 \in Good,
           \A n \in 1 .. k : n - 1 \in Good => n \in Good
    PROVE  \A n \in 0 .. k : n \in Good
<1> DEFINE Bad == {n \in 0 .. k : n \notin Good}
<1>1. SUFFICES ASSUME Bad # {} PROVE FALSE
  OBVIOUS
<1>2. PICK m \in Bad : \A n \in Bad : m <= n
  <2>1. Bad \in SUBSET Nat
    OBVIOUS
  <2> HIDE DEF Bad
  <2>2. QED
    BY <1>1, <2>1, LeastElement
<1>3. m # 0 /\ m \in 1 .. k /\ m - 1 \in 0 .. k /\ ~(m <= m - 1)
  BY <1>2
<1>4. m - 1 \in Good
  BY <1>2, <1>3
<1> QED
  BY <1>2, <1>3, <1>4

-----------------------------------------------------------------------------
(* The typing of programs.                                                 *)


Names == DOMAIN Needs

\* gpu is "idle" with no work in flight, "busy" with none on a local, and "own"
\* when it may be.
Modes == [locals : SUBSET Names, members : SUBSET Names,
          gpu : {"idle", "busy", "own"}, running : BOOLEAN]

Mode(L, M, gpu, r) == [locals |-> L, members |-> M, gpu |-> gpu, running |-> r]

\* What submitted work may refer to.
GpuNames == {"commandBuffers", "swapChain", "swapViews", "msaa", "msaaView", "depth", "depthView",
             "pipelineLayout", "pipeline", "descriptorSets", "descriptorPool", "uniforms",
             "texture", "textureView", "sampler", "presentComplete", "renderFinished", "fences",
             "backend", "vertices", "indices", "single", "staging", "readback"}

\* Nothing is made from these.
Leaves == {"single", "staging", "readback", "shaders", "uiFrame"}

\* What may be made, released or moved over its member, with locals L and
\* members M.
MayMake(L, M, o) ==
    /\ o \in Names \ L
    /\ Needs[o] \subseteq L \cup M
    /\ o \in M => \A x \in L : o \notin Needs[x]

MayRelease(L, M, gpu, o) ==
    /\ o \in Names
    /\ o \in GpuNames => gpu = "idle"
    /\ o \in M => \A x \in L \cup M : o \notin Needs[x]

MayReplace(L, M, gpu, o) ==
    /\ o \in L /\ gpu = "idle"
    /\ Needs[o] \cap L = {}
    /\ \A x \in M : o \notin Needs[x]

Quiet == {"call", "image", "transition", "use", "present", "chain", "choose", "catch", "stop"}

\* Where the chain is replaced no picture is being read back.
Allowed(m, s) ==
    /\ m.gpu = "own" => s.op = "wait"
    /\ \/ s.op = "make" /\ \E o : s.on = {o} /\ MayMake(m.locals, m.members, o)
       \/ s.op = "drop" /\ \E o \in Leaves \cap m.locals : s.on = {o}
       \/ s.op = "release" /\ \E o : s.on = {o} /\ MayRelease(m.locals, m.members, m.gpu, o)
       \/ s.op = "replace" /\ \E o : s.on = {o} /\ MayReplace(m.locals, m.members, m.gpu, o)
       \/ s.op = "adopt" /\ s.on = {} /\ m.locals \cap m.members = {}
       \/ s.op = "submit" /\ s.on \subseteq (m.locals \cup m.members) \cap GpuNames
       \/ /\ s.op \in Quiet \cup {"wait"} /\ s.on \subseteq m.locals \cup m.members
          /\ s.op = "chain" => "readback" \notin m.locals

\* The mode after a step that went well, and after one that failed and the
\* locals' end.
After(m, s) ==
    [locals  |-> IF s.op = "make" THEN m.locals \cup s.on
                 ELSE IF s.op \in {"drop", "replace"} THEN m.locals \ s.on
                 ELSE IF s.op = "adopt" THEN {} ELSE m.locals,
     members |-> IF s.op = "release" THEN m.members \ s.on
                 ELSE IF s.op = "replace" THEN m.members \cup s.on
                 ELSE IF s.op = "adopt" THEN m.members \cup m.locals ELSE m.members,
     gpu     |-> IF s.op = "wait" THEN "idle"
                 ELSE IF s.op = "submit" THEN IF m.locals = {} THEN "busy" ELSE "own"
                 ELSE m.gpu,
     running |-> IF s.op = "stop" THEN FALSE ELSE m.running]

Failed(m) == Mode({}, m.members, "busy", m.running)

\* What is allowed with the GPU at work is allowed without.
Idle(m) == Mode(m.locals, m.members, "idle", m.running)

\* A failed wait means a lost device, which works no more.
Fallen(m, s) == IF s.op = "wait" THEN Idle(Failed(m)) ELSE Failed(m)

IsProgram(p) == \E T : p \in Seq(T)

\* Where p goes on when a step before its first catch fails.
Caught(p, handled) ==
    \E i \in DOMAIN p :
        /\ p[i].op = "catch" /\ \A j \in 1 .. i - 1 : p[j].op # "catch"
        /\ handled = p[i].with \o SubSeq(p, i + 1, Len(p))

\* In mode m p's next step is allowed, or p is at an end, and whatever the step
\* comes to is in S.
Stays(Ends, S, m, p) ==
    /\ m \in Modes /\ IsProgram(p)
    /\ p = <<>> => m \in Ends
    /\ p # <<>> =>
         LET s == Head(p) IN
         /\ Allowed(m, s)
         /\ s.op = "choose" => \A i \in DOMAIN s.with : <<m, s.with[i] \o Tail(p)>> \in S
         /\ s.op # "choose" /\ FALSE \in s.fails => <<After(m, s), Tail(p)>> \in S
         /\ TRUE \in s.fails => \E handled : Caught(p, handled) /\ <<Fallen(m, s), handled>> \in S

Closed(Ends, S) == \A m, p : <<m, p>> \in S => Stays(Ends, S, m, p)

\* p never goes wrong from m on, and ends in Ends.
Typed(Ends, m, p) == \E S : Closed(Ends, S) /\ <<m, p>> \in S

-----------------------------------------------------------------------------
(* Programs.                                                               *)

LEMMA ConcatIsProgram ==
    ASSUME NEW p, NEW q, IsProgram(p), IsProgram(q)
    PROVE  /\ IsProgram(p \o q)
           /\ \E T : p \in Seq(T) /\ q \in Seq(T)
<1>1. PICK T : p \in Seq(T)
  BY DEF IsProgram
<1>2. PICK U : q \in Seq(U)
  BY DEF IsProgram
<1>3. p \in Seq(T \cup U) /\ q \in Seq(T \cup U)
  BY <1>1, <1>2
<1>4. p \o q \in Seq(T \cup U)
  BY <1>3
<1> QED
  BY <1>3, <1>4 DEF IsProgram

LEMMA ProgramsAssociate ==
    ASSUME NEW p, NEW q, NEW r, IsProgram(p), IsProgram(q), IsProgram(r)
    PROVE  (p \o q) \o r = p \o (q \o r)
<1>1. PICK T : p \in Seq(T)
  BY DEF IsProgram
<1>2. PICK U : q \in Seq(U)
  BY DEF IsProgram
<1>3. PICK V : r \in Seq(V)
  BY DEF IsProgram
<1> DEFINE W == T \cup U \cup V
<1>4. p \in Seq(W) /\ q \in Seq(W) /\ r \in Seq(W)
  BY <1>1, <1>2, <1>3
<1> HIDE DEF W
<1> QED
  BY <1>4, ConcatAssociative

LEMMA StepFirst ==
    ASSUME NEW s, NEW p, IsProgram(p)
    PROVE  /\ IsProgram(<<s>>) /\ IsProgram(<<s>> \o p)
           /\ <<s>> \o p # <<>> /\ Head(<<s>> \o p) = s /\ Tail(<<s>> \o p) = p
<1>1. PICK T : p \in Seq(T)
  BY DEF IsProgram
<1> DEFINE W == T \cup {s}
<1>2. p \in Seq(W) /\ <<s>> \in Seq(W)
  BY <1>1
<1>3. <<s>> \o p \in Seq(W) /\ Len(<<s>> \o p) = Len(p) + 1 /\ Len(p) \in Nat
  BY <1>2
<1>4. <<s>> \o p # <<>> /\ Head(<<s>> \o p) = s
  BY <1>2, <1>3
<1>5. Tail(<<s>> \o p) = p
  <2>1. Tail(<<s>> \o p) \in Seq(W) /\ Len(Tail(<<s>> \o p)) = Len(p)
    BY <1>3, <1>4, HeadTailProperties
  <2>2. \A i \in 1 .. Len(p) : Tail(<<s>> \o p)[i] = p[i]
    BY <1>2, <1>3, <1>4, HeadTailProperties
  <2> QED
    BY <1>2, <2>1, <2>2, SeqEqual
<1>6. IsProgram(<<s>>) /\ IsProgram(<<s>> \o p)
  BY <1>2, <1>3 DEF IsProgram
<1> QED
  BY <1>4, <1>5, <1>6

LEMMA EndOfConcat ==
    ASSUME NEW T, NEW p \in Seq(T), NEW q \in Seq(T), NEW i \in 1 .. Len(q)
    PROVE  SubSeq(p \o q, Len(p) + i + 1, Len(p \o q)) = SubSeq(q, i + 1, Len(q))
<1> DEFINE first == Len(p) + i + 1
           last == Len(p) + Len(q)
<1>1. Len(p) \in Nat /\ Len(q) \in Nat /\ Len(p \o q) = last
  OBVIOUS
<1>2. first - Len(p) = i + 1 /\ last - Len(p) = Len(q) /\ first \in Int /\ last \in Int
  BY <1>1
<1>3. CASE i = Len(q)
  <2>1. last < first /\ Len(q) < i + 1
    BY <1>1, <1>3
  <2>2. SubSeq(p \o q, first, last) = <<>>
    BY <1>2, <2>1, SubSeqEmpty
  <2>3. SubSeq(q, i + 1, Len(q)) = <<>>
    BY <1>1, <2>1, SubSeqEmpty
  <2> QED
    BY <1>1, <2>2, <2>3
<1>4. CASE i # Len(q)
  <2>1. first \in Len(p) + 1 .. Len(p) + Len(q) /\ last \in Len(p) + 1 .. Len(p) + Len(q)
    BY <1>1, <1>4
  <2> HIDE DEF first, last
  <2>2. SubSeq(p \o q, first, last) = SubSeq(q, first - Len(p), last - Len(p))
    BY <2>1, SubSeqOfConcat2
  <2>3. SubSeq(p \o q, first, last) = SubSeq(q, i + 1, Len(q))
    BY <1>2, <2>2
  <2> QED
    BY <1>1, <2>3 DEF first
<1> QED
  BY <1>3, <1>4

LEMMA CaughtLater ==
    ASSUME NEW p, NEW q, NEW handled, IsProgram(p), IsProgram(q), Caught(q, handled),
           \A i \in DOMAIN p : p[i].op # "catch"
    PROVE  Caught(p \o q, handled)
<1>1. PICK T : p \in Seq(T) /\ q \in Seq(T)
  BY ConcatIsProgram
<1>2. PICK i \in DOMAIN q :
          /\ q[i].op = "catch" /\ \A j \in 1 .. i - 1 : q[j].op # "catch"
          /\ handled = q[i].with \o SubSeq(q, i + 1, Len(q))
  BY DEF Caught
<1> DEFINE r == p \o q
           k == Len(p) + i
<1>3. /\ r \in Seq(T) /\ Len(r) = Len(p) + Len(q) /\ Len(p) \in Nat /\ Len(q) \in Nat
      /\ \A j \in 1 .. Len(r) : r[j] = IF j <= Len(p) THEN p[j] ELSE q[j - Len(p)]
  BY <1>1
<1>4. i \in 1 .. Len(q) /\ DOMAIN p = 1 .. Len(p)
  BY <1>1, <1>2
<1>5. k \in 1 .. Len(r) /\ r[k] = q[i] /\ DOMAIN r = 1 .. Len(r)
  BY <1>3, <1>4
<1>6. \A j \in 1 .. k - 1 : r[j].op # "catch"
  <2>1. TAKE j \in 1 .. k - 1
  <2>2. CASE j <= Len(p)
    <3>1. r[j] = p[j] /\ j \in DOMAIN p
      BY <1>3, <1>4, <2>2
    <3> QED
      BY <3>1
  <2>3. CASE ~(j <= Len(p))
    <3>1. r[j] = q[j - Len(p)] /\ j - Len(p) \in 1 .. i - 1
      BY <1>3, <1>4, <2>3
    <3> QED
      BY <1>2, <3>1
  <2> QED
    BY <2>2, <2>3
<1>7. SubSeq(r, k + 1, Len(r)) = SubSeq(q, i + 1, Len(q))
  BY <1>1, <1>4, EndOfConcat
<1> QED
  BY <1>2, <1>5, <1>6, <1>7 DEF Caught

LEMMA CaughtHere ==
    ASSUME NEW s, s.op = "catch", NEW p, IsProgram(p)
    PROVE  Caught(<<s>> \o p, s.with \o p)
<1> DEFINE r == <<s>> \o p
<1>1. IsProgram(r) /\ r # <<>> /\ Head(r) = s /\ Tail(r) = p
  BY StepFirst
<1>2. PICK T : r \in Seq(T)
  BY <1>1 DEF IsProgram
<1>3. SubSeq(r, 2, Len(r)) = p
  BY <1>1, <1>2, TailIsSubSeq
<1>4. r[1] = s /\ 1 \in DOMAIN r
  <2> HIDE DEF r
  <2> QED
    BY <1>1, <1>2
<1> HIDE DEF r
<1>5. r[1].op = "catch" /\ s.with \o p = r[1].with \o SubSeq(r, 1 + 1, Len(r))
  <2>1. 2 = 1 + 1
    OBVIOUS
  <2>2. SubSeq(r, 1 + 1, Len(r)) = p
    BY <1>3, <2>1, Zenon
  <2> QED
    BY <1>4, <2>2, Zenon
<1>6. \A j \in 1 .. 1 - 1 : r[j].op # "catch"
  OBVIOUS
<1>7. Caught(r, s.with \o p)
  BY <1>4, <1>5, <1>6 DEF Caught
<1> QED
  BY <1>7 DEF r

-----------------------------------------------------------------------------
(* Typing.                                                                 *)

LEMMA StaysInMore ==
    ASSUME NEW Ends, NEW S, NEW U, NEW m, NEW p, Closed(Ends, S), S \subseteq U, <<m, p>> \in S
    PROVE  Stays(Ends, U, m, p)
<1>1. Stays(Ends, S, m, p)
  BY DEF Closed
<1> QED
  BY <1>1 DEF Stays

LEMMA ClosedUnion ==
    ASSUME NEW Ends, NEW S, NEW T, Closed(Ends, S), Closed(Ends, T)
    PROVE  Closed(Ends, S \cup T)
<1> SUFFICES ASSUME NEW m, NEW p, <<m, p>> \in S \cup T PROVE Stays(Ends, S \cup T, m, p)
  BY DEF Closed
<1>1. S \subseteq S \cup T /\ T \subseteq S \cup T
  OBVIOUS
<1> QED
  BY <1>1, StaysInMore

\* A program of one more step, when that step is allowed and both its outcomes
\* are typed.
LEMMA TypedStep ==
    ASSUME NEW Ends, NEW m \in Modes, NEW s, NEW p, IsProgram(p), Allowed(m, s), s.op # "choose",
           FALSE \in s.fails => Typed(Ends, After(m, s), p),
           TRUE \in s.fails => \E handled : Caught(<<s>> \o p, handled) /\ Typed(Ends, Fallen(m, s), handled)
    PROVE  Typed(Ends, m, <<s>> \o p)
<1> DEFINE r == <<s>> \o p
<1>1. IsProgram(r) /\ r # <<>> /\ Head(r) = s /\ Tail(r) = p
  BY StepFirst
<1>2. PICK S : Closed(Ends, S) /\ (FALSE \in s.fails => <<After(m, s), p>> \in S)
  <2>1. Closed(Ends, {})
    BY DEF Closed
  <2> QED
    BY <2>1 DEF Typed
<1>3. PICK T : /\ Closed(Ends, T)
               /\ TRUE \in s.fails => \E handled : Caught(r, handled) /\ <<Fallen(m, s), handled>> \in T
  <2>1. Closed(Ends, {})
    BY DEF Closed
  <2> QED
    BY <2>1 DEF Typed
<1> HIDE DEF r
<1> DEFINE U == (S \cup T) \cup {<<m, r>>}
<1>4. Closed(Ends, S \cup T)
  BY <1>2, <1>3, ClosedUnion
<1>5. Closed(Ends, U)
  <2> SUFFICES ASSUME NEW n, NEW q, <<n, q>> \in U
               PROVE  Stays(Ends, U, n, q)
    BY DEF Closed
  <2>1. CASE <<n, q>> \in S \cup T
    BY <1>4, <2>1, StaysInMore
  <2>2. CASE n = m /\ q = r
    BY <1>1, <1>2, <1>3, <2>2 DEF Stays
  <2> QED
    BY <2>1, <2>2
<1> QED
  BY <1>5 DEF Typed, r

LEMMA IdleSteps ==
    ASSUME NEW m \in Modes, m.gpu = "busy", NEW s
    PROVE  /\ Idle(m) \in Modes /\ Fallen(Idle(m), s) = Fallen(m, s)
           /\ Allowed(m, s) => Allowed(Idle(m), s)
           /\ \/ After(Idle(m), s) = After(m, s)
              \/ After(Idle(m), s) = Idle(After(m, s)) /\ After(m, s).gpu = "busy"
<1>1. /\ Idle(m).locals = m.locals /\ Idle(m).members = m.members /\ Idle(m).gpu = "idle"
      /\ Idle(m).running = m.running
  BY DEF Idle, Mode, Modes
<1>2. Idle(m) \in Modes /\ Fallen(Idle(m), s) = Fallen(m, s)
  <2>1. Idle(m) \in Modes /\ Failed(Idle(m)) = Failed(m)
    BY DEF Idle, Modes, Mode, Failed
  <2> QED
    BY <2>1 DEF Fallen
<1>3. Allowed(m, s) => Allowed(Idle(m), s)
  BY <1>1 DEF Allowed, MayMake, MayRelease, MayReplace
<1>4. CASE s.op \in {"wait", "submit"}
  BY <1>1, <1>2, <1>3, <1>4 DEF After
<1>5. CASE s.op \notin {"wait", "submit"}
  <2>1. After(Idle(m), s) = Idle(After(m, s)) /\ After(m, s).gpu = "busy"
    BY <1>1, <1>5 DEF After, Idle, Mode
  <2> QED
    BY <1>2, <1>3, <2>1
<1> QED
  BY <1>4, <1>5

LEMMA TypedIdle ==
    ASSUME NEW Ends, NEW m, NEW p, Typed(Ends, m, p), m.gpu = "busy",
           \A n \in Ends : n.gpu = "busy" => Idle(n) \in Ends
    PROVE  Typed(Ends, Idle(m), p)
<1>1. PICK S : Closed(Ends, S) /\ <<m, p>> \in S
  BY DEF Typed
<1> DEFINE T == {<<Idle(t[1]), t[2]>> : t \in {t \in S : t = <<t[1], t[2]>> /\ t[1].gpu = "busy"}}
           U == S \cup T
<1>2. ASSUME NEW n, NEW q, <<n, q>> \in S, n.gpu = "busy"
      PROVE  <<Idle(n), q>> \in U
  BY <1>2
<1>3. ASSUME NEW n, NEW q, <<n, q>> \in U
      PROVE  \/ <<n, q>> \in S
             \/ \E b : <<b, q>> \in S /\ b.gpu = "busy" /\ n = Idle(b)
  <2>1. CASE <<n, q>> \in T
    <3>1. PICK t \in S : t = <<t[1], t[2]>> /\ t[1].gpu = "busy" /\ <<n, q>> = <<Idle(t[1]), t[2]>>
      BY <2>1
    <3>2. <<t[1], q>> \in S /\ t[1].gpu = "busy" /\ n = Idle(t[1])
      BY <3>1
    <3> QED
      BY <3>2
  <2> QED
    BY <1>3, <2>1
<1>4. S \subseteq U
  OBVIOUS
<1> HIDE DEF U
<1>5. Closed(Ends, U)
  <2> SUFFICES ASSUME NEW n, NEW q, <<n, q>> \in U
               PROVE  Stays(Ends, U, n, q)
    BY DEF Closed
  <2>1. CASE <<n, q>> \in S
    BY <1>1, <1>4, <2>1, StaysInMore
  <2>2. ASSUME NEW b, <<b, q>> \in S, b.gpu = "busy", n = Idle(b)
        PROVE  Stays(Ends, U, n, q)
    <3>1. b \in Modes /\ IsProgram(q) /\ (q = <<>> => b \in Ends)
      BY <1>1, <2>2 DEF Closed, Stays
    <3>2. CASE q = <<>>
      BY <2>2, <3>1, <3>2, IdleSteps DEF Stays
    <3>3. CASE q # <<>>
      <4> DEFINE h == Head(q)
      <4>1. /\ Allowed(b, h)
            /\ h.op = "choose" => \A i \in DOMAIN h.with : <<b, h.with[i] \o Tail(q)>> \in S
            /\ h.op # "choose" /\ FALSE \in h.fails => <<After(b, h), Tail(q)>> \in S
            /\ TRUE \in h.fails => \E handled : Caught(q, handled) /\ <<Fallen(b, h), handled>> \in S
        BY <1>1, <2>2, <3>3 DEF Closed, Stays
      <4>2. /\ n \in Modes /\ Fallen(n, h) = Fallen(b, h) /\ Allowed(n, h)
            /\ After(n, h) = After(b, h) \/ (After(n, h) = Idle(After(b, h)) /\ After(b, h).gpu = "busy")
        BY <2>2, <3>1, <4>1, IdleSteps
      <4>3. h.op = "choose" => \A i \in DOMAIN h.with : <<n, h.with[i] \o Tail(q)>> \in U
        BY <1>2, <2>2, <4>1
      <4>4. h.op # "choose" /\ FALSE \in h.fails => <<After(n, h), Tail(q)>> \in U
        BY <1>2, <1>4, <4>1, <4>2
      <4>5. TRUE \in h.fails => \E handled : Caught(q, handled) /\ <<Fallen(n, h), handled>> \in U
        BY <1>4, <4>1, <4>2
      <4> QED
        BY <3>1, <3>3, <4>2, <4>3, <4>4, <4>5 DEF Stays
    <3> QED
      BY <3>2, <3>3
  <2> QED
    BY <1>3, <2>1, <2>2
<1> QED
  BY <1>1, <1>2, <1>5 DEF Typed

-----------------------------------------------------------------------------
(* Leads: from mode m, p goes to a mode in N, unless it fails in one of    *)
(* Handled.  Runs: there is only one to go to.                             *)

Covers(Ends, Handled, rest) ==
    Handled # {} => \E handled : Caught(rest, handled) /\ \A h \in Handled : Typed(Ends, h, handled)

\* Ends that do not ask for the GPU to be at work.
Fair(Ends) == \A n \in Ends : n.gpu = "busy" => Idle(n) \in Ends

Leads(Handled, m, p, N) ==
    /\ IsProgram(p) /\ \A i \in DOMAIN p : p[i].op # "catch"
    /\ \A Ends, rest :
          /\ Fair(Ends) /\ IsProgram(rest) /\ Covers(Ends, Handled, rest)
          /\ \A n \in N : Typed(Ends, n, rest)
          => Typed(Ends, m, p \o rest)

Runs(Handled, m, p, n) == Leads(Handled, m, p, {n})

LEMMA CoversLater ==
    ASSUME NEW Ends, NEW Handled, NEW p, NEW rest, IsProgram(p), IsProgram(rest),
           \A i \in DOMAIN p : p[i].op # "catch", Covers(Ends, Handled, rest)
    PROVE  Covers(Ends, Handled, p \o rest)
BY CaughtLater DEF Covers

LEMMA LeadsNowhere == \A Handled, m, N : m \in N => Leads(Handled, m, <<>>, N)
<1>1. IsProgram(<<>>)
  BY DEF IsProgram
<1>2. ASSUME NEW rest, IsProgram(rest) PROVE <<>> \o rest = rest
  BY <1>2, ConcatEmptySeq DEF IsProgram
<1> QED
  BY <1>1, <1>2 DEF Leads

LEMMA LeadsOnStraight ==
    ASSUME NEW Handled, NEW m, NEW N, NEW K, NEW p, NEW q,
           IsProgram(q), \A i \in DOMAIN q : q[i].op # "catch",
           Leads(Handled, m, p, N), \A n \in N : Leads(Handled, n, q, K)
    PROVE  Leads(Handled, m, p \o q, K)
<1>1. IsProgram(p) /\ IsProgram(q) /\ IsProgram(p \o q)
  BY ConcatIsProgram DEF Leads
<1>2. \A i \in DOMAIN (p \o q) : (p \o q)[i].op # "catch"
  <2>1. PICK T : p \in Seq(T) /\ q \in Seq(T)
    BY <1>1, ConcatIsProgram
  <2>2. /\ p \o q \in Seq(T) /\ Len(p \o q) = Len(p) + Len(q) /\ Len(p) \in Nat /\ Len(q) \in Nat
        /\ \A j \in 1 .. Len(p \o q) : (p \o q)[j] = IF j <= Len(p) THEN p[j] ELSE q[j - Len(p)]
    BY <2>1
  <2>3. (\A i \in 1 .. Len(p) : p[i].op # "catch") /\ (\A i \in 1 .. Len(q) : q[i].op # "catch")
    BY <2>1 DEF Leads
  <2>4. TAKE i \in DOMAIN (p \o q)
  <2>5. i \in 1 .. Len(p) + Len(q)
    BY <2>2
  <2>6. i <= Len(p) \/ i - Len(p) \in 1 .. Len(q)
    BY <2>2, <2>5
  <2> QED
    BY <2>2, <2>3, <2>5, <2>6
<1>3. ASSUME NEW Ends, NEW rest, Fair(Ends), IsProgram(rest), \A k \in K : Typed(Ends, k, rest),
             Covers(Ends, Handled, rest)
      PROVE  Typed(Ends, m, (p \o q) \o rest)
  <2>1. \A n \in N : Typed(Ends, n, q \o rest)
    BY <1>3 DEF Leads
  <2>2. IsProgram(q \o rest)
    BY <1>1, <1>3, ConcatIsProgram
  <2>3. Covers(Ends, Handled, q \o rest)
    BY <1>1, <1>3, CoversLater DEF Leads
  <2>4. Typed(Ends, m, p \o (q \o rest))
    BY <1>3, <2>1, <2>2, <2>3 DEF Leads
  <2>5. (p \o q) \o rest = p \o (q \o rest)
    BY <1>1, <1>3, ProgramsAssociate
  <2> QED
    BY <2>4, <2>5
<1> QED
  BY <1>1, <1>2, <1>3 DEF Leads

LEMMA LeadsOn ==
    ASSUME NEW Handled, NEW m, NEW N, NEW K, NEW p, NEW q, N # {},
           Leads(Handled, m, p, N), \A n \in N : Leads(Handled, n, q, K)
    PROVE  Leads(Handled, m, p \o q, K)
<1>1. IsProgram(q) /\ \A i \in DOMAIN q : q[i].op # "catch"
  BY DEF Leads
<1> QED
  BY <1>1, LeadsOnStraight

LEMMA FallenTyped ==
    ASSUME NEW Ends, NEW m, NEW s, NEW p, Fair(Ends), Typed(Ends, Failed(m), p)
    PROVE  Typed(Ends, Fallen(m, s), p)
<1>1. Failed(m).gpu = "busy"
  BY DEF Failed, Mode
<1> QED
  BY <1>1, TypedIdle DEF Fallen, Fair

LEMMA RunsStep ==
    ASSUME NEW Handled, NEW m \in Modes, NEW s, Allowed(m, s), s.op \notin {"choose", "catch"},
           TRUE \in s.fails => Failed(m) \in Handled \/ Fallen(m, s) \in Handled
    PROVE  Runs(Handled, m, <<s>>, After(m, s))
<1>1. IsProgram(<<s>>) /\ \A i \in DOMAIN <<s>> : <<s>>[i].op # "catch"
  <2>1. <<s>> \in Seq({s}) /\ DOMAIN <<s>> = {1} /\ <<s>>[1] = s
    OBVIOUS
  <2>2. IsProgram(<<s>>)
    BY <2>1 DEF IsProgram
  <2> QED
    BY <2>1, <2>2
<1>2. ASSUME NEW Ends, NEW rest, Fair(Ends), IsProgram(rest), Typed(Ends, After(m, s), rest),
             Covers(Ends, Handled, rest)
      PROVE  Typed(Ends, m, <<s>> \o rest)
  <2>1. TRUE \in s.fails => \E handled : Caught(<<s>> \o rest, handled) /\ Typed(Ends, Fallen(m, s), handled)
    BY <1>1, <1>2, CaughtLater, FallenTyped DEF Covers
  <2> QED
    BY <1>2, <2>1, TypedStep
<1> QED
  BY <1>1, <1>2 DEF Runs, Leads

\* What is never got to need not fit.
LEMMA LeadsNever ==
    ASSUME NEW Handled, NEW m, NEW K, NEW p, NEW q, Leads(Handled, m, p, {}),
           NEW n, NEW N, Leads(Handled, n, q, N)
    PROVE  Leads(Handled, m, p \o q, K)
<1>1. IsProgram(q) /\ \A i \in DOMAIN q : q[i].op # "catch"
  BY DEF Leads
<1>2. \A x \in {} : Leads(Handled, x, q, K)
  OBVIOUS
<1> QED
  BY <1>1, <1>2, LeadsOnStraight

\* A step that cannot go well.
LEMMA LeadsNeverOn ==
    ASSUME NEW Handled, NEW m \in Modes, NEW s, Allowed(m, s), s.op \notin {"choose", "catch"},
           FALSE \notin s.fails, Failed(m) \in Handled
    PROVE  Leads(Handled, m, <<s>>, {})
<1>1. IsProgram(<<s>>) /\ \A i \in DOMAIN <<s>> : <<s>>[i].op # "catch"
  <2>1. <<s>> \in Seq({s}) /\ DOMAIN <<s>> = {1} /\ <<s>>[1] = s
    OBVIOUS
  <2>2. IsProgram(<<s>>)
    BY <2>1 DEF IsProgram
  <2> QED
    BY <2>1, <2>2
<1>2. ASSUME NEW Ends, NEW rest, Fair(Ends), IsProgram(rest), Covers(Ends, Handled, rest)
      PROVE  Typed(Ends, m, <<s>> \o rest)
  <2>1. \E handled : Caught(<<s>> \o rest, handled) /\ Typed(Ends, Fallen(m, s), handled)
    BY <1>1, <1>2, CaughtLater, FallenTyped DEF Covers
  <2> QED
    BY <1>2, <2>1, TypedStep
<1> QED
  BY <1>1, <1>2 DEF Leads

LEMMA RunsOn ==
    ASSUME NEW Handled, NEW m, NEW n, NEW k, NEW p, NEW q, Runs(Handled, m, p, n), Runs(Handled, n, q, k)
    PROVE  Runs(Handled, m, p \o q, k)
BY LeadsOn DEF Runs

LEMMA LeadsInto ==
    ASSUME NEW Handled, NEW m, NEW p, NEW N, NEW K, Leads(Handled, m, p, N),
           \A n \in N : n \in K \/ \E b \in K : b.gpu = "busy" /\ n = Idle(b)
    PROVE  Leads(Handled, m, p, K)
BY TypedIdle DEF Leads, Fair

LEMMA LeadsFromIdle ==
    ASSUME NEW Handled, NEW m, NEW p, NEW N, m.gpu = "busy", Leads(Handled, m, p, N)
    PROVE  Leads(Handled, Idle(m), p, N)
BY TypedIdle DEF Leads, Fair

\* A choice is typed when every alternative is.
LEMMA TypedChoice ==
    ASSUME NEW Ends, NEW m \in Modes, NEW s, NEW p, IsProgram(p), Allowed(m, s), s.op = "choose",
           s.fails = {FALSE}, \A i \in DOMAIN s.with : Typed(Ends, m, s.with[i] \o p)
    PROVE  Typed(Ends, m, <<s>> \o p)
<1> DEFINE r == <<s>> \o p
           Way(i) == CHOOSE S : Closed(Ends, S) /\ <<m, s.with[i] \o p>> \in S
           Ways == {Way(i) : i \in DOMAIN s.with}
           U == (UNION Ways) \cup {<<m, r>>}
<1>1. IsProgram(r) /\ r # <<>> /\ Head(r) = s /\ Tail(r) = p
  BY StepFirst
<1>2. \A i \in DOMAIN s.with : Closed(Ends, Way(i)) /\ <<m, s.with[i] \o p>> \in Way(i)
  BY DEF Typed
<1>3. \A i \in DOMAIN s.with : <<m, s.with[i] \o p>> \in U
  BY <1>2
<1>4. \A S \in Ways : Closed(Ends, S) /\ S \subseteq U
  BY <1>2
<1>5. \A t \in U : t = <<m, r>> \/ \E S \in Ways : t \in S
  OBVIOUS
<1>6. <<m, r>> \in U
  OBVIOUS
<1> HIDE DEF r, Ways, U
<1>7. Closed(Ends, U)
  <2> SUFFICES ASSUME NEW n, NEW q, <<n, q>> \in U
               PROVE  Stays(Ends, U, n, q)
    BY DEF Closed
  <2>1. CASE \E S \in Ways : <<n, q>> \in S
    BY <1>4, <2>1, StaysInMore
  <2>2. CASE n = m /\ q = r
    BY <1>1, <1>3, <2>2 DEF Stays
  <2> QED
    BY <1>5, <2>1, <2>2
<1> QED
  BY <1>6, <1>7 DEF Typed, r

LEMMA LeadsChoice ==
    ASSUME NEW Handled, NEW m \in Modes, m.gpu # "own", NEW N, NEW alternatives,
           \A i \in DOMAIN alternatives : Leads(Handled, m, alternatives[i], N)
    PROVE  Leads(Handled, m, Choose(alternatives), N)
<1> DEFINE s == [op |-> "choose", on |-> {}, fails |-> {FALSE}, with |-> alternatives]
<1>1. Choose(alternatives) = <<s>>
  BY DEF Choose, Step
<1>2. s.op = "choose" /\ s.on = {} /\ s.fails = {FALSE} /\ s.with = alternatives
  OBVIOUS
<1> HIDE DEF s
<1>3. Allowed(m, s)
  BY <1>2 DEF Allowed, Quiet
<1>4. IsProgram(<<s>>) /\ \A i \in DOMAIN <<s>> : <<s>>[i].op # "catch"
  <2>1. <<s>> \in Seq({s}) /\ DOMAIN <<s>> = {1} /\ <<s>>[1] = s
    OBVIOUS
  <2>2. IsProgram(<<s>>)
    BY <2>1 DEF IsProgram
  <2> QED
    BY <1>2, <2>1, <2>2
<1>5. ASSUME NEW Ends, NEW rest, Fair(Ends), IsProgram(rest), \A n \in N : Typed(Ends, n, rest),
             Covers(Ends, Handled, rest)
      PROVE  Typed(Ends, m, <<s>> \o rest)
  <2>1. \A i \in DOMAIN s.with : Typed(Ends, m, s.with[i] \o rest)
    BY <1>2, <1>5 DEF Leads
  <2> QED
    BY <1>2, <1>3, <1>5, <2>1, TypedChoice
<1> QED
  BY <1>1, <1>4, <1>5 DEF Leads

\* A body whose failures its handler makes up for.
LEMMA LeadsGuarded ==
    ASSUME NEW Handled, NEW Inner, NEW m \in Modes, m.gpu # "own", NEW N \in SUBSET Modes, N # {},
           \A n \in N : n.gpu # "own",
           NEW body, NEW handler, IsProgram(handler), Leads(Inner, m, body, N),
           \A h \in Inner : Leads(Handled, h, handler, N)
    PROVE  Leads(Handled, m, Guarded(body, handler), N)
<1> DEFINE c == [op |-> "catch", on |-> {}, fails |-> {FALSE}, with |-> handler]
           s == [op |-> "choose", on |-> {}, fails |-> {FALSE}, with |-> <<body \o <<c>>>>]
<1>1. Guarded(body, handler) = <<s>>
  BY DEF Guarded, Choose, Catch, Step
<1>2. /\ c.op = "catch" /\ c.on = {} /\ c.fails = {FALSE} /\ c.with = handler
      /\ s.op = "choose" /\ s.on = {} /\ s.fails = {FALSE} /\ s.with = <<body \o <<c>>>>
  OBVIOUS
<1> HIDE DEF s, c
<1>3. Allowed(m, s) /\ \A n \in N : Allowed(n, c) /\ After(n, c) = n
  BY <1>2 DEF Allowed, Quiet, After, Modes
<1>4. IsProgram(<<s>>) /\ \A i \in DOMAIN <<s>> : <<s>>[i].op # "catch"
  <2>1. <<s>> \in Seq({s}) /\ DOMAIN <<s>> = {1} /\ <<s>>[1] = s
    OBVIOUS
  <2>2. IsProgram(<<s>>)
    BY <2>1 DEF IsProgram
  <2> QED
    BY <1>2, <2>1, <2>2
<1>5. ASSUME NEW Ends, NEW rest, Fair(Ends), IsProgram(rest), \A n \in N : Typed(Ends, n, rest),
             Covers(Ends, Handled, rest)
      PROVE  Typed(Ends, m, <<s>> \o rest)
  <2>1. \A n \in N : Typed(Ends, n, <<c>> \o rest)
    BY <1>2, <1>3, <1>5, TypedStep
  <2>2. Covers(Ends, Inner, <<c>> \o rest)
    <3>1. Caught(<<c>> \o rest, handler \o rest)
      BY <1>2, <1>5, CaughtHere
    <3>2. \A h \in Inner : Typed(Ends, h, handler \o rest)
      BY <1>5 DEF Leads
    <3> QED
      BY <3>1, <3>2 DEF Covers
  <2>3. IsProgram(<<c>>) /\ IsProgram(<<c>> \o rest)
    BY <1>5, StepFirst
  <2>4. Typed(Ends, m, body \o (<<c>> \o rest))
    BY <1>5, <2>1, <2>2, <2>3 DEF Leads
  <2>5. (body \o <<c>>) \o rest = body \o (<<c>> \o rest)
    BY <1>5, <2>3, ProgramsAssociate DEF Leads
  <2>6. \A i \in DOMAIN s.with : Typed(Ends, m, s.with[i] \o rest)
    <3>1. DOMAIN s.with = {1} /\ s.with[1] = body \o <<c>>
      BY <1>2
    <3> QED
      BY <2>4, <2>5, <3>1, Zenon
  <2> QED
    BY <1>2, <1>3, <1>5, <2>6, TypedChoice
<1> QED
  BY <1>1, <1>4, <1>5 DEF Leads

-----------------------------------------------------------------------------
(* FlattenSeq is what its recursion says.                                  *)

Joins(flat, parts, k) == flat = [i \in 1 .. k |-> IF i = 1 THEN parts[i] ELSE flat[i - 1] \o parts[i]]

LEMMA JoinsExists ==
    ASSUME NEW parts, NEW k \in Nat
    PROVE  \E flat : Joins(flat, parts, k)
<1> DEFINE Good == {n \in Nat : \E flat : Joins(flat, parts, n)}
<1>1. 0 \in Good
  <2> DEFINE flat == [i \in 1 .. 0 |-> parts]
  <2>1. Joins(flat, parts, 0)
    BY DEF Joins
  <2> QED
    BY <2>1
<1>2. ASSUME NEW m \in 1 .. k, m - 1 \in Good PROVE m \in Good
  <2>1. m \in Nat /\ m - 1 \in Nat
    OBVIOUS
  <2>2. PICK before : Joins(before, parts, m - 1)
    BY <1>2
  <2> DEFINE flat == [i \in 1 .. m |-> IF i # m THEN before[i]
                                       ELSE IF i = 1 THEN parts[i] ELSE before[i - 1] \o parts[i]]
  <2>3. \A i \in 1 .. m - 1 : before[i] = IF i = 1 THEN parts[i] ELSE before[i - 1] \o parts[i]
    BY <2>1, <2>2 DEF Joins
  <2>4. \A i \in 1 .. m : flat[i] = IF i = 1 THEN parts[i] ELSE flat[i - 1] \o parts[i]
    <3>1. TAKE i \in 1 .. m
    <3>2. CASE i = m
      BY <2>1, <3>2
    <3>3. CASE i # m
      BY <2>1, <2>3, <3>3
    <3> QED
      BY <3>2, <3>3
  <2>5. Joins(flat, parts, m)
    BY <2>4 DEF Joins
  <2> QED
    BY <2>1, <2>5
<1> HIDE DEF Good
<1>3. k \in Good
  BY <1>1, <1>2, InductionUpTo
<1> QED
  BY <1>3 DEF Good

\* Parts that each go one mode further, one after the other.
LEMMA RunsFlattened ==
    ASSUME NEW Handled, NEW k \in Nat, NEW parts, parts = [i \in 1 .. k |-> parts[i]], NEW modes,
           \A i \in 1 .. k : Runs(Handled, modes[i - 1], parts[i], modes[i])
    PROVE  Runs(Handled, modes[0], FlattenSeq(parts), modes[k])
<1> DEFINE T == {parts[i] : i \in 1 .. k}
<1>1. parts \in Seq(T) /\ Len(parts) = k
  <2>1. \A i \in 1 .. k : parts[i] \in T
    OBVIOUS
  <2> HIDE DEF T
  <2>2. parts \in [1 .. k -> T]
    BY <2>1
  <2> QED
    BY <2>2, SeqDef, LenProperties
<1> HIDE DEF T
<1>2. CASE k = 0
  <2>1. parts = <<>> /\ FlattenSeq(parts) = parts
    BY <1>1, <1>2 DEF FlattenSeq
  <2>2. FlattenSeq(parts) = <<>>
    BY <2>1
  <2> QED
    BY <1>2, <2>2, LeadsNowhere DEF Runs
<1>3. CASE k # 0
  <2> DEFINE flat == CHOOSE f : Joins(f, parts, k)
  <2>1. Joins(flat, parts, k)
    BY JoinsExists
  <2>2. FlattenSeq(parts) = flat[k]
    BY <1>1, <1>3 DEF FlattenSeq, Joins
  <2> HIDE DEF flat
  <2>3. \A i \in 1 .. k : flat[i] = IF i = 1 THEN parts[i] ELSE flat[i - 1] \o parts[i]
    BY <2>1 DEF Joins
  <2> DEFINE Good == {i \in 0 .. k : i = 0 \/ Runs(Handled, modes[0], flat[i], modes[i])}
  <2>4. 0 \in Good
    OBVIOUS
  <2>5. ASSUME NEW i \in 1 .. k, i - 1 \in Good PROVE i \in Good
    <3>1. Runs(Handled, modes[i - 1], parts[i], modes[i])
      OBVIOUS
    <3>2. CASE i = 1
      BY <2>3, <3>1, <3>2
    <3>3. CASE i # 1
      <4>1. flat[i] = flat[i - 1] \o parts[i]
        BY <2>3, <3>3, Zenon
      <4>0. i - 1 # 0
        BY <3>3
      <4>2. Runs(Handled, modes[0], flat[i - 1], modes[i - 1])
        BY <2>5, <4>0
      <4>3. Runs(Handled, modes[0], flat[i], modes[i])
        BY <3>1, <4>1, <4>2, RunsOn, Zenon
      <4> QED
        BY <4>3
    <3> QED
      BY <3>2, <3>3
  <2> HIDE DEF Good
  <2>6. k \in Good
    BY <2>4, <2>5, InductionUpTo
  <2> QED
    BY <1>3, <2>2, <2>6 DEF Good
<1> QED
  BY <1>2, <1>3

\* Parts that each leave the mode as it is.
LEMMA RunsEach ==
    ASSUME NEW Handled, NEW m, NEW k \in Nat, NEW parts, parts = [i \in 1 .. k |-> parts[i]],
           \A i \in 1 .. k : Runs(Handled, m, parts[i], m)
    PROVE  Runs(Handled, m, FlattenSeq(parts), m)
<1> DEFINE modes == [i \in 0 .. k |-> m]
<1>1. modes[0] = m /\ modes[k] = m /\ \A i \in 1 .. k : modes[i - 1] = m /\ modes[i] = m
  OBVIOUS
<1> HIDE DEF modes
<1>2. \A i \in 1 .. k : Runs(Handled, modes[i - 1], parts[i], modes[i])
  BY <1>1
<1>3. Runs(Handled, modes[0], FlattenSeq(parts), modes[k])
  BY <1>2, RunsFlattened
<1> QED
  BY <1>1, <1>3

-----------------------------------------------------------------------------
(* The steps.                                                              *)

\* A mode with no work on a local in flight, whose failure is handled.
At(Handled, m) == m \in Modes /\ m.gpu # "own" /\ Failed(m) \in Handled

LEMMA ModeParts ==
    \A L, M, gpu, r :
        /\ Mode(L, M, gpu, r).locals = L /\ Mode(L, M, gpu, r).members = M
        /\ Mode(L, M, gpu, r).gpu = gpu /\ Mode(L, M, gpu, r).running = r
        /\ Mode(L, M, gpu, r) \in Modes
              <=> /\ L \subseteq Names /\ M \subseteq Names
                  /\ gpu \in {"idle", "busy", "own"} /\ r \in BOOLEAN
        /\ Failed(Mode(L, M, gpu, r)) = Mode({}, M, "busy", r)
        /\ Idle(Mode(L, M, gpu, r)) = Mode(L, M, "idle", r)
BY DEF Mode, Modes, Failed, Idle

LEMMA RunningMode ==
    \A L, M, g : LET m == Mode(L, M, g, TRUE) IN
        /\ m.locals = L /\ m.gpu = g /\ m.members = M /\ m.running = TRUE
        /\ Failed(m) = Mode({}, M, "busy", TRUE) /\ Idle(m) = Mode(L, M, "idle", TRUE)
BY DEF Mode, Failed, Idle

LEMMA StoppedMode ==
    ASSUME NEW M \in SUBSET Names, NEW g \in {"idle", "busy"}
    PROVE  LET m == Mode({}, M, g, FALSE) IN
           m \in Modes /\ m.locals = {} /\ m.gpu = g /\ m.members = M /\ m.running = FALSE
BY DEF Mode, Modes

LEMMA RunsMake ==
    ASSUME NEW H, NEW L, NEW M, NEW g, NEW r, At(H, Mode(L, M, g, r)), NEW o, MayMake(L, M, o)
    PROVE  /\ Runs(H, Mode(L, M, g, r), Make(o), Mode(L \cup {o}, M, g, r))
           /\ Runs(H, Mode(L, M, g, r), Own(o), Mode(L \cup {o}, M, g, r))
           /\ At(H, Mode(L \cup {o}, M, g, r))
<1> DEFINE m == Mode(L, M, g, r)
<1>1. ASSUME NEW fails
      PROVE  Runs(H, m, Step("make", {o}, fails, <<>>), Mode(L \cup {o}, M, g, r))
  <2> DEFINE s == [op |-> "make", on |-> {o}, fails |-> fails, with |-> <<>>]
  <2>1. s.op = "make" /\ s.on = {o} /\ Step("make", {o}, fails, <<>>) = <<s>>
    BY DEF Step
  <2> HIDE DEF s
  <2>2. Allowed(m, s) /\ After(m, s) = Mode(L \cup {o}, M, g, r)
    BY <2>1, ModeParts DEF Allowed, After, At, Mode
  <2>3. m \in Modes /\ Failed(m) \in H
    BY DEF At
  <2> HIDE DEF m
  <2> QED
    BY <2>1, <2>2, <2>3, RunsStep
<1>2. At(H, Mode(L \cup {o}, M, g, r))
  BY ModeParts DEF At, MayMake
<1> QED
  BY <1>1, <1>2 DEF Make, Own

LEMMA RunsKeep ==
    ASSUME NEW H, NEW L, NEW M, NEW g, NEW r, At(H, Mode(L, M, g, r)),
           NEW op \in {"call", "image", "transition", "use", "present", "chain"},
           op = "chain" => "readback" \notin L,
           NEW uses, uses \subseteq L \cup M, NEW fails, NEW with
    PROVE  Runs(H, Mode(L, M, g, r), Step(op, uses, fails, with), Mode(L, M, g, r))
<1> DEFINE m == Mode(L, M, g, r)
           s == [op |-> op, on |-> uses, fails |-> fails, with |-> with]
<1>1. /\ s.op = op /\ s.on = uses /\ Step(op, uses, fails, with) = <<s>>
  BY DEF Step
<1> HIDE DEF s
<1>2. Allowed(m, s) /\ After(m, s) = m
  BY <1>1, ModeParts DEF Allowed, After, At, Mode, Quiet
<1>3. m \in Modes /\ Failed(m) \in H
  BY DEF At
<1> HIDE DEF m
<1>4. Runs(H, m, <<s>>, m)
  BY <1>1, <1>2, <1>3, RunsStep
<1> QED
  BY <1>1, <1>4 DEF m

LEMMA RunsCall ==
    ASSUME NEW H, NEW L, NEW M, NEW g, NEW r, At(H, Mode(L, M, g, r)),
           NEW uses, uses \subseteq L \cup M
    PROVE  /\ Runs(H, Mode(L, M, g, r), Check(uses), Mode(L, M, g, r))
           /\ Runs(H, Mode(L, M, g, r), Surely(uses), Mode(L, M, g, r))
           /\ \A found : Runs(H, Mode(L, M, g, r), Needed(found), Mode(L, M, g, r))
BY RunsKeep DEF Check, Surely, Needed

LEMMA RunsAccess ==
    ASSUME NEW H, NEW L, NEW M, NEW g, NEW r, At(H, Mode(L, M, g, r)), NEW o \in L \cup M
    PROVE  /\ \A l, e : Runs(H, Mode(L, M, g, r), Image(o, l, e), Mode(L, M, g, r))
           /\ \A l, y, a, e : Runs(H, Mode(L, M, g, r), Use(o, l, y, a, e), Mode(L, M, g, r))
           /\ \A l, f, t, a, b : Runs(H, Mode(L, M, g, r), TransitionImageLayout(o, l, f, t, a, b),
                                      Mode(L, M, g, r))
           /\ \A c : o = "swapChain" /\ "readback" \notin L
                 => Runs(H, Mode(L, M, g, r), Chain(c), Mode(L, M, g, r))
           /\ o = "swapChain" /\ "renderFinished" \in L \cup M
                 => Runs(H, Mode(L, M, g, r), Present, Mode(L, M, g, r))
<1>1. {o} \subseteq L \cup M
  OBVIOUS
<1>2. "renderFinished" \in L \cup M => {o, "renderFinished"} \subseteq L \cup M
  OBVIOUS
<1>3. QED
  BY <1>1, <1>2, RunsKeep DEF Image, Use, TransitionImageLayout, Chain, Present

LEMMA RunsDrop ==
    ASSUME NEW H, NEW L, NEW M, NEW g, NEW r, At(H, Mode(L, M, g, r)), NEW o \in Leaves \cap L
    PROVE  /\ Runs(H, Mode(L, M, g, r), Drop(o), Mode(L \ {o}, M, g, r))
           /\ At(H, Mode(L \ {o}, M, g, r))
<1> DEFINE m == Mode(L, M, g, r)
           s == [op |-> "drop", on |-> {o}, fails |-> {FALSE}, with |-> <<>>]
<1>1. /\ s.op = "drop" /\ s.op \notin {"choose", "catch"}
      /\ s.on = {o} /\ TRUE \notin s.fails /\ Drop(o) = <<s>>
  BY DEF Drop, Step
<1> HIDE DEF s
<1>2. Allowed(m, s) /\ After(m, s) = Mode(L \ {o}, M, g, r)
  BY <1>1, ModeParts DEF Allowed, After, At, Mode
<1>3. m \in Modes
  BY DEF At
<1>4. At(H, Mode(L \ {o}, M, g, r))
  BY ModeParts DEF At
<1> HIDE DEF m
<1>5. Runs(H, m, <<s>>, After(m, s))
  BY <1>1, <1>2, <1>3, RunsStep
<1> QED
  BY <1>1, <1>2, <1>4, <1>5 DEF m

LEMMA RunsRelease ==
    ASSUME NEW H, NEW L, NEW M, NEW g \in {"idle", "busy"}, NEW r, Mode(L, M, g, r) \in Modes,
           NEW o, MayRelease(L, M, g, o)
    PROVE  Runs(H, Mode(L, M, g, r), Release(o), Mode(L, M \ {o}, g, r))
<1> DEFINE m == Mode(L, M, g, r)
           s == [op |-> "release", on |-> {o}, fails |-> {FALSE}, with |-> <<>>]
<1>1. /\ s.op = "release" /\ s.op \notin {"choose", "catch"}
      /\ s.on = {o} /\ TRUE \notin s.fails /\ Release(o) = <<s>>
  BY DEF Release, Step
<1> HIDE DEF s
<1>2. Allowed(m, s) /\ After(m, s) = Mode(L, M \ {o}, g, r)
  BY <1>1, ModeParts DEF Allowed, After, Mode
<1> HIDE DEF m
<1>3. Runs(H, m, <<s>>, After(m, s))
  <2>1. m \in Modes
    BY DEF m
  <2> QED
    BY <1>1, <1>2, <2>1, RunsStep
<1> QED
  BY <1>1, <1>2, <1>3 DEF m

LEMMA RunsReplace ==
    ASSUME NEW H, NEW L, NEW M, NEW r, Mode(L, M, "idle", r) \in Modes,
           NEW o, MayReplace(L, M, "idle", o)
    PROVE  Runs(H, Mode(L, M, "idle", r), Replace(o), Mode(L \ {o}, M \cup {o}, "idle", r))
<1> DEFINE m == Mode(L, M, "idle", r)
           s == [op |-> "replace", on |-> {o}, fails |-> {FALSE}, with |-> <<>>]
<1>1. /\ s.op = "replace" /\ s.op \notin {"choose", "catch"}
      /\ s.on = {o} /\ TRUE \notin s.fails /\ Replace(o) = <<s>>
  BY DEF Replace, Step
<1> HIDE DEF s
<1>2. Allowed(m, s) /\ After(m, s) = Mode(L \ {o}, M \cup {o}, "idle", r)
  BY <1>1, ModeParts DEF Allowed, After, Mode
<1> HIDE DEF m
<1>3. Runs(H, m, <<s>>, After(m, s))
  <2>1. m \in Modes
    BY DEF m
  <2> QED
    BY <1>1, <1>2, <2>1, RunsStep
<1> QED
  BY <1>1, <1>2, <1>3 DEF m

LEMMA RunsAdopt ==
    ASSUME NEW H, NEW L, NEW M, NEW g \in {"idle", "busy"}, NEW r, Mode(L, M, g, r) \in Modes,
           L \cap M = {}
    PROVE  Runs(H, Mode(L, M, g, r), Adopt, Mode({}, M \cup L, g, r))
<1> DEFINE m == Mode(L, M, g, r)
           s == [op |-> "adopt", on |-> {}, fails |-> {FALSE}, with |-> <<>>]
<1>1. /\ s.op = "adopt" /\ s.op \notin {"choose", "catch"}
      /\ s.on = {} /\ TRUE \notin s.fails /\ Adopt = <<s>>
  BY DEF Adopt, Step
<1> HIDE DEF s
<1>2. Allowed(m, s) /\ After(m, s) = Mode({}, M \cup L, g, r)
  BY <1>1, ModeParts DEF Allowed, After, Mode
<1> HIDE DEF m
<1>3. Runs(H, m, <<s>>, After(m, s))
  <2>1. m \in Modes
    BY DEF m
  <2> QED
    BY <1>1, <1>2, <2>1, RunsStep
<1> QED
  BY <1>1, <1>2, <1>3 DEF m

LEMMA RunsStop ==
    ASSUME NEW H, NEW L, NEW M, NEW g \in {"idle", "busy"}, NEW r, Mode(L, M, g, r) \in Modes
    PROVE  Runs(H, Mode(L, M, g, r), Stop, Mode(L, M, g, FALSE))
<1> DEFINE m == Mode(L, M, g, r)
           s == [op |-> "stop", on |-> {}, fails |-> {FALSE}, with |-> <<>>]
<1>1. /\ s.op = "stop" /\ s.op \notin {"choose", "catch"}
      /\ s.on = {} /\ TRUE \notin s.fails /\ Stop = <<s>>
  BY DEF Stop, Step
<1> HIDE DEF s
<1>2. Allowed(m, s) /\ After(m, s) = Mode(L, M, g, FALSE)
  BY <1>1, ModeParts DEF Allowed, After, Mode, Quiet
<1> HIDE DEF m
<1>3. Runs(H, m, <<s>>, After(m, s))
  <2>1. m \in Modes
    BY DEF m
  <2> QED
    BY <1>1, <1>2, <2>1, RunsStep
<1> QED
  BY <1>1, <1>2, <1>3 DEF m

LEMMA RunsWait ==
    ASSUME NEW H, NEW L, NEW M, NEW g, NEW r, Mode(L, M, g, r) \in Modes,
           Mode({}, M, "busy", r) \in H, "device" \in L \cup M
    PROVE  /\ Runs(H, Mode(L, M, g, r), Wait, Mode(L, M, "idle", r))
           /\ At(H, Mode(L, M, "idle", r))
<1> DEFINE m == Mode(L, M, g, r)
           s == [op |-> "wait", on |-> {"device"}, fails |-> BOOLEAN, with |-> <<>>]
<1>1. /\ s.op = "wait" /\ s.op \notin {"choose", "catch"}
      /\ s.on = {"device"} /\ Wait = <<s>>
  BY DEF Wait, Step
<1> HIDE DEF s
<1>2. Allowed(m, s) /\ After(m, s) = Mode(L, M, "idle", r)
  BY <1>1, ModeParts DEF Allowed, After, Mode
<1>3. m \in Modes /\ Failed(m) \in H
  BY ModeParts
<1>4. At(H, Mode(L, M, "idle", r))
  BY ModeParts DEF At
<1> HIDE DEF m
<1>5. Runs(H, m, <<s>>, After(m, s))
  BY <1>1, <1>2, <1>3, RunsStep
<1> QED
  BY <1>1, <1>2, <1>4, <1>5 DEF m

LEMMA RunsSubmit ==
    ASSUME NEW H, NEW L, NEW M, NEW g, NEW r, At(H, Mode(L, M, g, r)),
           NEW uses, uses \subseteq (L \cup M) \cap GpuNames
    PROVE  Runs(H, Mode(L, M, g, r), Submit(uses), Mode(L, M, IF L = {} THEN "busy" ELSE "own", r))
<1> DEFINE m == Mode(L, M, g, r)
           n == Mode(L, M, IF L = {} THEN "busy" ELSE "own", r)
           s == [op |-> "submit", on |-> uses, fails |-> BOOLEAN, with |-> <<>>]
<1>1. /\ s.op = "submit" /\ s.op \notin {"choose", "catch"}
      /\ s.on = uses /\ Submit(uses) = <<s>>
  BY DEF Submit, Step
<1> HIDE DEF s
<1>2. Allowed(m, s)
  BY <1>1, ModeParts DEF Allowed, At
<1>3. After(m, s) = n
  BY <1>1, ModeParts DEF After, Mode
<1>4. m \in Modes /\ Failed(m) \in H
  BY DEF At
<1> HIDE DEF m, n
<1>5. Runs(H, m, <<s>>, n)
  BY <1>1, <1>2, <1>3, <1>4, RunsStep
<1> QED
  BY <1>1, <1>5 DEF m, n

-----------------------------------------------------------------------------
(* Who is made from what.                                                  *)

LEMMA NeedsAre ==
    /\ Needs["server"] = {} /\ Needs["window"] = {"server"} /\ Needs["cursor"] = {"server"}
    /\ Needs["ui"] = {"server"} /\ Needs["uiFrame"] = {"ui"} /\ Needs["channel"] = {}
    /\ Needs["ecs"] = {} /\ Needs["app"] = {} /\ Needs["instance"] = {}
    /\ Needs["messenger"] = {"instance"} /\ Needs["surface"] = {"instance", "window"}
    /\ Needs["device"] = {"instance"} /\ Needs["swapChain"] = {"device", "surface"}
    /\ Needs["swapViews"] = {"swapChain"} /\ Needs["msaa"] = {"device"}
    /\ Needs["msaaView"] = {"msaa"} /\ Needs["depth"] = {"device"}
    /\ Needs["depthView"] = {"depth"} /\ Needs["setLayout"] = {"device"}
    /\ Needs["pipelineLayout"] = {"setLayout"} /\ Needs["shaders"] = {"device"}
    /\ Needs["pipeline"] = {"device"} /\ Needs["commandPool"] = {"device"}
    /\ Needs["single"] = {"commandPool"} /\ Needs["staging"] = {"device"}
    /\ Needs["readback"] = {"device"} /\ Needs["vertices"] = {"device"}
    /\ Needs["indices"] = {"device"} /\ Needs["texture"] = {"device"}
    /\ Needs["textureView"] = {"texture"} /\ Needs["sampler"] = {"device"}
    /\ Needs["uniforms"] = {"device"} /\ Needs["descriptorPool"] = {"device"}
    /\ Needs["descriptorSets"] = {"descriptorPool"} /\ Needs["commandBuffers"] = {"commandPool"}
    /\ Needs["renderFinished"] = {"device"} /\ Needs["presentComplete"] = {"device"}
    /\ Needs["fences"] = {"device"} /\ Needs["backend"] = {"device", "ui"}
BY DEF Needs

LEMMA NamesAre ==
    Names = {"server", "window", "cursor", "ui", "uiFrame", "channel", "ecs", "app", "instance",
             "messenger", "surface", "device", "swapChain", "swapViews", "msaa", "msaaView", "depth",
             "depthView", "setLayout", "pipelineLayout", "shaders", "pipeline", "commandPool",
             "single", "staging", "readback", "vertices", "indices", "texture", "textureView",
             "sampler", "uniforms", "descriptorPool", "descriptorSets", "commandBuffers",
             "renderFinished", "presentComplete", "fences", "backend"}
BY DEF Names, Needs

LEMMA UsersAre ==
    \A x \in Names :
        /\ "server" \in Needs[x] => x \in {"window", "cursor", "ui"}
        /\ "window" \in Needs[x] => x = "surface"
        /\ "ui" \in Needs[x] => x \in {"uiFrame", "backend"}
        /\ "instance" \in Needs[x] => x \in {"messenger", "surface", "device"}
        /\ "surface" \in Needs[x] => x = "swapChain"
        /\ "swapChain" \in Needs[x] => x = "swapViews"
        /\ "msaa" \in Needs[x] => x = "msaaView"
        /\ "depth" \in Needs[x] => x = "depthView"
        /\ "setLayout" \in Needs[x] => x = "pipelineLayout"
        /\ "commandPool" \in Needs[x] => x \in {"single", "commandBuffers"}
        /\ "texture" \in Needs[x] => x = "textureView"
        /\ "descriptorPool" \in Needs[x] => x = "descriptorSets"
        /\ \A o \in Needs[x] :
              o \in {"server", "window", "ui", "instance", "surface", "device", "swapChain", "msaa",
                     "depth", "setLayout", "commandPool", "texture", "descriptorPool"}
BY NamesAre, NeedsAre

\* What may be made as long as its name is free among the locals.
LEMMA MayMakeNew ==
    ASSUME NEW L \in SUBSET Names, NEW M \in SUBSET Names, NEW o \in Names \ L,
           Needs[o] \subseteq L \cup M,
           o \notin M \/ o \notin {"server", "window", "ui", "instance", "surface", "device", "swapChain",
                                   "msaa", "depth", "setLayout", "commandPool", "texture", "descriptorPool"}
    PROVE  MayMake(L, M, o)
BY UsersAre DEF MayMake

-----------------------------------------------------------------------------
(* Buffers, images and single-time commands.                               *)

LEMMA RunsCreateBufferResource ==
    ASSUME NEW H, NEW L, NEW M, NEW g, NEW r, At(H, Mode(L, M, g, r)), NEW o, MayMake(L, M, o),
           NEW h, NEW properties
    PROVE  /\ Runs(H, Mode(L, M, g, r), CreateBufferResource(h, o, properties), Mode(L \cup {o}, M, g, r))
           /\ At(H, Mode(L \cup {o}, M, g, r))
<1> DEFINE m == Mode(L, M, g, r)
           n == Mode(L \cup {o}, M, g, r)
<1>1. Runs(H, m, Make(o), n) /\ At(H, n)
  BY RunsMake
<1>2. /\ \A found : Runs(H, n, Needed(found), n)
      /\ Runs(H, n, Check({o}), n)
  BY <1>1, RunsCall
<1> HIDE DEF m, n
<1>3. Runs(H, m, CreateBufferResource(h, o, properties), n)
  BY <1>1, <1>2, RunsOn DEF CreateBufferResource
<1> QED
  BY <1>1, <1>3 DEF m, n

LEMMA RunsCreateImage ==
    ASSUME NEW H, NEW L, NEW M, NEW g, NEW r, At(H, Mode(L, M, g, r)), NEW o, MayMake(L, M, o),
           NEW h, NEW extent, NEW levels \in Nat
    PROVE  /\ Runs(H, Mode(L, M, g, r), CreateImage(h, o, extent, levels), Mode(L \cup {o}, M, g, r))
           /\ At(H, Mode(L \cup {o}, M, g, r))
<1> DEFINE m == Mode(L, M, g, r)
           n == Mode(L \cup {o}, M, g, r)
           parts == [l \in 1 .. levels |-> Image(o, l - 1, MipExtent(extent, l - 1))]
<1>1. Runs(H, m, Make(o), n) /\ At(H, n)
  BY RunsMake
<1>2. /\ \A found : Runs(H, n, Needed(found), n)
      /\ Runs(H, n, Check({o}), n)
      /\ \A l, e : Runs(H, n, Image(o, l, e), n)
  BY <1>1, RunsCall, RunsAccess
<1> HIDE DEF m, n
<1>3. parts = [i \in 1 .. levels |-> parts[i]] /\ \A i \in 1 .. levels : Runs(H, n, parts[i], n)
  BY <1>2
<1>4. Runs(H, n, FlattenSeq(parts), n)
  <2> HIDE DEF parts
  <2> QED
    BY <1>3, RunsEach
<1>5. Runs(H, m, CreateImage(h, o, extent, levels), n)
  BY <1>1, <1>2, <1>4, RunsOn DEF CreateImage
<1> QED
  BY <1>1, <1>5 DEF m, n

LEMMA RunsBeginSingleTimeCommands ==
    ASSUME NEW H, NEW L, NEW M, NEW g, NEW r, At(H, Mode(L, M, g, r)), MayMake(L, M, "single")
    PROVE  /\ Runs(H, Mode(L, M, g, r), BeginSingleTimeCommands, Mode(L \cup {"single"}, M, g, r))
           /\ At(H, Mode(L \cup {"single"}, M, g, r))
<1> DEFINE m == Mode(L, M, g, r)
           n == Mode(L \cup {"single"}, M, g, r)
<1>1. Runs(H, m, Make("single"), n) /\ At(H, n)
  BY RunsMake
<1>2. Runs(H, n, Check({"single"}), n)
  BY <1>1, RunsCall
<1> HIDE DEF m, n
<1>3. Runs(H, m, BeginSingleTimeCommands, n)
  BY <1>1, <1>2, RunsOn DEF BeginSingleTimeCommands
<1> QED
  BY <1>1, <1>3 DEF m, n

\* The commands are over before the function returns.
LEMMA RunsEndSingleTimeCommands ==
    ASSUME NEW H, NEW L, NEW M, NEW g, NEW r, At(H, Mode(L, M, g, r)), "single" \in L,
           "device" \in L \cup M, NEW uses, uses \subseteq (L \cup M) \cap GpuNames
    PROVE  /\ Runs(H, Mode(L, M, g, r), EndSingleTimeCommands(uses), Mode(L, M, "idle", r))
           /\ At(H, Mode(L, M, "idle", r))
<1> DEFINE m == Mode(L, M, g, r)
           n == Mode(L, M, "idle", r)
           k == Mode(L, M, "own", r)
<1>1. Runs(H, m, Check({"single"}), m)
  BY RunsCall
<1>2. Runs(H, m, Submit({"single"} \cup uses), k)
  <2>1. {"single"} \cup uses \subseteq (L \cup M) \cap GpuNames
    BY DEF GpuNames
  <2>2. L # {}
    OBVIOUS
  <2> QED
    BY <2>1, <2>2, RunsSubmit
<1>3. Runs(H, k, Wait, n) /\ At(H, n)
  <2>1. Mode(L, M, "own", r) \in Modes /\ Mode({}, M, "busy", r) \in H
    BY ModeParts DEF At
  <2> QED
    BY <2>1, RunsWait
<1> HIDE DEF m, n, k
<1>4. Runs(H, m, EndSingleTimeCommands(uses), n)
  BY <1>1, <1>2, <1>3, RunsOn DEF EndSingleTimeCommands
<1> QED
  BY <1>3, <1>4 DEF m, n

LEMMA RunsCopyBuffer ==
    ASSUME NEW H, NEW L, NEW M, NEW g, NEW r, At(H, Mode(L, M, g, r)), MayMake(L, M, "single"),
           "device" \in L \cup M, NEW from \in (L \cup M) \cap GpuNames, NEW to \in (L \cup M) \cap GpuNames
    PROVE  /\ Runs(H, Mode(L, M, g, r), CopyBuffer(from, to), Mode(L, M, "idle", r))
           /\ At(H, Mode(L, M, "idle", r))
<1> DEFINE K == L \cup {"single"}
           a == Mode(L, M, g, r)
           b == Mode(K, M, g, r)
           c == Mode(K, M, "idle", r)
           d == Mode(L, M, "idle", r)
<1>1. Runs(H, a, BeginSingleTimeCommands, b) /\ At(H, b)
  BY RunsBeginSingleTimeCommands
<1>2. /\ {from, to} \subseteq K \cup M /\ {from, to} \subseteq (K \cup M) \cap GpuNames
      /\ "single" \in K /\ "device" \in K \cup M /\ "single" \in Leaves /\ K \ {"single"} = L
  BY DEF MayMake, Leaves
<1> HIDE DEF K
<1>3. Runs(H, b, Surely({from, to}), b)
  BY <1>1, <1>2, RunsCall
<1>4. Runs(H, b, EndSingleTimeCommands({from, to}), c) /\ At(H, c)
  BY <1>1, <1>2, RunsEndSingleTimeCommands
<1>5. Runs(H, c, Drop("single"), d) /\ At(H, d)
  <2>1. "single" \in Leaves \cap K
    BY <1>2
  <2>2. Runs(H, c, Drop("single"), Mode(K \ {"single"}, M, "idle", r))
        /\ At(H, Mode(K \ {"single"}, M, "idle", r))
    BY <1>4, <2>1, RunsDrop
  <2> QED
    BY <1>2, <2>2
<1> HIDE DEF a, b, c, d
<1>6. Runs(H, a, CopyBuffer(from, to), d)
  BY <1>1, <1>3, <1>4, <1>5, RunsOn DEF CopyBuffer
<1> QED
  BY <1>5, <1>6 DEF a, d

LEMMA RunsCreateDeviceLocalBuffer ==
    ASSUME NEW H, NEW L, NEW M, NEW g, NEW r, At(H, Mode(L, M, g, r)), NEW o \in {"vertices", "indices"},
           NEW h, {"device", "commandPool"} \subseteq L \cup M, {"single", "staging", o} \cap L = {}
    PROVE  /\ Runs(H, Mode(L, M, g, r), CreateDeviceLocalBuffer(h, o), Mode(L \cup {o}, M, "idle", r))
           /\ At(H, Mode(L \cup {o}, M, "idle", r))
<1> DEFINE L1 == L \cup {"staging"}
           L2 == L1 \cup {o}
           a == Mode(L, M, g, r)
           b == Mode(L1, M, g, r)
           c == Mode(L2, M, g, r)
           d == Mode(L2, M, "idle", r)
           e == Mode(L \cup {o}, M, "idle", r)
<1>1. L \in SUBSET Names /\ M \in SUBSET Names
  BY ModeParts DEF At
<1>2. /\ "staging" \in Names \ L /\ Needs["staging"] \subseteq L \cup M
      /\ o \in Names \ L1 /\ Needs[o] \subseteq L1 \cup M /\ L1 \in SUBSET Names
      /\ "single" \in Names \ L2 /\ Needs["single"] \subseteq L2 \cup M /\ L2 \in SUBSET Names
  BY <1>1, NeedsAre, NamesAre
<1>3. MayMake(L, M, "staging") /\ MayMake(L1, M, o) /\ MayMake(L2, M, "single")
  <2> HIDE DEF L1, L2
  <2> QED
    BY <1>1, <1>2, MayMakeNew
<1>4. /\ "staging" \in L1 /\ "device" \in L2 \cup M /\ L2 \ {"staging"} = L \cup {o}
      /\ "staging" \in (L2 \cup M) \cap GpuNames /\ o \in (L2 \cup M) \cap GpuNames
      /\ "staging" \in Leaves \cap L2
  BY DEF GpuNames, Leaves
<1> HIDE DEF L1, L2
<1>5. Runs(H, a, CreateBufferResource(h, "staging", HostVisible), b) /\ At(H, b)
  BY <1>3, RunsCreateBufferResource DEF L1
<1>6. Runs(H, b, UploadToDeviceMemory("staging"), b)
  BY <1>4, <1>5, RunsCall DEF UploadToDeviceMemory
<1>7. Runs(H, b, CreateBufferResource(h, o, DeviceLocal), c) /\ At(H, c)
  BY <1>3, <1>5, RunsCreateBufferResource DEF L2
<1>8. Runs(H, c, CopyBuffer("staging", o), d) /\ At(H, d)
  BY <1>3, <1>4, <1>7, RunsCopyBuffer
<1>9. Runs(H, d, Drop("staging"), e) /\ At(H, e)
  <2>1. Runs(H, d, Drop("staging"), Mode(L2 \ {"staging"}, M, "idle", r))
        /\ At(H, Mode(L2 \ {"staging"}, M, "idle", r))
    BY <1>4, <1>8, RunsDrop
  <2> QED
    BY <1>4, <2>1
<1> HIDE DEF a, b, c, d, e
<1>10. Runs(H, a, CreateDeviceLocalBuffer(h, o), e)
  BY <1>5, <1>6, <1>7, <1>8, <1>9, RunsOn DEF CreateDeviceLocalBuffer
<1> QED
  BY <1>9, <1>10 DEF a, e

LEMMA RunsReadImageToHost ==
    ASSUME NEW H, NEW L, NEW M, NEW g, NEW r, At(H, Mode(L, M, g, r)), NEW h, NEW layout, NEW extent,
           {"device", "commandPool", "swapChain"} \subseteq L \cup M, {"single", "readback"} \cap L = {}
    PROVE  /\ Runs(H, Mode(L, M, g, r), ReadImageToHost(h, "swapChain", layout, extent), Mode(L, M, "idle", r))
           /\ At(H, Mode(L, M, "idle", r))
<1> DEFINE L1 == L \cup {"readback"}
           L2 == L1 \cup {"single"}
           a == Mode(L, M, g, r)
           b == Mode(L1, M, g, r)
           c == Mode(L2, M, g, r)
           d == Mode(L2, M, "idle", r)
           e == Mode(L1, M, "idle", r)
           f == Mode(L, M, "idle", r)
<1>1. L \in SUBSET Names /\ M \in SUBSET Names
  BY ModeParts DEF At
<1>2. /\ "readback" \in Names \ L /\ Needs["readback"] \subseteq L \cup M
      /\ L1 \in SUBSET Names
      /\ "single" \in Names \ L1 /\ Needs["single"] \subseteq L1 \cup M
  BY <1>1, NeedsAre, NamesAre
<1>3. MayMake(L, M, "readback") /\ MayMake(L1, M, "single")
  <2> HIDE DEF L1
  <2> QED
    BY <1>1, <1>2, MayMakeNew
<1>4. /\ "device" \in L2 \cup M /\ L2 \ {"single"} = L1 /\ L1 \ {"readback"} = L
      /\ "single" \in L2 /\ {"readback", "swapChain"} \subseteq (L2 \cup M) \cap GpuNames
      /\ "swapChain" \in L2 \cup M /\ {"readback"} \subseteq L2 \cup M
      /\ "single" \in Leaves \cap L2 /\ "readback" \in Leaves \cap L1
  BY DEF GpuNames, Leaves
<1> HIDE DEF L1, L2
<1>5. Runs(H, a, CreateBufferResource(h, "readback", HostVisible), b) /\ At(H, b)
  BY <1>3, RunsCreateBufferResource DEF L1
<1>6. Runs(H, b, BeginSingleTimeCommands, c) /\ At(H, c)
  BY <1>3, <1>5, RunsBeginSingleTimeCommands DEF L2
<1>7. /\ \A l, t, u, v, w : Runs(H, c, TransitionImageLayout("swapChain", l, t, u, v, w), c)
      /\ \A l, t, u, v : Runs(H, c, Use("swapChain", l, t, u, v), c)
  BY <1>4, <1>6, RunsAccess
<1>8. Runs(H, c, EndSingleTimeCommands({"readback", "swapChain"}), d) /\ At(H, d)
  BY <1>4, <1>6, RunsEndSingleTimeCommands
<1>9. Runs(H, d, Check({"readback"}), d)
  BY <1>4, <1>8, RunsCall
<1>10. Runs(H, d, Drop("single"), e) /\ At(H, e)
  <2>1. Runs(H, d, Drop("single"), Mode(L2 \ {"single"}, M, "idle", r))
        /\ At(H, Mode(L2 \ {"single"}, M, "idle", r))
    BY <1>4, <1>8, RunsDrop
  <2> QED
    BY <1>4, <2>1
<1>11. Runs(H, e, Drop("readback"), f) /\ At(H, f)
  <2>1. Runs(H, e, Drop("readback"), Mode(L1 \ {"readback"}, M, "idle", r))
        /\ At(H, Mode(L1 \ {"readback"}, M, "idle", r))
    BY <1>4, <1>10, RunsDrop
  <2> QED
    BY <1>4, <2>1
<1> HIDE DEF a, b, c, d, e, f
<1> DEFINE p == CreateBufferResource(h, "readback", HostVisible) \o BeginSingleTimeCommands
                \o TransitionImageLayout("swapChain", 0, layout, "transferSrc", {}, {"transferRead"})
                \o Use("swapChain", 0, "transferSrc", {"transferRead"}, extent)
                \o TransitionImageLayout("swapChain", 0, "transferSrc", layout, {"transferRead"}, {})
<1>12. Runs(H, a, p, c)
  BY <1>5, <1>6, <1>7, RunsOn
<1>13. ReadImageToHost(h, "swapChain", layout, extent) =
         p \o EndSingleTimeCommands({"readback", "swapChain"})
           \o Check({"readback"}) \o Drop("single") \o Drop("readback")
  BY DEF ReadImageToHost
<1> HIDE DEF p
<1>14. Runs(H, a, ReadImageToHost(h, "swapChain", layout, extent), f)
  BY <1>8, <1>9, <1>10, <1>11, <1>12, <1>13, RunsOn
<1> QED
  BY <1>11, <1>14 DEF a, f

-----------------------------------------------------------------------------
(* The texture.                                                            *)

LEMMA RunsGenerateMipmaps ==
    ASSUME NEW H, NEW L, NEW M, NEW g, NEW r, At(H, Mode(L, M, g, r)), "texture" \in L,
           NEW extent, NEW levels \in 1 .. 32
    PROVE  Runs(H, Mode(L, M, g, r), GenerateMipmaps(extent, levels), Mode(L, M, g, r))
<1> DEFINE m == Mode(L, M, g, r)
<1>1. /\ \A l, t, u, v, w : Runs(H, m, TransitionImageLayout("texture", l, t, u, v, w), m)
      /\ \A l, t, u, v : Runs(H, m, Use("texture", l, t, u, v), m)
  BY RunsAccess
<1> HIDE DEF m
<1>2. Runs(H, m, GenerateMipmapsButTheLast(extent, levels), m)
  <2> DEFINE sizes == CHOOSE s : s = [l \in 0 .. levels |-> IF l = 0 THEN extent
                                         ELSE [i \in 1 .. 2 |-> Max({1, s[l - 1][i] \div 2})]]
             Blit(l) ==
                 TransitionImageLayout("texture", l - 1, "transferDst", "transferSrc",
                                       {"transferWrite"}, {"transferRead"})
                 \o Use("texture", l - 1, "transferSrc", {"transferRead"}, sizes[l - 1])
                 \o Use("texture", l, "transferDst", {"transferWrite"}, sizes[l])
                 \o TransitionImageLayout("texture", l - 1, "transferSrc", "shaderRead",
                                          {"transferRead"}, {"sampledRead"})
             parts == [l \in 1 .. levels - 1 |-> Blit(l)]
  <2>1. GenerateMipmapsButTheLast(extent, levels) = FlattenSeq(parts)
    BY DEF GenerateMipmapsButTheLast
  <2> HIDE DEF sizes
  <2>2. \A l : Runs(H, m, Blit(l), m)
    BY <1>1, RunsOn
  <2> HIDE DEF Blit
  <2>3. levels - 1 \in Nat /\ parts = [i \in 1 .. levels - 1 |-> parts[i]]
        /\ \A i \in 1 .. levels - 1 : Runs(H, m, parts[i], m)
    BY <2>2
  <2> HIDE DEF parts
  <2> QED
    BY <2>1, <2>3, RunsEach
<1>3. Runs(H, m, GenerateMipmaps(extent, levels), m)
  BY <1>1, <1>2, RunsOn DEF GenerateMipmaps
<1> QED
  BY <1>3 DEF m

LEMMA RunsCreateTextureImage ==
    ASSUME NEW H, NEW L, NEW M, NEW g, NEW r, At(H, Mode(L, M, g, r)), NEW h,
           MipLevels(h.texture) \in 1 .. 32, {"device", "commandPool"} \subseteq L \cup M,
           {"single", "staging", "texture"} \cap L = {}, "texture" \notin M
    PROVE  /\ Runs(H, Mode(L, M, g, r), CreateTextureImage(h), Mode(L \cup {"texture"}, M, "idle", r))
           /\ At(H, Mode(L \cup {"texture"}, M, "idle", r))
<1> DEFINE L1 == L \cup {"staging"}
           L2 == L1 \cup {"texture"}
           L3 == L2 \cup {"single"}
           a == Mode(L, M, g, r)
           b == Mode(L1, M, g, r)
           c == Mode(L2, M, g, r)
           d == Mode(L3, M, g, r)
           e == Mode(L3, M, "idle", r)
           f == Mode(L2, M, "idle", r)
           k == Mode(L \cup {"texture"}, M, "idle", r)
           levels == MipLevels(h.texture)
<1>1. L \in SUBSET Names /\ M \in SUBSET Names /\ levels \in 1 .. 32 /\ levels \in Nat
  BY ModeParts DEF At
<1>2. /\ "staging" \in Names \ L /\ Needs["staging"] \subseteq L \cup M
      /\ "texture" \in Names \ L1 /\ Needs["texture"] \subseteq L1 \cup M /\ L1 \in SUBSET Names
      /\ "single" \in Names \ L2 /\ Needs["single"] \subseteq L2 \cup M /\ L2 \in SUBSET Names
  BY <1>1, NeedsAre, NamesAre
<1>3. MayMake(L, M, "staging") /\ MayMake(L1, M, "texture") /\ MayMake(L2, M, "single")
  <2> HIDE DEF L1, L2
  <2> QED
    BY <1>1, <1>2, MayMakeNew
<1>4. /\ "staging" \in L1 /\ "texture" \in L3 /\ "single" \in L3 /\ "device" \in L3 \cup M
      /\ L3 \ {"single"} = L2 /\ L2 \ {"staging"} = L \cup {"texture"}
      /\ {"staging", "texture"} \subseteq (L3 \cup M) \cap GpuNames
      /\ "single" \in Leaves \cap L3 /\ "staging" \in Leaves \cap L2
  BY DEF GpuNames, Leaves
<1> HIDE DEF L1, L2, L3, levels
<1>5. Runs(H, a, Check({}), a)
  BY RunsCall
<1>6. Runs(H, a, CreateBufferResource(h, "staging", HostVisible), b) /\ At(H, b)
  BY <1>3, RunsCreateBufferResource DEF L1
<1>7. Runs(H, b, UploadToDeviceMemory("staging"), b) /\ Runs(H, b, Needed(h.linearBlit), b)
  BY <1>4, <1>6, RunsCall DEF UploadToDeviceMemory
<1>8. Runs(H, b, CreateImage(h, "texture", h.texture, levels), c) /\ At(H, c)
  BY <1>1, <1>3, <1>6, RunsCreateImage DEF L2
<1>9. Runs(H, c, BeginSingleTimeCommands, d) /\ At(H, d)
  BY <1>3, <1>8, RunsBeginSingleTimeCommands DEF L3
<1> DEFINE parts == [l \in 1 .. levels |-> TransitionImageLayout("texture", l - 1, "undefined", "transferDst",
                                                              {}, {"transferWrite"})]
<1>10. Runs(H, d, FlattenSeq(parts), d)
  <2>1. \A l, t, u, v, w : Runs(H, d, TransitionImageLayout("texture", l, t, u, v, w), d)
    BY <1>4, <1>9, RunsAccess
  <2>2. parts = [i \in 1 .. levels |-> parts[i]] /\ \A i \in 1 .. levels : Runs(H, d, parts[i], d)
    BY <2>1
  <2> HIDE DEF parts
  <2> QED
    BY <1>1, <2>2, RunsEach
<1>11. Runs(H, d, CopyBufferToImage(h.texture), d)
  BY <1>4, <1>9, RunsAccess DEF CopyBufferToImage
<1>12. Runs(H, d, GenerateMipmaps(h.texture, levels), d)
  BY <1>1, <1>4, <1>9, RunsGenerateMipmaps
<1>13. Runs(H, d, EndSingleTimeCommands({"staging", "texture"}), e) /\ At(H, e)
  BY <1>4, <1>9, RunsEndSingleTimeCommands
<1>14. Runs(H, e, Drop("single"), f) /\ At(H, f)
  <2>1. Runs(H, e, Drop("single"), Mode(L3 \ {"single"}, M, "idle", r))
        /\ At(H, Mode(L3 \ {"single"}, M, "idle", r))
    BY <1>4, <1>13, RunsDrop
  <2> QED
    BY <1>4, <2>1
<1>15. Runs(H, f, Drop("staging"), k) /\ At(H, k)
  <2>1. Runs(H, f, Drop("staging"), Mode(L2 \ {"staging"}, M, "idle", r))
        /\ At(H, Mode(L2 \ {"staging"}, M, "idle", r))
    BY <1>4, <1>14, RunsDrop
  <2> QED
    BY <1>4, <2>1
<1> HIDE DEF a, b, c, d, e, f, k, parts
<1> DEFINE p == Check({}) \o CreateBufferResource(h, "staging", HostVisible)
                \o UploadToDeviceMemory("staging") \o Needed(h.linearBlit)
                \o CreateImage(h, "texture", h.texture, levels) \o BeginSingleTimeCommands
<1>16. Runs(H, a, p, d)
  BY <1>5, <1>6, <1>7, <1>8, <1>9, RunsOn
<1>17. CreateTextureImage(h) =
         p \o FlattenSeq(parts) \o CopyBufferToImage(h.texture) \o GenerateMipmaps(h.texture, levels)
           \o EndSingleTimeCommands({"staging", "texture"}) \o Drop("single") \o Drop("staging")
  BY DEF CreateTextureImage, parts, levels
<1> HIDE DEF p
<1>18. Runs(H, a, CreateTextureImage(h), k)
  BY <1>10, <1>11, <1>12, <1>13, <1>14, <1>15, <1>16, <1>17, RunsOn
<1> QED
  BY <1>15, <1>18 DEF a, k

-----------------------------------------------------------------------------
(* The device, the swap chain and what is drawn into.                      *)

LEMMA RunsCreateSwapChainResources ==
    ASSUME NEW H, NEW L, NEW M, NEW g, NEW r, At(H, Mode(L, M, g, r)), NEW surface, NEW size,
           {"device", "surface"} \subseteq L \cup M, {"swapChain", "swapViews"} \cap (L \cup M) = {},
           "readback" \notin L
    PROVE  /\ Runs(H, Mode(L, M, g, r), CreateSwapChainResources(surface, size),
                   Mode(L \cup {"swapChain", "swapViews"}, M, g, r))
           /\ At(H, Mode(L \cup {"swapChain", "swapViews"}, M, g, r))
<1> DEFINE L1 == L \cup {"swapChain"}
           L2 == L \cup {"swapChain", "swapViews"}
           a == Mode(L, M, g, r)
           b == Mode(L1, M, g, r)
           c == Mode(L2, M, g, r)
<1>1. L \in SUBSET Names /\ M \in SUBSET Names
  BY ModeParts DEF At
<1>2. /\ "swapChain" \in Names \ L /\ Needs["swapChain"] \subseteq L \cup M /\ "swapChain" \notin M
      /\ L1 \in SUBSET Names
      /\ "swapViews" \in Names \ L1 /\ Needs["swapViews"] \subseteq L1 \cup M /\ "swapViews" \notin M
  BY <1>1, NeedsAre, NamesAre
<1>3. MayMake(L, M, "swapChain") /\ MayMake(L1, M, "swapViews")
  <2> HIDE DEF L1
  <2> QED
    BY <1>1, <1>2, MayMakeNew
<1>4. "swapChain" \in L1 /\ L1 \cup {"swapViews"} = L2 /\ "readback" \notin L1
  OBVIOUS
<1> HIDE DEF L1, L2
<1>5. Runs(H, a, Check({"device", "surface"}), a)
  BY RunsCall
<1>6. Runs(H, a, Make("swapChain"), b) /\ At(H, b)
  BY <1>3, RunsMake DEF L1
<1>7. Runs(H, b, Check({"swapChain"}), b) /\ \A x : Runs(H, b, Chain(x), b)
  BY <1>4, <1>6, RunsCall, RunsAccess
<1>8. Runs(H, b, Make("swapViews"), c) /\ At(H, c)
  BY <1>3, <1>4, <1>6, RunsMake
<1> HIDE DEF a, b, c
<1>9. Runs(H, a, CreateSwapChainResources(surface, size), c)
  BY <1>5, <1>6, <1>7, <1>8, RunsOn DEF CreateSwapChainResources, CreateImageView
<1> QED
  BY <1>8, <1>9 DEF a, c, L2

\* The same for the colour and the depth image.
LEMMA RunsCreateImageAndView ==
    ASSUME NEW H, NEW L, NEW M, NEW g, NEW r, At(H, Mode(L, M, g, r)), NEW h, NEW extent,
           NEW o, NEW view, <<o, view>> \in {<<"msaa", "msaaView">>, <<"depth", "depthView">>},
           "device" \in L \cup M, {o, view} \cap L = {}
    PROVE  /\ Runs(H, Mode(L, M, g, r), CreateImage(h, o, extent, 1) \o CreateImageView(view),
                   Mode(L \cup {o, view}, M, g, r))
           /\ At(H, Mode(L \cup {o, view}, M, g, r))
<1> DEFINE L1 == L \cup {o}
           L2 == L \cup {o, view}
           a == Mode(L, M, g, r)
           b == Mode(L1, M, g, r)
           c == Mode(L2, M, g, r)
<1>1. L \in SUBSET Names /\ M \in SUBSET Names
  BY ModeParts DEF At
<1>2. MayMake(L, M, o)
  <2>1. o \in Names /\ Needs[o] = {"device"} /\ \A x \in Names : o \in Needs[x] => x = view
    BY NeedsAre, NamesAre, UsersAre
  <2> QED
    BY <1>1, <2>1 DEF MayMake
<1>3. L1 \in SUBSET Names /\ view \in Names \ L1 /\ Needs[view] \subseteq L1 \cup M
  BY <1>1, NeedsAre, NamesAre, ZenonT(40)
<1>4. MayMake(L1, M, view)
  <2> HIDE DEF L1
  <2> QED
    BY <1>1, <1>3, MayMakeNew
<1>5. L1 \cup {view} = L2
  OBVIOUS
<1> HIDE DEF L1, L2
<1>6. Runs(H, a, CreateImage(h, o, extent, 1), b) /\ At(H, b)
  BY <1>2, RunsCreateImage DEF L1
<1>7. Runs(H, b, CreateImageView(view), c) /\ At(H, c)
  BY <1>4, <1>5, <1>6, RunsMake DEF CreateImageView
<1> HIDE DEF a, b, c
<1>8. Runs(H, a, CreateImage(h, o, extent, 1) \o CreateImageView(view), c)
  BY <1>6, <1>7, RunsOn
<1> QED
  BY <1>7, <1>8 DEF a, c, L2

-----------------------------------------------------------------------------
(* The renderer's creation.                                                *)

EngineNames == {"server", "window", "cursor", "ui", "channel", "ecs", "app"}

TargetNames(dev) ==
    {"instance", "surface", "device", "swapChain", "swapViews", "msaa", "msaaView", "depth", "depthView"}
    \cup (IF dev THEN {"messenger"} ELSE {})

LEMMA RunsCreateDeviceAndTargets ==
    ASSUME NEW H, NEW M, NEW g, NEW r, At(H, Mode({}, M, g, r)), NEW h, NEW size,
           M \subseteq EngineNames, "window" \in M
    PROVE  /\ Runs(H, Mode({}, M, g, r), CreateDeviceAndTargets(h, size), Mode(TargetNames(h.dev), M, g, r))
           /\ At(H, Mode(TargetNames(h.dev), M, g, r))
<1> DEFINE L1 == {"instance"}
           L2 == L1 \cup (IF h.dev THEN {"messenger"} ELSE {})
           L3 == L2 \cup {"surface"}
           L4 == L3 \cup {"device"}
           L5 == L4 \cup {"swapChain", "swapViews"}
           L6 == L5 \cup {"msaa", "msaaView"}
           L7 == L6 \cup {"depth", "depthView"}
           a == Mode({}, M, g, r)
           b == Mode(L1, M, g, r)
           c == Mode(L2, M, g, r)
           d == Mode(L3, M, g, r)
           e == Mode(L4, M, g, r)
           f == Mode(L5, M, g, r)
           k == Mode(L6, M, g, r)
           n == Mode(L7, M, g, r)
           extent == SwapChainChoice(h.surface, size).extent
           found == SelectPhysicalDevice(h.devices) = 0
<1>1. M \in SUBSET Names
  BY ModeParts DEF At
<1>2. /\ L1 \in SUBSET Names /\ L2 \in SUBSET Names /\ L3 \in SUBSET Names
      /\ "instance" \in Names \ {} /\ Needs["instance"] \subseteq {} \cup M /\ "instance" \notin M
      /\ "messenger" \in Names \ L1 /\ Needs["messenger"] \subseteq L1 \cup M /\ "messenger" \notin M
      /\ "surface" \in Names \ L2 /\ Needs["surface"] \subseteq L2 \cup M /\ "surface" \notin M
      /\ "device" \in Names \ L3 /\ Needs["device"] \subseteq L3 \cup M /\ "device" \notin M
  BY <1>1, NeedsAre, NamesAre DEF EngineNames
<1>3. /\ MayMake({}, M, "instance") /\ MayMake(L1, M, "messenger") /\ MayMake(L2, M, "surface")
      /\ MayMake(L3, M, "device")
  <2> HIDE DEF L1, L2, L3
  <2> QED
    BY <1>1, <1>2, MayMakeNew
<1>4. /\ {"instance"} \subseteq L3 \cup M /\ {"device", "surface"} \subseteq L4 \cup M
      /\ {"swapChain", "swapViews"} \cap (L4 \cup M) = {} /\ "readback" \notin L4
      /\ "device" \in L5 \cup M /\ {"msaa", "msaaView"} \cap L5 = {}
      /\ "device" \in L6 \cup M /\ {"depth", "depthView"} \cap L6 = {}
      /\ L7 = TargetNames(h.dev) /\ L1 = {} \cup {"instance"}
  BY DEF EngineNames, TargetNames
<1> HIDE DEF L1
<1>5. Runs(H, a, CreateInstance(h), b) /\ At(H, b)
  <2>1. \A x : Runs(H, a, Needed(x), a)
    BY RunsCall
  <2>2. Runs(H, a, Make("instance"), b) /\ At(H, b)
    BY <1>3, <1>4, RunsMake
  <2> HIDE DEF a, b
  <2> QED
    BY <2>1, <2>2, RunsOn DEF CreateInstance
<1>6. Runs(H, b, CreateDebugMessenger(h), c) /\ At(H, c)
  <2>1. CASE h.dev
    <3>1. L2 = L1 \cup {"messenger"}
      BY <2>1
    <3>2. Runs(H, b, Make("messenger"), Mode(L1 \cup {"messenger"}, M, g, r))
          /\ At(H, Mode(L1 \cup {"messenger"}, M, g, r))
      BY <1>3, <1>5, RunsMake
    <3> QED
      BY <2>1, <3>1, <3>2 DEF CreateDebugMessenger
  <2>2. CASE ~h.dev
    <3>1. L2 = L1
      BY <2>2
    <3>2. Runs(H, b, <<>>, b)
      BY LeadsNowhere DEF Runs
    <3> QED
      BY <1>5, <2>2, <3>1, <3>2 DEF CreateDebugMessenger
  <2> QED
    BY <2>1, <2>2
<1> HIDE DEF L2
<1>7. Runs(H, c, CreateSurface, d) /\ At(H, d)
  BY <1>3, <1>6, RunsMake DEF CreateSurface
<1> HIDE DEF L3
<1>8. Runs(H, d, CreateLogicalDevice(h), e) /\ At(H, e)
  <2>1. Runs(H, d, Check({"instance"}), d) /\ \A x : Runs(H, d, Needed(x), d)
    BY <1>4, <1>7, RunsCall
  <2>2. Runs(H, d, Make("device"), e) /\ At(H, e)
    BY <1>3, <1>7, RunsMake
  <2>3. Runs(H, d, <<>>, d)
    BY LeadsNowhere DEF Runs
  <2> HIDE DEF d, e
  <2>4. \A p, x : Runs(H, d, IF p THEN <<>> ELSE Needed(x), d)
    BY <2>1, <2>3
  <2>5. Runs(H, d, CreateLogicalDevice(h), e)
    BY <2>1, <2>2, <2>4, RunsOn DEF CreateLogicalDevice
  <2> QED
    BY <2>2, <2>5
<1> HIDE DEF L4
<1>9. Runs(H, e, Check({"device", "surface"}), e) /\ \A x : Runs(H, e, Needed(x), e)
  BY <1>4, <1>8, RunsCall
<1>10. Runs(H, e, CreateSwapChainResources(h.surface, size), f) /\ At(H, f)
  BY <1>4, <1>8, RunsCreateSwapChainResources
<1> HIDE DEF L5
<1>11. \A p, x : Runs(H, f, IF p THEN <<>> ELSE Needed(x), f)
  <2>1. {} \subseteq L5 \cup M
    OBVIOUS
  <2>2. \A x : Runs(H, f, Needed(x), f)
    BY <1>10, <2>1, RunsCall
  <2>3. Runs(H, f, <<>>, f)
    BY LeadsNowhere DEF Runs
  <2> QED
    BY <2>2, <2>3
<1>12. Runs(H, f, CreateMultisampleColorResources(h, extent), k) /\ At(H, k)
  <2> HIDE DEF extent
  <2> QED
    BY <1>4, <1>10, RunsCreateImageAndView DEF CreateMultisampleColorResources
<1> HIDE DEF L6
<1>13. Runs(H, k, CreateDepthResources(h, extent), n) /\ At(H, n)
  <2> HIDE DEF extent
  <2> QED
    BY <1>4, <1>12, RunsCreateImageAndView DEF CreateDepthResources
<1> HIDE DEF a, b, c, d, e, f, k, n
<1> DEFINE p == CreateInstance(h) \o CreateDebugMessenger(h) \o CreateSurface
                \o CreateLogicalDevice(h)
                \o Check({"device", "surface"}) \o Needed(SelectSurfaceFormat(h.surface.formats) # "none")
                \o CreateSwapChainResources(h.surface, size)
           q == IF found THEN <<>> ELSE Needed(FindDepthFormat(Device(h)) # "none")
<1>14. Runs(H, a, p, f)
  BY <1>5, <1>6, <1>7, <1>8, <1>9, <1>10, RunsOn
<1>15. Runs(H, f, q, f)
  BY <1>11, Zenon
<1>16. CreateDeviceAndTargets(h, size) =
         p \o q \o CreateMultisampleColorResources(h, extent) \o CreateDepthResources(h, extent)
  BY DEF CreateDeviceAndTargets
<1> HIDE DEF p, q, extent
<1>17. Runs(H, a, CreateDeviceAndTargets(h, size), n)
  BY <1>12, <1>13, <1>14, <1>15, <1>16, RunsOn
<1> QED
  BY <1>4, <1>13, <1>17 DEF a, n

PipelineNames ==
    {"setLayout", "pipelineLayout", "pipeline", "commandPool", "texture", "textureView", "sampler",
     "uniforms", "descriptorPool", "descriptorSets", "commandBuffers", "renderFinished",
     "presentComplete", "fences"}

RendererNames(dev) == TargetNames(dev) \cup PipelineNames

\* One more object of the renderer.
LEMMA RunsMakeNext ==
    ASSUME NEW H, NEW L, NEW M, NEW g, NEW r, At(H, Mode(L, M, g, r)),
           NEW o \in Names, o \notin L \cup M, Needs[o] \subseteq L
    PROVE  /\ Runs(H, Mode(L, M, g, r), Make(o), Mode(L \cup {o}, M, g, r))
           /\ At(H, Mode(L \cup {o}, M, g, r))
<1>1. L \in SUBSET Names /\ M \in SUBSET Names
  BY ModeParts DEF At
<1>2. MayMake(L, M, o)
  BY <1>1, MayMakeNew
<1> QED
  BY <1>2, RunsMake

LEMMA RunsCreatePipelineAndFrames ==
    ASSUME NEW H, NEW M, NEW g, NEW r, NEW h, At(H, Mode(TargetNames(h.dev), M, g, r)),
           M \subseteq EngineNames, MipLevels(h.texture) \in 1 .. 32
    PROVE  Runs(H, Mode(TargetNames(h.dev), M, g, r), CreatePipelineAndFrames(h),
                Mode({}, M \cup RendererNames(h.dev), "idle", r))
<1> DEFINE L0 == TargetNames(h.dev)
           L1 == L0 \cup {"setLayout"}
           L2 == L1 \cup {"pipelineLayout"}
           L3 == L2 \cup {"shaders"}
           L4 == L3 \cup {"pipeline"}
           L5 == L4 \ {"shaders"}
           L6 == L5 \cup {"commandPool"}
           L7 == L6 \cup {"texture"}
           L8 == L7 \cup {"textureView"}
           L9 == L8 \cup {"sampler"}
           L10 == L9 \cup {"uniforms"}
           L11 == L10 \cup {"descriptorPool"}
           L12 == L11 \cup {"descriptorSets"}
           L13 == L12 \cup {"commandBuffers"}
           L14 == L13 \cup {"renderFinished"}
           L15 == L14 \cup {"presentComplete"}
           L16 == L15 \cup {"fences"}
           m0 == Mode(L0, M, g, r)
           m1 == Mode(L1, M, g, r)
           m2 == Mode(L2, M, g, r)
           m3 == Mode(L3, M, g, r)
           m4 == Mode(L4, M, g, r)
           m5 == Mode(L5, M, g, r)
           m6 == Mode(L6, M, g, r)
           m7 == Mode(L7, M, "idle", r)
           m8 == Mode(L8, M, "idle", r)
           m9 == Mode(L9, M, "idle", r)
           m10 == Mode(L10, M, "idle", r)
           m11 == Mode(L11, M, "idle", r)
           m12 == Mode(L12, M, "idle", r)
           m13 == Mode(L13, M, "idle", r)
           m14 == Mode(L14, M, "idle", r)
           m15 == Mode(L15, M, "idle", r)
           m16 == Mode(L16, M, "idle", r)
           done == Mode({}, M \cup RendererNames(h.dev), "idle", r)
<1>1. /\ "setLayout" \in Names /\ "setLayout" \notin L0 \cup M /\ Needs["setLayout"] \subseteq L0
      /\ "pipelineLayout" \in Names /\ "pipelineLayout" \notin L1 \cup M /\ Needs["pipelineLayout"] \subseteq L1
      /\ "shaders" \in Names /\ "shaders" \notin L2 \cup M /\ Needs["shaders"] \subseteq L2
      /\ "pipeline" \in Names /\ "pipeline" \notin L3 \cup M /\ Needs["pipeline"] \subseteq L3
      /\ "commandPool" \in Names /\ "commandPool" \notin L5 \cup M /\ Needs["commandPool"] \subseteq L5
      /\ "textureView" \in Names /\ "textureView" \notin L7 \cup M /\ Needs["textureView"] \subseteq L7
      /\ "sampler" \in Names /\ "sampler" \notin L8 \cup M /\ Needs["sampler"] \subseteq L8
      /\ "uniforms" \in Names /\ "uniforms" \notin L9 \cup M /\ Needs["uniforms"] \subseteq L9
      /\ "descriptorPool" \in Names /\ "descriptorPool" \notin L10 \cup M /\ Needs["descriptorPool"] \subseteq L10
      /\ "descriptorSets" \in Names /\ "descriptorSets" \notin L11 \cup M /\ Needs["descriptorSets"] \subseteq L11
      /\ "commandBuffers" \in Names /\ "commandBuffers" \notin L12 \cup M /\ Needs["commandBuffers"] \subseteq L12
      /\ "renderFinished" \in Names /\ "renderFinished" \notin L13 \cup M /\ Needs["renderFinished"] \subseteq L13
      /\ "presentComplete" \in Names /\ "presentComplete" \notin L14 \cup M /\ Needs["presentComplete"] \subseteq L14
      /\ "fences" \in Names /\ "fences" \notin L15 \cup M /\ Needs["fences"] \subseteq L15
  BY NeedsAre, NamesAre DEF EngineNames, TargetNames
<1>2. /\ {"pipelineLayout", "shaders"} \subseteq L3 \cup M /\ "shaders" \in Leaves \cap L4
      /\ {"device", "commandPool"} \subseteq L6 \cup M /\ {"single", "staging", "texture"} \cap L6 = {}
      /\ "texture" \notin M /\ {"uniforms"} \subseteq L10 \cup M /\ {"setLayout"} \subseteq L11 \cup M
      /\ {"descriptorSets", "uniforms", "sampler", "textureView"} \subseteq L12 \cup M
      /\ L16 \cap M = {} /\ M \cup L16 = M \cup RendererNames(h.dev)
  BY DEF EngineNames, TargetNames, PipelineNames, RendererNames, Leaves
<1> HIDE DEF L0, L1, L2, L3, L4, L5, L6, L7, L8, L9, L10, L11, L12, L13, L14, L15, L16
<1>0. At(H, m0)
  BY DEF L0
<1>3. Runs(H, m0, Make("setLayout"), m1) /\ At(H, m1)
  BY <1>0, <1>1, RunsMakeNext DEF L1
<1>4. Runs(H, m1, Make("pipelineLayout"), m2) /\ At(H, m2)
  BY <1>3, <1>1, RunsMakeNext DEF L2
<1>5. Runs(H, m2, Make("shaders"), m3) /\ At(H, m3)
  BY <1>4, <1>1, RunsMakeNext DEF L3
<1>6. Runs(H, m3, Make("pipeline"), m4) /\ At(H, m4)
  BY <1>5, <1>1, RunsMakeNext DEF L4
<1>7. Runs(H, m4, Drop("shaders"), m5) /\ At(H, m5)
  BY <1>6, <1>2, RunsDrop DEF L5
<1>8. Runs(H, m5, Make("commandPool"), m6) /\ At(H, m6)
  BY <1>7, <1>1, RunsMakeNext DEF L6
<1>9. Runs(H, m6, CreateTextureImage(h), m7) /\ At(H, m7)
  BY <1>8, <1>2, RunsCreateTextureImage DEF L7
<1>10. Runs(H, m7, Make("textureView"), m8) /\ At(H, m8)
  BY <1>9, <1>1, RunsMakeNext DEF L8
<1>11. Runs(H, m8, Make("sampler"), m9) /\ At(H, m9)
  BY <1>10, <1>1, RunsMakeNext DEF L9
<1>12. Runs(H, m9, CreateUniformBuffer(h), m10) /\ At(H, m10)
  <2>1. MayMake(L9, M, "uniforms")
    <3>1. L9 \in SUBSET Names /\ M \in SUBSET Names
      BY <1>11, ModeParts DEF At
    <3> QED
      BY <1>1, <3>1, MayMakeNew
  <2>2. Runs(H, m9, CreateBufferResource(h, "uniforms", HostVisible), m10) /\ At(H, m10)
    BY <1>11, <2>1, RunsCreateBufferResource DEF L10
  <2>3. Runs(H, m10, Check({"uniforms"}), m10)
    BY <1>2, <2>2, RunsCall
  <2> HIDE DEF m9, m10
  <2> QED
    BY <2>2, <2>3, RunsOn DEF CreateUniformBuffer
<1>13. Runs(H, m10, Make("descriptorPool"), m11) /\ At(H, m11)
  BY <1>12, <1>1, RunsMakeNext DEF L11
<1>14. Runs(H, m11, Make("descriptorSets"), m12) /\ At(H, m12)
  BY <1>13, <1>1, RunsMakeNext DEF L12
<1>15. Runs(H, m12, Make("commandBuffers"), m13) /\ At(H, m13)
  BY <1>14, <1>1, RunsMakeNext DEF L13
<1>16. Runs(H, m13, Make("renderFinished"), m14) /\ At(H, m14)
  BY <1>15, <1>1, RunsMakeNext DEF L14
<1>17. Runs(H, m14, Make("presentComplete"), m15) /\ At(H, m15)
  BY <1>16, <1>1, RunsMakeNext DEF L15
<1>18. Runs(H, m15, Make("fences"), m16) /\ At(H, m16)
  BY <1>17, <1>1, RunsMakeNext DEF L16
<1>19. Runs(H, m3, Surely({"pipelineLayout", "shaders"}), m3)
  BY <1>2, <1>5, RunsCall
<1>20. Runs(H, m2, Check({}), m2)
  BY <1>4, RunsCall
<1>21. Runs(H, m11, Surely({"setLayout"}), m11)
  BY <1>2, <1>13, RunsCall
<1>22. Runs(H, m12, Surely({"descriptorSets", "uniforms", "sampler", "textureView"}), m12)
  BY <1>2, <1>14, RunsCall
<1>23. Runs(H, m16, Adopt, done)
  BY <1>2, <1>18, RunsAdopt DEF At
<1> HIDE DEF m0, m1, m2, m3, m4, m5, m6, m7, m8, m9, m10, m11, m12, m13, m14, m15, m16, done
<1>24. Runs(H, m2, CreateGraphicsPipeline, m5)
  BY <1>5, <1>6, <1>7, <1>19, <1>20, RunsOn DEF CreateGraphicsPipeline, LoadShaderModule
<1>25. Runs(H, m11, CreateDescriptorSets, m12)
  BY <1>14, <1>21, RunsOn DEF CreateDescriptorSets
<1> DEFINE p == CreateDescriptorSetLayout \o CreatePipelineLayout \o CreateGraphicsPipeline
                \o CreateCommandPool \o CreateTextureImage(h) \o CreateImageView("textureView")
                \o CreateTextureSampler
           q == p \o CreateUniformBuffer(h)
                \o CreateDescriptorPool \o CreateDescriptorSets
                \o Surely({"descriptorSets", "uniforms", "sampler", "textureView"})
<1>26. Runs(H, m0, p, m9)
  BY <1>3, <1>4, <1>24, <1>8, <1>9, <1>10, <1>11, RunsOn
     DEF CreateDescriptorSetLayout, CreatePipelineLayout, CreateCommandPool, CreateImageView, CreateTextureSampler
<1> HIDE DEF p
<1>27. Runs(H, m0, q, m12)
  BY <1>26, <1>12, <1>13, <1>25, <1>22, RunsOn DEF CreateDescriptorPool
<1>28. CreatePipelineAndFrames(h) =
         q \o AllocateCommandBuffers \o CreateSemaphores("renderFinished")
           \o CreateSemaphores("presentComplete") \o CreateSignaledFences \o Adopt
  BY DEF CreatePipelineAndFrames, p
<1> HIDE DEF q
<1>29. Runs(H, m0, CreatePipelineAndFrames(h), done)
  BY <1>27, <1>28, <1>15, <1>16, <1>17, <1>18, <1>23, RunsOn
     DEF AllocateCommandBuffers, CreateSemaphores, CreateSignaledFences
<1> QED
  BY <1>29 DEF m0, done, L0

-----------------------------------------------------------------------------
(* Frames.                                                                 *)

LEMMA LeadsEither ==
    ASSUME NEW H, NEW m \in Modes, m.gpu # "own", NEW N, NEW p, NEW q, Leads(H, m, p, N), Leads(H, m, q, N)
    PROVE  Leads(H, m, Choose(<<p, q>>), N)
<1> DEFINE alternatives == <<p, q>>
<1>1. DOMAIN alternatives = {1, 2} /\ alternatives[1] = p /\ alternatives[2] = q
  OBVIOUS
<1> HIDE DEF alternatives
<1>2. \A i \in DOMAIN alternatives : Leads(H, m, alternatives[i], N)
  BY <1>1
<1>3. Leads(H, m, Choose(alternatives), N)
  BY <1>2, LeadsChoice
<1> QED
  BY <1>3 DEF alternatives

MemberNames == EngineNames \cup RendererNames(TRUE) \cup {"backend", "vertices", "indices"}

\* What Shutdown can begin with.
CanEnd(M) ==
    /\ M \subseteq MemberNames
    /\ IF "fences" \in M THEN "device" \in M ELSE M \subseteq EngineNames

\* How a boot or a frame may fail.
Failures == {m \in Modes : m.locals = {} /\ m.gpu = "busy" /\ CanEnd(m.members)}

LEMMA AtCanEnd ==
    ASSUME NEW L \in SUBSET Names, NEW M, CanEnd(M), NEW g \in {"idle", "busy"}, NEW r \in BOOLEAN
    PROVE  At(Failures, Mode(L, M, g, r)) /\ Mode(L, M, g, r) \in Modes
<1>1. M \subseteq Names
  BY NamesAre DEF CanEnd, MemberNames, EngineNames, RendererNames, TargetNames, PipelineNames
<1> QED
  BY <1>1, ModeParts DEF At, Failures

DrawnNames == RendererNames(FALSE)

LEMMA RunsRecordCommandBuffer ==
    ASSUME NEW H, NEW M, NEW g, NEW r, At(H, Mode({}, M, g, r)), DrawnNames \subseteq M, NEW has \in SUBSET M,
           NEW h, MipLevels(h.texture) \in 1 .. 32, NEW extent
    PROVE  Runs(H, Mode({}, M, g, r), RecordCommandBuffer(h, extent, has), Mode({}, M, g, r))
<1> DEFINE m == Mode({}, M, g, r)
           levels == MipLevels(h.texture)
           parts == [l \in 1 .. levels |-> Use("texture", l - 1, "shaderRead", {"sampledRead"}, <<1, 1>>)]
<1>1. {"commandBuffers", "swapChain", "msaa", "depth", "texture"} \subseteq {} \cup M
  BY DEF DrawnNames, RendererNames, TargetNames, PipelineNames
<1>2. /\ \A o \in {"swapChain", "msaa", "depth", "texture"} :
             /\ \A l, t, u, v, w : Runs(H, m, TransitionImageLayout(o, l, t, u, v, w), m)
             /\ \A l, t, u, v : Runs(H, m, Use(o, l, t, u, v), m)
      /\ Runs(H, m, Check({"commandBuffers"}), m)
      /\ "backend" \in M => Runs(H, m, Surely({"backend"}), m)
  <2>1. \A o \in {"swapChain", "msaa", "depth", "texture"} : o \in {} \cup M
    BY <1>1
  <2>2. {"commandBuffers"} \subseteq {} \cup M /\ ("backend" \in M => {"backend"} \subseteq {} \cup M)
    BY <1>1
  <2> QED
    BY <2>1, <2>2, RunsAccess, RunsCall
<1>3. Runs(H, m, <<>>, m)
  BY LeadsNowhere DEF Runs
<1> HIDE DEF m, levels
<1>4. Runs(H, m, FlattenSeq(parts), m)
  <2>1. levels \in Nat
    BY DEF levels
  <2>2. parts = [i \in 1 .. levels |-> parts[i]] /\ \A i \in 1 .. levels : Runs(H, m, parts[i], m)
    BY <1>2
  <2> HIDE DEF parts
  <2> QED
    BY <2>1, <2>2, RunsEach
<1> HIDE DEF parts
<1> DEFINE overlay == IF "backend" \in has THEN RecordDebugUiOverlay(extent) ELSE <<>>
<1>5. Runs(H, m, overlay, m)
  <2>1. "backend" \in M => Runs(H, m, RecordDebugUiOverlay(extent), m)
    BY <1>2, RunsOn DEF RecordDebugUiOverlay
  <2> QED
    BY <1>3, <2>1
<1> DEFINE p == Check({"commandBuffers"})
    \o TransitionImageLayout("swapChain", 0, "undefined", "colour", {}, Colour)
    \o TransitionImageLayout("msaa", 0, "undefined", "colour", Colour, Colour)
    \o TransitionImageLayout("depth", 0, "undefined", "depth", {"depthWrite"}, {"depthWrite"})
    \o Use("msaa", 0, "colour", Colour, extent) \o Use("depth", 0, "depth", {"depthWrite"}, extent)
    \o Use("swapChain", 0, "colour", Colour, extent)
<1>6. Runs(H, m, p, m)
  BY <1>2, RunsOn
<1>7. RecordCommandBuffer(h, extent, has) =
        p \o FlattenSeq(parts) \o overlay
          \o TransitionImageLayout("swapChain", 0, "colour", "present", Colour, {})
          \o Check({"commandBuffers"})
  BY DEF RecordCommandBuffer, parts, levels
<1> HIDE DEF p, overlay
<1>8. Runs(H, m, RecordCommandBuffer(h, extent, has), m)
  BY <1>2, <1>4, <1>5, <1>6, <1>7, RunsOn
<1> QED
  BY <1>8 DEF m

LEMMA RunsCaptureSwapChainImage ==
    ASSUME NEW H, NEW M, NEW g, NEW r, At(H, Mode({}, M, g, r)), DrawnNames \subseteq M, NEW h, NEW c
    PROVE  Runs(H, Mode({}, M, g, r), CaptureSwapChainImage(h, c), Mode({}, M, "idle", r))
<1> DEFINE m == Mode({}, M, g, r)
           n == Mode({}, M, "idle", r)
<1>1. {"device", "commandPool", "swapChain"} \subseteq {} \cup M /\ {"single", "readback"} \cap {} = {}
  BY DEF DrawnNames, RendererNames, TargetNames, PipelineNames
<1>2. \A x : Runs(H, m, Needed(x), m)
  BY RunsCall
<1>3. \A y, e : Runs(H, m, ReadImageToHost(h, "swapChain", y, e), n) /\ At(H, n)
  BY <1>1, RunsReadImageToHost
<1>4. Runs(H, n, Check({}), n)
  BY <1>3, RunsCall
<1> HIDE DEF m, n
<1>5. Runs(H, m, CaptureSwapChainImage(h, c), n)
  BY <1>2, <1>3, <1>4, RunsOn DEF CaptureSwapChainImage
<1> QED
  BY <1>5 DEF m, n

LEMMA ModesAre ==
    \A L, M, g, r : L \subseteq Names /\ M \subseteq Names /\ g \in {"idle", "busy"} /\ r \in BOOLEAN
                    => Mode(L, M, g, r) \in Modes
BY ModeParts

\* A new image and its view take the place of the old ones.
LEMMA RunsRenewImageAndView ==
    ASSUME NEW M, CanEnd(M), DrawnNames \subseteq M, NEW r \in BOOLEAN, NEW start, NEW p,
           NEW o, NEW view, <<o, view>> \in {<<"msaa", "msaaView">>, <<"depth", "depthView">>},
           Runs(Failures, start, p, Mode({o, view}, M, "idle", r))
    PROVE  Runs(Failures, start, p \o Release(view) \o Replace(o) \o Replace(view),
                Mode({}, M, "idle", r))
<1> DEFINE M1 == M \ {view}
           a == Mode({}, M, "idle", r)
           b == Mode({o, view}, M, "idle", r)
           c == Mode({o, view}, M1, "idle", r)
           d == Mode({view}, M1, "idle", r)
<1>1. M \subseteq Names /\ {o, view} \subseteq Names /\ {o, view} \subseteq M /\ o # view
  BY NamesAre DEF CanEnd, MemberNames, EngineNames, DrawnNames, RendererNames, TargetNames, PipelineNames
<1>2. Needs[view] = {o} /\ Needs[o] = {"device"} /\ (\A x \in Names : view \notin Needs[x])
      /\ \A x \in Names : o \in Needs[x] => x = view
  BY NeedsAre, UsersAre
<1>3. /\ MayRelease({o, view}, M, "idle", view)
      /\ MayReplace({o, view}, M1, "idle", o) /\ MayReplace({view}, M1, "idle", view)
  BY <1>1, <1>2 DEF MayRelease, MayReplace
<1>4. {o, view} \ {o} = {view} /\ M1 \cup {o} = M1 /\ {view} \ {view} = {} /\ M1 \cup {view} = M
  BY <1>1
<1>5. b \in Modes /\ c \in Modes /\ d \in Modes
  BY <1>1, ModesAre
<1>6. Runs(Failures, b, Release(view), c)
  BY <1>3, <1>5, RunsRelease
<1> HIDE DEF M1
<1>7. Runs(Failures, c, Replace(o), d)
  BY <1>3, <1>4, <1>5, RunsReplace
<1>8. Runs(Failures, d, Replace(view), a)
  BY <1>3, <1>4, <1>5, RunsReplace
<1>9. Runs(Failures, start, p, b)
  OBVIOUS
<1> HIDE DEF a, b, c, d
<1>10. Runs(Failures, start, p \o Release(view) \o Replace(o) \o Replace(view), a)
  BY <1>6, <1>7, <1>8, <1>9, RunsOn
<1> QED
  BY <1>10 DEF a

LEMMA RunsRecreateSwapChain ==
    ASSUME NEW M, CanEnd(M), DrawnNames \subseteq M, NEW g \in {"idle", "busy"}, NEW r \in BOOLEAN,
           NEW h, NEW surface, NEW size
    PROVE  Runs(Failures, Mode({}, M, g, r), RecreateSwapChain(h, surface, size), Mode({}, M, "idle", r))
<1> DEFINE M1 == M \ {"swapViews"}
           M2 == M1 \ {"swapChain"}
           M3 == M2 \cup {"swapChain"}
           N == {"swapChain", "swapViews"}
           H == Failures
           a == Mode({}, M, g, r)
           b == Mode({}, M, "idle", r)
           c == Mode({}, M1, "idle", r)
           d == Mode({}, M2, "idle", r)
           e == Mode(N, M2, "idle", r)
           f == Mode({"swapViews"}, M3, "idle", r)
           extent == SwapChainChoice(surface, size).extent
<1>1. /\ M \subseteq Names /\ N \subseteq Names /\ {"swapViews"} \subseteq Names
      /\ {"device", "surface", "swapChain", "swapViews", "renderFinished"} \subseteq M
  BY NamesAre DEF CanEnd, MemberNames, EngineNames, DrawnNames, RendererNames, TargetNames, PipelineNames
<1>2. CanEnd(M2)
  <2>1. "fences" \in M
    BY DEF DrawnNames, RendererNames, TargetNames, PipelineNames
  <2> QED
    BY <2>1 DEF CanEnd
<1>3. M1 \subseteq Names /\ M2 \subseteq Names /\ M3 \subseteq Names
  BY <1>1
<1>4. /\ MayRelease({}, M, "idle", "swapViews") /\ MayRelease({}, M1, "idle", "swapChain")
      /\ MayReplace(N, M2, "idle", "swapChain") /\ MayReplace({"swapViews"}, M3, "idle", "swapViews")
  BY <1>1, NeedsAre, UsersAre DEF MayRelease, MayReplace
<1>5. /\ N \ {"swapChain"} = {"swapViews"} /\ {"swapViews"} \ {"swapViews"} = {}
      /\ M3 \cup {"swapViews"} = M /\ "device" \in {} \cup M /\ {} \cup N = N
      /\ {"device", "surface"} \subseteq {} \cup M2 /\ N \cap ({} \cup M2) = {}
  BY <1>1
<1> HIDE DEF M1, M2, M3, N
<1>6. Runs(H, a, Wait, b) /\ At(H, b)
  <2>1. At(H, a) /\ a \in Modes
    BY AtCanEnd
  <2>2. Mode({}, M, "busy", r) \in H
    BY <2>1, ModeParts DEF At
  <2> QED
    BY <1>5, <2>1, <2>2, RunsWait
<1>7. Runs(H, b, Release("swapViews"), c)
  <2>1. b \in Modes
    BY <1>6 DEF At
  <2> QED
    BY <1>4, <2>1, RunsRelease DEF M1
<1>8. Runs(H, c, Release("swapChain"), d)
  <2>1. c \in Modes
    BY <1>3, ModesAre
  <2> QED
    BY <1>4, <2>1, RunsRelease DEF M2
<1>9. Runs(H, d, CreateSwapChainResources(surface, size), e) /\ At(H, e)
  <2>1. At(H, d)
    BY <1>2, AtCanEnd
  <2>2. N = {"swapChain", "swapViews"} /\ {"swapChain", "swapViews"} \cap ({} \cup M2) = {}
    BY <1>5 DEF N
  <2> QED
    BY <1>5, <2>1, <2>2, RunsCreateSwapChainResources
<1>10. Runs(H, e, Replace("swapChain"), f)
  <2>1. e \in Modes
    BY <1>9 DEF At
  <2> QED
    BY <1>4, <1>5, <2>1, RunsReplace DEF M3
<1>11. Runs(H, f, Replace("swapViews"), b)
  <2>1. f \in Modes
    BY <1>1, <1>3, ModesAre
  <2> QED
    BY <1>4, <1>5, <2>1, RunsReplace
<1> DEFINE p1 == Wait \o Release("swapViews") \o Release("swapChain")
                 \o CreateSwapChainResources(surface, size)
                 \o Replace("swapChain") \o Replace("swapViews")
           p2 == CreateMultisampleColorResources(h, extent)
           p3 == CreateDepthResources(h, extent)
           p4 == Choose(<<<<>>, CreateSemaphores("renderFinished") \o Replace("renderFinished")>>)
<1>12. Runs(H, a, p1, b)
  <2> HIDE DEF a, b, c, d, e, f
  <2> QED
    BY <1>6, <1>7, <1>8, <1>9, <1>10, <1>11, RunsOn
<1>13. Runs(H, b, p2, Mode({"msaa", "msaaView"}, M, "idle", r))
  <2>1. {} \cup {"msaa", "msaaView"} = {"msaa", "msaaView"} /\ {"msaa", "msaaView"} \cap {} = {}
    OBVIOUS
  <2> HIDE DEF extent
  <2>2. Runs(H, b, CreateImage(h, "msaa", extent, 1) \o CreateImageView("msaaView"),
             Mode({} \cup {"msaa", "msaaView"}, M, "idle", r))
    BY <1>5, <1>6, <2>1, RunsCreateImageAndView
  <2> QED
    BY <2>1, <2>2 DEF CreateMultisampleColorResources
<1>14. Runs(H, b, p3, Mode({"depth", "depthView"}, M, "idle", r))
  <2>1. {} \cup {"depth", "depthView"} = {"depth", "depthView"} /\ {"depth", "depthView"} \cap {} = {}
    OBVIOUS
  <2> HIDE DEF extent
  <2>2. Runs(H, b, CreateImage(h, "depth", extent, 1) \o CreateImageView("depthView"),
             Mode({} \cup {"depth", "depthView"}, M, "idle", r))
    BY <1>5, <1>6, <2>1, RunsCreateImageAndView
  <2> QED
    BY <2>1, <2>2 DEF CreateDepthResources
<1>15. Runs(H, b, p4, b)
  <2> DEFINE k == Mode({"renderFinished"}, M, "idle", r)
  <2>1. MayMake({}, M, "renderFinished") /\ MayReplace({"renderFinished"}, M, "idle", "renderFinished")
    BY <1>1, NeedsAre, UsersAre, NamesAre DEF MayMake, MayReplace
  <2>2. /\ {} \cup {"renderFinished"} = {"renderFinished"}
        /\ {"renderFinished"} \ {"renderFinished"} = {} /\ M \cup {"renderFinished"} = M
    BY <1>1
  <2>3. Runs(H, b, Make("renderFinished"), k) /\ At(H, k)
    <3>1. Runs(H, b, Make("renderFinished"), Mode({} \cup {"renderFinished"}, M, "idle", r))
          /\ At(H, Mode({} \cup {"renderFinished"}, M, "idle", r))
      BY <1>6, <2>1, RunsMake
    <3> QED
      BY <2>2, <3>1
  <2>4. Runs(H, k, Replace("renderFinished"), b)
    <3>1. k \in Modes
      BY <2>3 DEF At
    <3> QED
      BY <2>1, <2>2, <3>1, RunsReplace
  <2>5. Runs(H, b, <<>>, b) /\ b \in Modes /\ b.gpu # "own"
    BY <1>6, LeadsNowhere DEF Runs, At
  <2> HIDE DEF b, k
  <2>6. Runs(H, b, CreateSemaphores("renderFinished") \o Replace("renderFinished"), b)
    BY <2>3, <2>4, RunsOn DEF CreateSemaphores
  <2> QED
    BY <2>5, <2>6, LeadsEither DEF Runs
<1> DEFINE q == p1 \o p2 \o Release("msaaView") \o Replace("msaa") \o Replace("msaaView")
           q2 == q \o p3 \o Release("depthView") \o Replace("depth") \o Replace("depthView")
<1>16. RecreateSwapChain(h, surface, size) = q2 \o p4
  BY DEF RecreateSwapChain
<1> HIDE DEF a, b, c, d, e, f, p1, p2, p3, p4
<1>17. Runs(H, a, q, b)
  <2>1. Runs(H, a, p1 \o p2, Mode({"msaa", "msaaView"}, M, "idle", r))
    BY <1>12, <1>13, RunsOn
  <2> QED
    BY <2>1, RunsRenewImageAndView DEF b
<1> HIDE DEF q
<1>18. Runs(H, a, q2, b)
  <2>1. Runs(H, a, q \o p3, Mode({"depth", "depthView"}, M, "idle", r))
    BY <1>14, <1>17, RunsOn
  <2> QED
    BY <2>1, RunsRenewImageAndView DEF b
<1>19. Runs(H, a, RecreateSwapChain(h, surface, size), b)
  BY <1>15, <1>16, <1>18, RunsOn
<1> QED
  BY <1>19 DEF a, b

LEMMA RunsDrawFrame ==
    ASSUME NEW M, CanEnd(M), DrawnNames \subseteq M, NEW r \in BOOLEAN, NEW has \in SUBSET M, NEW h,
           MipLevels(h.texture) \in 1 .. 32, NEW surface, NEW size, NEW c
    PROVE  Runs(Failures, Mode({}, M, "busy", r), DrawFrame(h, surface, size, c, has), Mode({}, M, "busy", r))
<1> DEFINE m == Mode({}, M, "busy", r)
           i == Mode({}, M, "idle", r)
           H == Failures
           recreate == RecreateSwapChain(h, surface, size)
           capture == Wait \o CaptureSwapChainImage(h, c)
           image == Image("swapChain", 0, c.choice.extent)
           record == RecordCommandBuffer(h, c.choice.extent, has)
<1>1. /\ {"fences", "swapChain", "presentComplete", "uniforms", "commandBuffers", "renderFinished",
          "device"} \subseteq {} \cup M
      /\ FrameUses(has) \subseteq ({} \cup M) \cap GpuNames
  BY DEF DrawnNames, RendererNames, TargetNames, PipelineNames, FrameUses, GpuNames
<1>2. At(H, m) /\ At(H, i) /\ m \in Modes /\ i \in Modes /\ m.gpu = "busy" /\ i = Idle(m) /\ m.gpu # "own"
      /\ i.gpu # "own"
  BY AtCanEnd, ModeParts
<1>3. ASSUME NEW K, NEW a, NEW p, Runs(K, a, p, i)
      PROVE  Runs(K, a, p, m)
  BY <1>2, <1>3, LeadsInto DEF Runs
<1>4. /\ Runs(H, m, Check({"fences"}), m) /\ Runs(H, m, Check({"swapChain", "presentComplete"}), m)
      /\ Runs(H, m, Surely({"uniforms"}), m) /\ Runs(H, m, Check({"commandBuffers"}), m)
      /\ Runs(H, m, Check({"swapChain", "renderFinished"}), m)
  <2>1. /\ {"fences"} \subseteq {} \cup M /\ {"swapChain", "presentComplete"} \subseteq {} \cup M
        /\ {"uniforms"} \subseteq {} \cup M /\ {"commandBuffers"} \subseteq {} \cup M
        /\ {"swapChain", "renderFinished"} \subseteq {} \cup M
    BY <1>1
  <2> QED
    BY <1>2, <2>1, RunsCall
<1>5. Runs(H, m, image, m) /\ Runs(H, m, Present, m)
  <2>1. "swapChain" \in {} \cup M /\ "renderFinished" \in {} \cup M
    BY <1>1
  <2> QED
    BY <1>2, <2>1, RunsAccess
<1>6. Runs(H, m, record, m)
  BY <1>2, RunsRecordCommandBuffer
<1>7. Runs(H, m, Submit(FrameUses(has)), m)
  <2>1. (IF {} = {} THEN "busy" ELSE "own") = "busy"
    OBVIOUS
  <2> QED
    BY <1>1, <1>2, <2>1, RunsSubmit
<1>8. Runs(H, m, recreate, m)
  BY <1>3, RunsRecreateSwapChain
<1>9. Runs(H, m, Choose(<<<<>>, Guarded(capture, <<>>)>>), m)
  <2> DEFINE Inner == {m}
  <2>1. Runs(Inner, m, Wait, i) /\ At(Inner, i)
    <3>1. Mode({}, M, "busy", r) \in Inner /\ "device" \in {} \cup M
      BY <1>1
    <3> QED
      BY <1>2, <3>1, RunsWait
  <2>2. Runs(Inner, i, CaptureSwapChainImage(h, c), i)
    BY <2>1, RunsCaptureSwapChainImage
  <2> HIDE DEF i
  <2>3. Runs(Inner, m, capture, i)
    <3> HIDE DEF m
    <3> QED
      BY <2>1, <2>2, RunsOn
  <2>4. Runs(Inner, m, capture, m)
    BY <1>3, <2>3
  <2>5. Runs(H, m, <<>>, m) /\ IsProgram(<<>>) /\ \A h1 \in Inner : Runs(H, h1, <<>>, m)
    BY LeadsNowhere DEF Runs, Leads
  <2> HIDE DEF m, capture, Inner
  <2>6. {m} \in SUBSET Modes /\ {m} # {} /\ \A n \in {m} : n.gpu # "own"
    BY <1>2
  <2>7. Leads(H, m, Guarded(capture, <<>>), {m})
    BY <1>2, <2>4, <2>5, <2>6, LeadsGuarded DEF Runs
  <2> QED
    BY <1>2, <2>5, <2>7, LeadsEither DEF Runs
<1>10. Runs(H, m, <<>>, m)
  BY LeadsNowhere DEF Runs
<1> HIDE DEF m, i, recreate, capture, image, record
<1> DEFINE last == Choose(<<recreate, Check({"swapChain", "renderFinished"})>>)
           drawn == Check({"swapChain", "presentComplete"}) \o image
                        \o Check({"fences"}) \o Surely({"uniforms"}) \o Check({"commandBuffers"})
                        \o record
                        \o Submit(FrameUses(has))
                        \o Choose(<<<<>>, Guarded(capture, <<>>)>>)
                        \o Present
                        \o last
<1>11. Runs(H, m, last, m)
  BY <1>2, <1>4, <1>8, LeadsEither DEF Runs
<1> HIDE DEF last
<1>12. Runs(H, m, drawn, m)
  BY <1>4, <1>5, <1>6, <1>7, <1>9, <1>11, RunsOn
<1> HIDE DEF drawn
<1>13. Runs(H, m, Check({"fences"}) \o Choose(<<recreate, drawn>>), m)
  <2>1. Runs(H, m, Choose(<<recreate, drawn>>), m)
    BY <1>2, <1>8, <1>12, LeadsEither DEF Runs
  <2> QED
    BY <1>4, <2>1, RunsOn
<1>14. DrawFrame(h, surface, size, c, has) =
          IF size[1] = 0 \/ size[2] = 0 THEN <<>>
          ELSE Check({"fences"}) \o Choose(<<recreate, drawn>>)
  BY DEF DrawFrame, drawn, last, recreate, capture, image, record
<1>15. Runs(H, m, DrawFrame(h, surface, size, c, has), m)
  BY <1>10, <1>13, <1>14
<1> QED
  BY <1>15 DEF m

\* What a frame can begin with.
Ready(M) ==
    /\ CanEnd(M) /\ {"app", "ecs"} \subseteq M
    /\ "fences" \in M => DrawnNames \subseteq M
    /\ "ui" \in M => "window" \in M
    /\ "window" \in M => "server" \in M
    /\ "indices" \in M => "vertices" \in M

\* Where the part of a frame that draws may be: the cursor is new, the mesh is.
FrameModes(has) ==
    {m \in Modes : /\ m.locals = {} /\ m.gpu = "busy" /\ Ready(m.members)
                   /\ has \subseteq m.members /\ m.members \subseteq has \cup {"cursor", "vertices", "indices"}}

CursorModes(has) == {m \in FrameModes(has) : m.members \subseteq has \cup {"cursor"}}

LEMMA FrameMode ==
    ASSUME NEW has, NEW m \in FrameModes(has)
    PROVE  /\ m = Mode({}, m.members, "busy", m.running) /\ At(Failures, m) /\ m \in Modes /\ m.gpu # "own"
           /\ m.members \in SUBSET Names /\ m.running \in BOOLEAN
<1>1. m = Mode({}, m.members, "busy", m.running)
  BY DEF FrameModes, Mode, Modes
<1>2. CanEnd(m.members) /\ m.running \in BOOLEAN /\ m \in Modes /\ m.members \in SUBSET Names
      /\ m.gpu = "busy"
  BY DEF FrameModes, Modes, Ready
<1>3. At(Failures, Mode({}, m.members, "busy", m.running))
  BY <1>2, AtCanEnd
<1> QED
  BY <1>1, <1>2, <1>3

LEMMA LeadsSetCursorShape ==
    ASSUME NEW has, NEW r \in BOOLEAN, Mode({}, has, "busy", r) \in FrameModes(has)
    PROVE  Leads(Failures, Mode({}, has, "busy", r), SetCursorShape(has), CursorModes(has))
<1> DEFINE m == Mode({}, has, "busy", r)
           n == Mode({}, has \cup {"cursor"}, "busy", r)
           l == Mode({"cursor"}, has, "busy", r)
           N == CursorModes(has)
<1>1. m.members = has /\ m \in N /\ At(Failures, m) /\ m \in Modes /\ m.gpu # "own" /\ Ready(has)
      /\ has \in SUBSET Names
  <2>1. m.members = has
    BY ModeParts
  <2>2. At(Failures, m) /\ m \in Modes /\ m.gpu # "own" /\ m.members \in SUBSET Names
    BY FrameMode
  <2>3. m \in N /\ Ready(m.members)
    <3> HIDE DEF m
    <3> QED
      BY <2>1 DEF CursorModes, FrameModes, m
  <2> QED
    BY <2>1, <2>2, <2>3
<1>2. Leads(Failures, m, <<>>, N)
  BY <1>1, LeadsNowhere
<1>3. CASE "window" \notin has
  BY <1>2, <1>3 DEF SetCursorShape
<1>4. CASE "window" \in has /\ "cursor" \in has
  <2>1. {"cursor"} \subseteq {} \cup has
    BY <1>4
  <2>2. Runs(Failures, m, Surely({"cursor"}), m)
    BY <1>1, <2>1, RunsCall
  <2> HIDE DEF m, N
  <2>3. Leads(Failures, m, Surely({"cursor"}), N)
    BY <1>1, <2>2, LeadsInto DEF Runs
  <2>4. Leads(Failures, m, Choose(<<<<>>, Surely({"cursor"})>>), N)
    BY <1>1, <1>2, <2>3, LeadsEither
  <2> QED
    BY <1>4, <2>4 DEF SetCursorShape, m, N
<1>5. CASE "window" \in has /\ "cursor" \notin has
  <2>1. MayMake({}, has, "cursor") /\ {} \cup {"cursor"} = {"cursor"} /\ {"cursor"} \cap has = {}
    BY <1>1, <1>5, NeedsAre, NamesAre DEF MayMake, Ready
  <2>2. Runs(Failures, m, Own("cursor"), l) /\ At(Failures, l)
    <3>1. Runs(Failures, m, Own("cursor"), Mode({} \cup {"cursor"}, has, "busy", r))
          /\ At(Failures, Mode({} \cup {"cursor"}, has, "busy", r))
      BY <1>1, <2>1, RunsMake
    <3> QED
      BY <2>1, <3>1
  <2>3. Runs(Failures, l, Adopt, n)
    BY <2>1, <2>2, RunsAdopt DEF At
  <2>4. n \in N
    <3>1. Ready(has \cup {"cursor"})
      BY <1>1 DEF Ready, CanEnd, MemberNames, EngineNames
    <3>2. has \cup {"cursor"} \in SUBSET Names
      BY <1>1, NamesAre
    <3> QED
      BY <3>1, <3>2, ModeParts DEF CursorModes, FrameModes
  <2> HIDE DEF m, n, l, N
  <2>5. Runs(Failures, m, Own("cursor") \o Adopt, n)
    BY <2>2, <2>3, RunsOn
  <2>6. Leads(Failures, m, Own("cursor") \o Adopt, N)
    BY <2>4, <2>5, LeadsInto DEF Runs
  <2>7. Leads(Failures, m, Choose(<<<<>>, Own("cursor") \o Adopt>>), N)
    BY <1>1, <1>2, <2>6, LeadsEither
  <2> QED
    BY <1>5, <2>7 DEF SetCursorShape, m, N
<1> QED
  BY <1>3, <1>4, <1>5

LEMMA RunsAcquireMesh ==
    ASSUME NEW M, Ready(M), "fences" \in M, "vertices" \notin M, NEW r \in BOOLEAN, NEW H, NEW h,
           Mode({}, M, "busy", r) \in H
    PROVE  Runs(H, Mode({}, M, "busy", r), AcquireMesh(h), Mode({}, M \cup {"vertices", "indices"}, "idle", r))
<1> DEFINE a == Mode({}, M, "busy", r)
           b == Mode({"vertices"}, M, "idle", r)
           c == Mode({"vertices", "indices"}, M, "idle", r)
           d == Mode({}, M \cup {"vertices", "indices"}, "idle", r)
<1>1. /\ {"device", "commandPool"} \subseteq {} \cup M /\ {"single", "staging", "vertices"} \cap {} = {}
      /\ {"device", "commandPool"} \subseteq {"vertices"} \cup M
      /\ {"single", "staging", "indices"} \cap {"vertices"} = {}
      /\ {} \cup {"vertices"} = {"vertices"} /\ {"vertices"} \cup {"indices"} = {"vertices", "indices"}
      /\ {"vertices", "indices"} \cap M = {}
  BY DEF Ready, DrawnNames, RendererNames, TargetNames, PipelineNames
<1>2. At(H, a)
  <2>1. At(Failures, a)
    BY AtCanEnd DEF Ready
  <2> QED
    BY <2>1, ModeParts DEF At
<1>3. Runs(H, a, LoadMesh, a)
  BY <1>2, RunsCall DEF LoadMesh
<1>4. Runs(H, a, CreateDeviceLocalBuffer(h, "vertices"), b) /\ At(H, b)
  <2>1. /\ Runs(H, a, CreateDeviceLocalBuffer(h, "vertices"), Mode({} \cup {"vertices"}, M, "idle", r))
        /\ At(H, Mode({} \cup {"vertices"}, M, "idle", r))
    BY <1>1, <1>2, RunsCreateDeviceLocalBuffer
  <2> QED
    BY <1>1, <2>1
<1>5. Runs(H, b, CreateDeviceLocalBuffer(h, "indices"), c) /\ At(H, c)
  <2>1. /\ Runs(H, b, CreateDeviceLocalBuffer(h, "indices"), Mode({"vertices"} \cup {"indices"}, M, "idle", r))
        /\ At(H, Mode({"vertices"} \cup {"indices"}, M, "idle", r))
    BY <1>1, <1>4, RunsCreateDeviceLocalBuffer
  <2> QED
    BY <1>1, <2>1
<1>6. Runs(H, c, Adopt, d)
  BY <1>1, <1>5, RunsAdopt DEF At
<1> HIDE DEF a, b, c, d
<1>7. Runs(H, a, AcquireMesh(h), d)
  BY <1>3, <1>4, <1>5, <1>6, RunsOn DEF AcquireMesh
<1> QED
  BY <1>7 DEF a, d

LEMMA LeadsSyncMeshCatalog ==
    ASSUME NEW has, NEW m \in CursorModes(has), Ready(has), "fences" \in has, NEW h
    PROVE  Leads(Failures, m, SyncMeshCatalog(h, has), FrameModes(has))
<1> DEFINE M == m.members
           i == Mode({}, M \cup {"vertices", "indices"}, "idle", m.running)
           b == Mode({}, M \cup {"vertices", "indices"}, "busy", m.running)
           N == FrameModes(has)
<1>1. /\ m \in N /\ m = Mode({}, M, "busy", m.running) /\ At(Failures, m) /\ m \in Modes /\ m.gpu # "own"
      /\ M \in SUBSET Names /\ m.running \in BOOLEAN
  BY FrameMode DEF CursorModes
<1>2. Leads(Failures, m, <<>>, N)
  BY <1>1, LeadsNowhere
<1>3. CASE "vertices" \in has
  BY <1>2, <1>3 DEF SyncMeshCatalog
<1>4. CASE "vertices" \notin has
  <2>1. Ready(M) /\ has \subseteq M /\ M \subseteq has \cup {"cursor"} /\ "fences" \in M /\ "vertices" \notin M
    BY <1>4 DEF CursorModes, FrameModes
  <2> DEFINE Inner == {m}
  <2>2. Runs(Inner, m, AcquireMesh(h), i)
    <3>1. Mode({}, M, "busy", m.running) \in Inner
      BY <1>1
    <3>2. Runs(Inner, Mode({}, M, "busy", m.running), AcquireMesh(h), i)
      BY <1>1, <2>1, <3>1, RunsAcquireMesh
    <3> QED
      BY <1>1, <3>2
  <2>3. b \in N /\ b.gpu = "busy" /\ i = Idle(b)
    <3>1. Ready(M \cup {"vertices", "indices"})
      BY <2>1 DEF Ready, CanEnd, MemberNames
    <3>2. M \cup {"vertices", "indices"} \in SUBSET Names
      BY <1>1, NamesAre
    <3>3. has \subseteq M \cup {"vertices", "indices"}
          /\ M \cup {"vertices", "indices"} \subseteq has \cup {"cursor", "vertices", "indices"}
      BY <2>1
    <3> QED
      BY <1>1, <3>1, <3>2, <3>3, ModeParts DEF FrameModes
  <2> HIDE DEF b, i
  <2>4. Leads(Inner, m, AcquireMesh(h), N)
    BY <2>2, <2>3, LeadsInto DEF Runs
  <2>5. IsProgram(<<>>) /\ \A h1 \in Inner : Leads(Failures, h1, <<>>, N)
    BY <1>2 DEF Leads
  <2>6. N \in SUBSET Modes /\ N # {} /\ \A n \in N : n.gpu # "own"
    BY <1>1, FrameMode
  <2> HIDE DEF N, Inner
  <2>7. Leads(Failures, m, Guarded(AcquireMesh(h), <<>>), N)
    BY <1>1, <2>4, <2>5, <2>6, LeadsGuarded
  <2>8. Leads(Failures, m, Choose(<<<<>>, Guarded(AcquireMesh(h), <<>>)>>), N)
    BY <1>1, <1>2, <2>7, LeadsEither
  <2> QED
    BY <1>4, <2>8 DEF SyncMeshCatalog, N
<1> QED
  BY <1>3, <1>4

-----------------------------------------------------------------------------
(* A whole boot or frame: what goes wrong ends in Stop.                    *)

RunEnds == {m \in Modes : /\ m.locals = {} /\ m.gpu # "own" /\ CanEnd(m.members)
                          /\ m.running => Ready(m.members)}

LEMMA RunEndsAreFair == Fair(RunEnds)
<1>1. ASSUME NEW m \in RunEnds PROVE Idle(m) \in RunEnds
  BY ModeParts DEF RunEnds, Idle, Modes
<1> QED
  BY <1>1 DEF Fair

LEMMA TypedEnd ==
    ASSUME NEW Ends, NEW m \in Modes, m \in Ends
    PROVE  Typed(Ends, m, <<>>)
<1> DEFINE S == {<<m, <<>>>>}
<1>1. IsProgram(<<>>)
  BY DEF IsProgram
<1>2. Closed(Ends, S)
  BY <1>1 DEF Closed, Stays
<1> QED
  BY <1>2 DEF Typed

\* The step's record is not looked into again.
LEMMA TypedStop ==
    ASSUME NEW Ends, NEW M, NEW g \in {"idle", "busy"}, NEW r, Mode({}, M, g, r) \in Modes,
           Mode({}, M, g, FALSE) \in Ends
    PROVE  Typed(Ends, Mode({}, M, g, r), Stop)
<1> DEFINE m == Mode({}, M, g, r)
           s == [op |-> "stop", on |-> {}, fails |-> {FALSE}, with |-> <<>>]
<1>1. /\ s.op = "stop" /\ s.op # "choose" /\ s.on = {} /\ FALSE \in s.fails /\ TRUE \notin s.fails
      /\ Stop = <<s>>
  BY DEF Stop, Step
<1> HIDE DEF s
<1>2. Allowed(m, s) /\ After(m, s) = Mode({}, M, g, FALSE) /\ Mode({}, M, g, FALSE) \in Modes
  BY <1>1, ModeParts DEF Allowed, After, Mode, Quiet
<1>3. Typed(Ends, Mode({}, M, g, FALSE), <<>>)
  BY <1>2, TypedEnd
<1>4. IsProgram(<<>>) /\ <<s>> \o <<>> = <<s>>
  <2>1. <<s>> \in Seq({s}) /\ <<>> \in Seq({s})
    OBVIOUS
  <2>2. <<s>> \o <<>> = <<s>>
    BY <2>1, ConcatEmptySeq
  <2> QED
    BY <2>1, <2>2 DEF IsProgram
<1> HIDE DEF m
<1>5. Typed(Ends, m, <<s>> \o <<>>)
  <2>1. m \in Modes
    BY DEF m
  <2> QED
    BY <1>1, <1>2, <1>3, <1>4, <2>1, TypedStep
<1> QED
  BY <1>1, <1>4, <1>5 DEF m

LEMMA TypedMain ==
    ASSUME NEW m, NEW body, Leads(Failures, m, body, RunEnds)
    PROVE  Typed(RunEnds, m, body \o Catch(Stop))
<1> DEFINE c == [op |-> "catch", on |-> {}, fails |-> {FALSE}, with |-> Stop]
<1>1. /\ c.op = "catch" /\ c.op # "choose" /\ c.on = {} /\ FALSE \in c.fails /\ TRUE \notin c.fails
      /\ c.with = Stop /\ Catch(Stop) = <<c>>
  BY DEF Catch, Step
<1> HIDE DEF c
<1>2. IsProgram(<<>>) /\ IsProgram(<<c>>) /\ <<c>> \o <<>> = <<c>> /\ Stop \o <<>> = Stop
  <2> DEFINE s == [op |-> "stop", on |-> {}, fails |-> {FALSE}, with |-> <<>>]
  <2>1. Stop = <<s>>
    BY DEF Stop, Step
  <2> HIDE DEF s
  <2>2. <<c>> \in Seq({c, s}) /\ <<s>> \in Seq({c, s}) /\ <<>> \in Seq({c, s})
    OBVIOUS
  <2>3. <<c>> \o <<>> = <<c>> /\ <<s>> \o <<>> = <<s>>
    BY <2>2, ConcatEmptySeq
  <2> QED
    BY <2>1, <2>2, <2>3 DEF IsProgram
<1>3. \A n \in RunEnds : Typed(RunEnds, n, <<c>>)
  <2> SUFFICES ASSUME NEW n \in RunEnds PROVE Typed(RunEnds, n, <<c>>)
    OBVIOUS
  <2>1. n \in Modes /\ Allowed(n, c) /\ After(n, c) = n
    BY <1>1 DEF RunEnds, Allowed, After, Quiet, Modes
  <2>2. Typed(RunEnds, n, <<>>)
    BY <2>1, TypedEnd
  <2>3. Typed(RunEnds, n, <<c>> \o <<>>)
    BY <1>1, <1>2, <2>1, <2>2, TypedStep
  <2> QED
    BY <1>2, <2>3
<1>4. \A h \in Failures : Typed(RunEnds, h, Stop)
  <2> SUFFICES ASSUME NEW h \in Failures PROVE Typed(RunEnds, h, Stop)
    OBVIOUS
  <2>1. h = Mode({}, h.members, "busy", h.running) /\ h \in Modes
    BY DEF Failures, Mode, Modes
  <2>2. h.members \subseteq Names /\ CanEnd(h.members)
    BY DEF Failures, Modes
  <2>3. Mode({}, h.members, "busy", FALSE) \in RunEnds
    <3> DEFINE k == Mode({}, h.members, "busy", FALSE)
    <3>1. k \in Modes /\ k.locals = {} /\ k.gpu = "busy" /\ k.members = h.members /\ k.running = FALSE
      BY <2>2, StoppedMode
    <3> HIDE DEF k
    <3>2. k \in RunEnds
      BY <2>2, <3>1 DEF RunEnds
    <3> QED
      BY <3>2 DEF k
  <2> QED
    BY <2>1, <2>3, TypedStop
<1>5. Covers(RunEnds, Failures, <<c>>)
  <2>1. Caught(<<c>> \o <<>>, c.with \o <<>>)
    BY <1>1, <1>2, CaughtHere
  <2>2. Caught(<<c>>, Stop)
    BY <1>1, <1>2, <2>1
  <2> QED
    BY <1>4, <2>2 DEF Covers
<1> QED
  BY <1>1, <1>2, <1>3, <1>5, RunEndsAreFair DEF Leads

LEMMA RunsBeginToEndFrame ==
    ASSUME NEW has, Ready(has), NEW r \in BOOLEAN
    PROVE  \E n : /\ Runs(Failures, Mode({}, has, "busy", r), BeginFrame(has), n)
                  /\ Runs(Failures, n, Surely({"app", "ecs"}), n)
                  /\ Runs(Failures, n, EndFrame(has), Mode({}, has, "busy", r))
<1> DEFINE m == Mode({}, has, "busy", r)
           n == Mode({"uiFrame"}, has, "busy", r)
<1>1. At(Failures, m) /\ At(Failures, n)
  BY NamesAre, AtCanEnd DEF Ready
<1>2. /\ {"app", "ecs"} \subseteq {} \cup has /\ {"app", "ecs"} \subseteq {"uiFrame"} \cup has
      /\ {"uiFrame"} \subseteq {"uiFrame"} \cup has /\ "uiFrame" \in Leaves \cap {"uiFrame"}
      /\ {"uiFrame"} \ {"uiFrame"} = {} /\ {} \cup {"uiFrame"} = {"uiFrame"}
  BY DEF Ready, Leaves
<1>3. CASE "ui" \notin has
  <2>1. Runs(Failures, m, <<>>, m) /\ Runs(Failures, m, Surely({"app", "ecs"}), m)
    BY <1>1, <1>2, RunsCall, LeadsNowhere DEF Runs
  <2>2. BeginFrame(has) = <<>> /\ EndFrame(has) = <<>>
    BY <1>3 DEF BeginFrame, EndFrame
  <2> QED
    BY <2>1, <2>2
<1>4. CASE "ui" \in has
  <2> DEFINE uses == {"window"} \cup ({"backend"} \cap has)
  <2>1. {"ui", "window"} \subseteq has /\ uses \subseteq {} \cup has
    BY <1>4 DEF Ready
  <2>2. MayMake({}, has, "uiFrame")
    BY <2>1, NeedsAre, NamesAre, UsersAre DEF MayMake
  <2>3. Runs(Failures, m, Surely(uses), m)
    BY <1>1, <2>1, RunsCall
  <2>4. Runs(Failures, m, Own("uiFrame"), n)
    <3>1. Runs(Failures, m, Own("uiFrame"), Mode({} \cup {"uiFrame"}, has, "busy", r))
      BY <1>1, <2>2, RunsMake
    <3> QED
      BY <1>2, <3>1
  <2>5. Runs(Failures, n, Surely({"app", "ecs"}), n) /\ Runs(Failures, n, Surely({"uiFrame"}), n)
    BY <1>1, <1>2, RunsCall
  <2>6. Runs(Failures, n, Drop("uiFrame"), m)
    <3>1. Runs(Failures, n, Drop("uiFrame"), Mode({"uiFrame"} \ {"uiFrame"}, has, "busy", r))
      BY <1>1, <1>2, RunsDrop
    <3> QED
      BY <1>2, <3>1
  <2>7. BeginFrame(has) = Surely(uses) \o Own("uiFrame")
        /\ EndFrame(has) = Surely({"uiFrame"}) \o Drop("uiFrame")
    BY <1>4, <2>1 DEF BeginFrame, EndFrame
  <2> HIDE DEF m, n, uses
  <2>8. Runs(Failures, m, BeginFrame(has), n) /\ Runs(Failures, n, EndFrame(has), m)
    BY <2>3, <2>4, <2>5, <2>6, <2>7, RunsOn
  <2> QED
    BY <2>5, <2>8 DEF m
<1> QED
  BY <1>3, <1>4

LEMMA TypedRunStep ==
    ASSUME NEW has, Ready(has), NEW h, MipLevels(h.texture) \in 1 .. 32, NEW size, NEW surface,
           NEW closing \in BOOLEAN
    PROVE  Typed(RunEnds, Mode({}, has, "busy", TRUE), RunStep(h, has, size, surface, closing))
<1> DEFINE r == ~closing
           a == Mode({}, has, "busy", TRUE)
           m == Mode({}, has, "busy", r)
           start == Surely({"server"} \cap has) \o (IF closing THEN Stop ELSE <<>>)
           draw == IF "fences" \in has
                   THEN SyncMeshCatalog(h, has) \o DrawFrame(h, surface, size, chain, has) ELSE <<>>
           last == IF "server" \in has THEN <<>> ELSE Stop
           N == FrameModes(has)
<1>1. At(Failures, a) /\ At(Failures, m) /\ a \in Modes /\ m \in Modes /\ m.gpu # "own" /\ r \in BOOLEAN
  BY NamesAre, AtCanEnd DEF Ready, At
<1>2. Runs(Failures, a, start, m)
  <2>1. {"server"} \cap has \subseteq {} \cup has
    OBVIOUS
  <2>2. Runs(Failures, a, Surely({"server"} \cap has), a)
    BY <1>1, <2>1, RunsCall
  <2>3. CASE closing
    <3>1. Runs(Failures, a, Stop, m)
      BY <1>1, <2>3, RunsStop
    <3> HIDE DEF a, m
    <3> QED
      BY <2>2, <2>3, <3>1, RunsOn
  <2>4. CASE ~closing
    <3>1. Runs(Failures, a, <<>>, a) /\ a = m
      BY <2>4, LeadsNowhere DEF Runs
    <3> HIDE DEF a, m
    <3> QED
      BY <2>2, <2>4, <3>1, RunsOn
  <2> QED
    BY <2>3, <2>4
<1>3. PICK n : /\ Runs(Failures, m, BeginFrame(has), n) /\ Runs(Failures, n, Surely({"app", "ecs"}), n)
               /\ Runs(Failures, n, EndFrame(has), m)
  BY <1>1, RunsBeginToEndFrame
<1>4. m \in N
  BY <1>1, ModeParts DEF FrameModes
<1>5. Leads(Failures, m, SetCursorShape(has), CursorModes(has))
  BY <1>1, <1>4, LeadsSetCursorShape
<1>6. \A k \in CursorModes(has) : Leads(Failures, k, draw, N)
  <2> SUFFICES ASSUME NEW k \in CursorModes(has) PROVE Leads(Failures, k, draw, N)
    OBVIOUS
  <2>1. k \in N
    BY DEF CursorModes
  <2>2. CASE "fences" \notin has
    BY <2>1, <2>2, LeadsNowhere
  <2>3. CASE "fences" \in has
    <3>1. Leads(Failures, k, SyncMeshCatalog(h, has), N)
      BY <2>3, LeadsSyncMeshCatalog
    <3>2. \A j \in N : Leads(Failures, j, DrawFrame(h, surface, size, chain, has), N)
      <4> SUFFICES ASSUME NEW j \in N PROVE Leads(Failures, j, DrawFrame(h, surface, size, chain, has), N)
        OBVIOUS
      <4>1. j = Mode({}, j.members, "busy", j.running) /\ j.running \in BOOLEAN
        BY FrameMode
      <4>2. CanEnd(j.members) /\ DrawnNames \subseteq j.members /\ has \in SUBSET j.members
        BY <2>3 DEF FrameModes, Ready
      <4>3. Runs(Failures, Mode({}, j.members, "busy", j.running),
                 DrawFrame(h, surface, size, chain, has), Mode({}, j.members, "busy", j.running))
        BY <4>1, <4>2, RunsDrawFrame
      <4>4. Leads(Failures, j, DrawFrame(h, surface, size, chain, has), {j})
        BY <4>1, <4>3 DEF Runs
      <4>5. \A x \in {j} : x \in N
        OBVIOUS
      <4> QED
        BY <4>4, <4>5, LeadsInto
    <3>3. N # {}
      BY <1>4
    <3> HIDE DEF N
    <3>4. Leads(Failures, k, SyncMeshCatalog(h, has) \o DrawFrame(h, surface, size, chain, has), N)
      BY <3>1, <3>2, <3>3, LeadsOn
    <3> QED
      BY <2>3, <3>4
  <2> QED
    BY <2>2, <2>3
<1>7. \A j \in N : Leads(Failures, j, last, RunEnds)
  <2> SUFFICES ASSUME NEW j \in N PROVE Leads(Failures, j, last, RunEnds)
    OBVIOUS
  <2>1. j = Mode({}, j.members, "busy", j.running) /\ j \in Modes /\ Ready(j.members)
        /\ j.locals = {} /\ j.gpu = "busy"
    BY FrameMode DEF FrameModes
  <2>2. j \in RunEnds
    BY <2>1 DEF RunEnds, Ready
  <2>3. Leads(Failures, j, <<>>, RunEnds)
    BY <2>2, LeadsNowhere
  <2> DEFINE k == Mode({}, j.members, "busy", FALSE)
  <2>4. k \in RunEnds
    <3>1. k \in Modes /\ k.locals = {} /\ k.gpu = "busy" /\ k.members = j.members /\ k.running = FALSE
      <4>1. j.members \in SUBSET Names
        BY FrameMode
      <4> QED
        BY <4>1, StoppedMode
    <3> HIDE DEF k
    <3> QED
      BY <2>1, <3>1 DEF RunEnds, Ready
  <2>5. Runs(Failures, j, Stop, k)
    <3>1. Runs(Failures, Mode({}, j.members, "busy", j.running), Stop, k)
      <4>1. Mode({}, j.members, "busy", j.running) \in Modes
        BY <2>1
      <4> QED
        BY <4>1, RunsStop
    <3> QED
      BY <2>1, <3>1
  <2> HIDE DEF k
  <2>6. Leads(Failures, j, Stop, RunEnds)
    BY <2>4, <2>5, LeadsInto DEF Runs
  <2> QED
    BY <2>3, <2>6
<1> DEFINE p == start \o BeginFrame(has) \o Surely({"app", "ecs"}) \o EndFrame(has)
           body == p \o SetCursorShape(has) \o draw \o last
<1>8. RunStep(h, has, size, surface, closing) = body \o Catch(Stop)
  BY DEF RunStep
<1>9. N # {} /\ CursorModes(has) # {}
  <2>1. m.members = has
    BY ModeParts
  <2>2. m \in CursorModes(has)
    BY <1>4, <2>1 DEF CursorModes
  <2> QED
    BY <1>4, <2>2
<1> HIDE DEF a, m, start, draw, last, N, r
<1>10. Runs(Failures, a, p, m)
  BY <1>2, <1>3, RunsOn
<1> HIDE DEF p
<1>11. Leads(Failures, a, body, RunEnds)
  <2>1. Leads(Failures, a, p \o SetCursorShape(has), CursorModes(has))
    BY <1>5, <1>10, LeadsOn DEF Runs
  <2>2. Leads(Failures, a, p \o SetCursorShape(has) \o draw, N)
    BY <1>6, <1>9, <2>1, LeadsOn
  <2> QED
    BY <1>7, <1>9, <2>2, LeadsOn
<1> HIDE DEF body
<1>12. Typed(RunEnds, a, body \o Catch(Stop))
  BY <1>11, TypedMain
<1> QED
  BY <1>8, <1>12 DEF a

\* Where a boot may be once it has taken on what it was asked to.
Booted(M) ==
    /\ CanEnd(M) /\ {"app", "ecs", "indices", "channel"} \cap M = {}
    /\ "fences" \in M => DrawnNames \subseteq M
    /\ "ui" \in M => "window" \in M
    /\ "window" \in M => "server" \in M

BootModes == {m \in Modes : m.locals = {} /\ m.gpu = "busy" /\ m.running = TRUE /\ Booted(m.members)}

LEMMA BootMode ==
    ASSUME NEW M, Booted(M)
    PROVE  /\ Mode({}, M, "busy", TRUE) \in BootModes /\ M \in SUBSET Names
           /\ \A L \in SUBSET Names, g \in {"idle", "busy"} : At(Failures, Mode(L, M, g, TRUE))
           /\ Mode({}, M, "idle", TRUE) = Idle(Mode({}, M, "busy", TRUE))
<1>1. CanEnd(M) /\ M \in SUBSET Names
  BY NamesAre DEF Booted, CanEnd, MemberNames, EngineNames, RendererNames, TargetNames, PipelineNames
<1>2. \A L \in SUBSET Names, g \in {"idle", "busy"} :
          At(Failures, Mode(L, M, g, TRUE)) /\ Mode(L, M, g, TRUE) \in Modes
  BY <1>1, AtCanEnd
<1>3. Mode({}, M, "busy", TRUE) \in Modes
  BY <1>2
<1>4. Mode({}, M, "busy", TRUE) \in BootModes
  <2> DEFINE m == Mode({}, M, "busy", TRUE)
  <2>1. m \in Modes /\ m.locals = {} /\ m.gpu = "busy" /\ m.running = TRUE /\ m.members = M
    BY <1>3 DEF Mode
  <2> HIDE DEF m
  <2>2. m \in BootModes
    BY <2>1 DEF BootModes
  <2> QED
    BY <2>2 DEF m
<1>5. Mode({}, M, "idle", TRUE) = Idle(Mode({}, M, "busy", TRUE))
  BY RunningMode
<1> QED
  BY <1>1, <1>2, <1>4, <1>5

LEMMA BootModeIs ==
    ASSUME NEW m \in BootModes
    PROVE  m = Mode({}, m.members, "busy", TRUE) /\ Booted(m.members)
BY DEF BootModes, Mode, Modes

LEMMA RunsBootPresentation ==
    Runs(Failures, Mode({}, {}, "busy", TRUE), BootPresentation, Mode({}, {"server", "window"}, "busy", TRUE))
<1> DEFINE a == Mode({}, {}, "busy", TRUE)
           b == Mode({"server"}, {}, "busy", TRUE)
           c == Mode({}, {"server"}, "busy", TRUE)
           d == Mode({"window"}, {"server"}, "busy", TRUE)
           e == Mode({}, {"server", "window"}, "busy", TRUE)
<1>1. Booted({}) /\ Booted({"server"})
  BY DEF Booted, CanEnd, MemberNames, EngineNames
<1>2. MayMake({}, {}, "server") /\ MayMake({}, {"server"}, "window")
  BY NeedsAre, NamesAre DEF MayMake
<1>3. {} \cup {"server"} = {"server"} /\ {} \cup {"window"} = {"window"}
      /\ {"server"} \cup {"window"} = {"server", "window"}
  OBVIOUS
<1>4. At(Failures, a) /\ At(Failures, c)
  BY <1>1, BootMode
<1>5. Runs(Failures, a, Make("server"), b) /\ At(Failures, b)
  <2>1. /\ Runs(Failures, a, Make("server"), Mode({} \cup {"server"}, {}, "busy", TRUE))
        /\ At(Failures, Mode({} \cup {"server"}, {}, "busy", TRUE))
    BY <1>2, <1>4, RunsMake
  <2> QED
    BY <1>3, <2>1
<1>6. Runs(Failures, b, Adopt, c)
  <2>1. Runs(Failures, b, Adopt, Mode({}, {} \cup {"server"}, "busy", TRUE))
    BY <1>5, RunsAdopt DEF At
  <2> QED
    BY <1>3, <2>1
<1>7. Runs(Failures, c, Make("window"), d) /\ At(Failures, d)
  <2>1. /\ Runs(Failures, c, Make("window"), Mode({} \cup {"window"}, {"server"}, "busy", TRUE))
        /\ At(Failures, Mode({} \cup {"window"}, {"server"}, "busy", TRUE))
    BY <1>2, <1>4, RunsMake
  <2> QED
    BY <1>3, <2>1
<1>8. Runs(Failures, d, Adopt, e)
  <2>1. Runs(Failures, d, Adopt, Mode({}, {"server"} \cup {"window"}, "busy", TRUE))
    BY <1>7, RunsAdopt DEF At
  <2> QED
    BY <1>3, <2>1
<1> HIDE DEF a, b, c, d, e
<1>9. Runs(Failures, a, BootPresentation, e)
  BY <1>5, <1>6, <1>7, <1>8, RunsOn DEF BootPresentation
<1> QED
  BY <1>9 DEF a, e

\* What the debug UI adds.
UiNames(dev) == {"server", "window"} \cup (IF dev THEN {"ui"} ELSE {})

LEMMA RunsBootDebugUi ==
    ASSUME NEW h
    PROVE  Runs(Failures, Mode({}, {"server", "window"}, "busy", TRUE), BootDebugUi(h),
                Mode({}, UiNames(h.dev), "busy", TRUE))
<1> DEFINE M == {"server", "window"}
           a == Mode({}, M, "busy", TRUE)
           b == Mode({"ui"}, M, "busy", TRUE)
           c == Mode({}, {"server", "window", "ui"}, "busy", TRUE)
<1>1. Booted(M) /\ MayMake({}, M, "ui") /\ {"window"} \subseteq {} \cup M /\ {} \cup {"ui"} = {"ui"}
      /\ M \cup {"ui"} = {"server", "window", "ui"}
  BY NeedsAre, NamesAre DEF Booted, CanEnd, MemberNames, EngineNames, MayMake
<1>2. At(Failures, a)
  BY <1>1, BootMode
<1>3. CASE h.dev
  <2>1. Runs(Failures, a, Surely({"window"}), a)
    BY <1>1, <1>2, RunsCall
  <2>2. Runs(Failures, a, Own("ui"), b) /\ At(Failures, b)
    <3>1. /\ Runs(Failures, a, Own("ui"), Mode({} \cup {"ui"}, M, "busy", TRUE))
          /\ At(Failures, Mode({} \cup {"ui"}, M, "busy", TRUE))
      BY <1>1, <1>2, RunsMake
    <3> QED
      BY <1>1, <3>1
  <2>3. Runs(Failures, b, Adopt, c)
    <3>1. Runs(Failures, b, Adopt, Mode({}, M \cup {"ui"}, "busy", TRUE))
      BY <2>2, RunsAdopt DEF At
    <3> QED
      BY <1>1, <3>1
  <2>4. UiNames(h.dev) = {"server", "window", "ui"}
    BY <1>3 DEF UiNames
  <2> HIDE DEF a, b, c
  <2>5. Runs(Failures, a, BootDebugUi(h), c)
    BY <1>3, <2>1, <2>2, <2>3, RunsOn DEF BootDebugUi
  <2> QED
    BY <2>4, <2>5 DEF a, c
<1>4. CASE ~h.dev
  <2>1. UiNames(h.dev) = M /\ BootDebugUi(h) = <<>>
    BY <1>4 DEF UiNames, BootDebugUi
  <2> QED
    BY <2>1, LeadsNowhere DEF Runs
<1> QED
  BY <1>3, <1>4

\* Without its backend there is no debug UI.
LEMMA LeadsInitializeDebugUiBackend ==
    ASSUME NEW M, Booted(M), {"device", "fences", "ui"} \subseteq M, "backend" \notin M
    PROVE  Leads(Failures, Mode({}, M, "busy", TRUE), InitializeDebugUiBackend, BootModes)
<1> DEFINE a == Mode({}, M, "busy", TRUE)
           b == Mode({"backend"}, M, "busy", TRUE)
           c == Mode({}, M \cup {"backend"}, "busy", TRUE)
           d == Mode({}, M \ {"ui"}, "busy", TRUE)
           Inner == {a}
<1>1. a \in BootModes /\ M \in SUBSET Names /\ At(Failures, a)
  BY BootMode
<1>2. MayMake({}, M, "backend") /\ {} \cup {"backend"} = {"backend"} /\ {"backend"} \cap M = {}
  BY NeedsAre, NamesAre DEF MayMake
<1>3. MayRelease({}, M, "busy", "ui")
  <2>1. "uiFrame" \notin M
    BY DEF Booted, CanEnd, MemberNames, EngineNames, RendererNames, TargetNames, PipelineNames
  <2> QED
    BY <1>1, <2>1, UsersAre, NamesAre, ZenonT(40) DEF MayRelease, GpuNames
<1>4. c \in BootModes /\ d \in BootModes
  <2>1. Booted(M \cup {"backend"}) /\ Booted(M \ {"ui"})
    BY DEF Booted, CanEnd, MemberNames, DrawnNames, RendererNames, TargetNames, PipelineNames
  <2> QED
    BY <2>1, BootMode
<1>5. Runs(Inner, a, Make("backend"), b) /\ At(Inner, b)
  <2>1. At(Inner, a)
    BY <1>1, RunningMode DEF At
  <2>2. /\ Runs(Inner, a, Make("backend"), Mode({} \cup {"backend"}, M, "busy", TRUE))
        /\ At(Inner, Mode({} \cup {"backend"}, M, "busy", TRUE))
    BY <1>2, <2>1, RunsMake
  <2> QED
    BY <1>2, <2>2
<1>6. Runs(Inner, b, Adopt, c)
  BY <1>2, <1>5, RunsAdopt DEF At
<1>7. Runs(Failures, a, Release("ui"), d)
  BY <1>1, <1>3, RunsRelease DEF At
<1>8. a \in Modes /\ a.gpu # "own" /\ BootModes \in SUBSET Modes /\ BootModes # {}
      /\ \A n \in BootModes : n.gpu # "own"
  BY <1>1 DEF BootModes
<1> HIDE DEF a, b, c, d
<1>9. Leads(Inner, a, Make("backend") \o Adopt, BootModes)
  <2>1. Runs(Inner, a, Make("backend") \o Adopt, c)
    BY <1>5, <1>6, RunsOn
  <2> QED
    BY <1>4, <2>1, LeadsInto DEF Runs
<1>10. \A x \in Inner : Leads(Failures, x, Release("ui"), BootModes)
  BY <1>4, <1>7, LeadsInto DEF Runs
<1>11. IsProgram(Release("ui"))
  BY <1>7 DEF Runs, Leads
<1> HIDE DEF Inner
<1>12. Leads(Failures, a, InitializeDebugUiBackend, BootModes)
  BY <1>8, <1>9, <1>10, <1>11, LeadsGuarded DEF InitializeDebugUiBackend
<1> QED
  BY <1>12 DEF a

LEMMA RunsCreate ==
    ASSUME NEW h, MipLevels(h.texture) \in 1 .. 32, NEW size
    PROVE  Runs(Failures, Mode({}, UiNames(h.dev), "busy", TRUE), Create(h, size),
                Mode({}, UiNames(h.dev) \cup RendererNames(h.dev), "idle", TRUE))
<1> DEFINE M == UiNames(h.dev)
           a == Mode({}, M, "busy", TRUE)
           b == Mode(TargetNames(h.dev), M, "busy", TRUE)
           c == Mode({}, M \cup RendererNames(h.dev), "idle", TRUE)
<1>1. Booted(M) /\ M \subseteq EngineNames /\ "window" \in M
  BY DEF UiNames, Booted, CanEnd, MemberNames, EngineNames
<1>2. At(Failures, a)
  BY <1>1, BootMode
<1>3. Runs(Failures, a, CreateDeviceAndTargets(h, size), b) /\ At(Failures, b)
  BY <1>1, <1>2, RunsCreateDeviceAndTargets
<1>4. Runs(Failures, b, CreatePipelineAndFrames(h), c)
  BY <1>1, <1>3, RunsCreatePipelineAndFrames
<1> HIDE DEF a, b, c
<1>5. Runs(Failures, a, Create(h, size), c)
  BY <1>3, <1>4, RunsOn DEF Create
<1> QED
  BY <1>5 DEF a, c

LEMMA LeadsBootRendering ==
    ASSUME NEW h, MipLevels(h.texture) \in 1 .. 32, NEW size
    PROVE  /\ Leads(Failures, Mode({}, {"server", "window"}, "busy", TRUE),
                    BootRendering(h, TRUE, size), BootModes)
           /\ Leads(Failures, Mode({}, {}, "busy", TRUE), BootRendering(h, FALSE, size), BootModes)
<1> DEFINE a == Mode({}, {"server", "window"}, "busy", TRUE)
           z == Mode({}, {}, "busy", TRUE)
           b == Mode({}, UiNames(h.dev), "busy", TRUE)
           M == UiNames(h.dev) \cup RendererNames(h.dev)
           i == Mode({}, M, "idle", TRUE)
           c == Mode({}, M, "busy", TRUE)
           last == IF h.dev THEN InitializeDebugUiBackend ELSE <<>>
<1>1. Booted({"server", "window"}) /\ Booted({}) /\ Booted(M) /\ "backend" \notin M
      /\ {"device", "fences"} \subseteq M /\ (h.dev => "ui" \in M)
  BY DEF Booted, CanEnd, MemberNames, EngineNames, UiNames, DrawnNames, RendererNames, TargetNames, PipelineNames
<1>2. At(Failures, a) /\ At(Failures, z) /\ c \in BootModes /\ i = Idle(c) /\ c.gpu = "busy"
  BY <1>1, BootMode DEF BootModes
<1>3. Runs(Failures, a, Needed(TRUE), a)
  BY <1>2, RunsCall
<1>4. Runs(Failures, a, BootDebugUi(h), b)
  BY RunsBootDebugUi
<1>5. Runs(Failures, b, Create(h, size), i)
  BY RunsCreate
<1>6. Leads(Failures, c, last, BootModes)
  <2>1. CASE h.dev
    <3>1. {"device", "fences", "ui"} \subseteq M
      BY <1>1, <2>1
    <3> HIDE DEF M
    <3> QED
      BY <1>1, <2>1, <3>1, LeadsInitializeDebugUiBackend
  <2>2. CASE ~h.dev
    BY <1>2, <2>2, LeadsNowhere
  <2> QED
    BY <2>1, <2>2
<1> HIDE DEF a, b, c, i, last, M
<1>7. Leads(Failures, i, last, BootModes)
  BY <1>2, <1>6, LeadsFromIdle
<1>8. Leads(Failures, a, BootRendering(h, TRUE, size), BootModes)
  <2>1. Runs(Failures, a, Needed(TRUE) \o BootDebugUi(h) \o Create(h, size), i)
    BY <1>3, <1>4, <1>5, RunsOn
  <2>2. Leads(Failures, a, Needed(TRUE) \o BootDebugUi(h) \o Create(h, size) \o last, BootModes)
    BY <1>7, <2>1, LeadsOn DEF Runs
  <2> QED
    BY <2>2 DEF BootRendering, last
<1>9. Leads(Failures, z, Needed(FALSE), {})
  <2> DEFINE s == [op |-> "call", on |-> {}, fails |-> {~FALSE}, with |-> <<>>]
  <2>1. /\ s.op = "call" /\ s.op \notin {"choose", "catch"} /\ s.on = {} /\ FALSE \notin s.fails
        /\ Needed(FALSE) = <<s>>
    BY DEF Needed, Step
  <2> HIDE DEF s
  <2>2. Allowed(z, s) /\ z \in Modes /\ Failed(z) \in Failures
    BY <1>2, <2>1 DEF Allowed, Quiet, At
  <2>3. Leads(Failures, z, <<s>>, {})
    <3> HIDE DEF z
    <3> QED
      BY <2>1, <2>2, LeadsNeverOn
  <2> QED
    BY <2>1, <2>3
<1>10. Leads(Failures, z, BootRendering(h, FALSE, size), BootModes)
  <2> HIDE DEF z
  <2>2. Leads(Failures, z, Needed(FALSE) \o BootDebugUi(h), {})
    BY <1>4, <1>9, LeadsNever DEF Runs
  <2>3. Leads(Failures, z, Needed(FALSE) \o BootDebugUi(h) \o Create(h, size), {})
    BY <1>5, <2>2, LeadsNever DEF Runs
  <2>4. Leads(Failures, z, Needed(FALSE) \o BootDebugUi(h) \o Create(h, size) \o last, BootModes)
    BY <1>6, <2>3, LeadsNever
  <2> QED
    BY <2>4 DEF BootRendering, last
<1> QED
  BY <1>8, <1>10 DEF a


LEMMA OneStep == \A s : IsProgram(<<s>>)
<1> TAKE s
<1>1. <<s>> \in Seq({s})
  OBVIOUS
<1> QED
  BY <1>1 DEF IsProgram

LEMMA FourAssociate ==
    \A p, q, r, s : IsProgram(p) /\ IsProgram(q) /\ IsProgram(r) /\ IsProgram(s)
                    => p \o ((q \o r) \o s) = ((p \o q) \o r) \o s
<1> TAKE p, q, r, s
<1> HAVE IsProgram(p) /\ IsProgram(q) /\ IsProgram(r) /\ IsProgram(s)
<1>1. IsProgram(q \o r)
  BY ConcatIsProgram
<1>2. p \o ((q \o r) \o s) = (p \o (q \o r)) \o s
  BY <1>1, ProgramsAssociate, SMTT(30)
<1>3. p \o (q \o r) = (p \o q) \o r
  BY ProgramsAssociate
<1> QED
  BY <1>2, <1>3

LEMMA LastThree ==
    ASSUME NEW p, IsProgram(p)
    PROVE  p \o Own("ecs") \o Own("app") \o Adopt = p \o (Own("ecs") \o Own("app") \o Adopt)
<1> DEFINE q == Own("ecs")
           r == Own("app")
           s == Adopt
<1>1. IsProgram(q) /\ IsProgram(r) /\ IsProgram(s)
  BY OneStep DEF Own, Adopt, Step
<1> HIDE DEF q, r, s
<1>2. p \o ((q \o r) \o s) = ((p \o q) \o r) \o s
  BY <1>1, FourAssociate, SMTT(30)
<1> QED
  BY <1>2 DEF q, r, s

\* Where a boot may be once the channel was asked for.
OpenedModes == {m \in Modes : /\ m.locals = {} /\ m.gpu = "busy" /\ m.running = TRUE
                              /\ Booted(m.members \ {"channel"})}

LEMMA OpenedMode ==
    ASSUME NEW M, Booted(M \ {"channel"})
    PROVE  /\ Mode({}, M, "busy", TRUE) \in OpenedModes /\ M \in SUBSET Names /\ CanEnd(M)
           /\ {"app", "ecs", "indices"} \cap M = {}
           /\ \A L \in SUBSET Names : At(Failures, Mode(L, M, "busy", TRUE))
<1>1. CanEnd(M) /\ M \in SUBSET Names
  BY NamesAre DEF Booted, CanEnd, MemberNames, EngineNames, RendererNames, TargetNames, PipelineNames
<1>2. \A L \in SUBSET Names : At(Failures, Mode(L, M, "busy", TRUE)) /\ Mode(L, M, "busy", TRUE) \in Modes
  BY <1>1, AtCanEnd
<1>3. Mode({}, M, "busy", TRUE) \in OpenedModes
  <2> DEFINE m == Mode({}, M, "busy", TRUE)
  <2>1. m \in Modes /\ m.locals = {} /\ m.gpu = "busy" /\ m.running = TRUE /\ m.members = M
    <3>1. Mode({}, M, "busy", TRUE) \in Modes
      BY <1>2
    <3> QED
      BY <3>1 DEF Mode
  <2> HIDE DEF m
  <2>2. m \in OpenedModes
    BY <2>1 DEF OpenedModes
  <2> QED
    BY <2>2 DEF m
<1>4. {"app", "ecs", "indices"} \cap M = {}
  BY DEF Booted
<1> QED
  BY <1>1, <1>2, <1>3, <1>4

LEMMA LeadsStartIfRequested ==
    ASSUME NEW m \in BootModes
    PROVE  Leads(Failures, m, StartIfRequested, OpenedModes)
<1> DEFINE M == m.members
           b == Mode({"channel"}, M, "busy", TRUE)
           c == Mode({}, M \cup {"channel"}, "busy", TRUE)
           Inner == {m}
<1>1. m = Mode({}, M, "busy", TRUE) /\ Booted(M) /\ m \in Modes /\ m.gpu # "own"
  BY BootModeIs DEF BootModes
<1>2. M \ {"channel"} = M /\ (M \cup {"channel"}) \ {"channel"} = M /\ {"channel"} \cap M = {}
      /\ {} \cup {"channel"} = {"channel"}
  BY <1>1 DEF Booted
<1>3. c \in OpenedModes /\ m \in OpenedModes /\ M \in SUBSET Names
  <2> HIDE DEF M
  <2> QED
    BY <1>1, <1>2, OpenedMode
<1>4. At(Inner, m) /\ MayMake({}, M, "channel")
  <2>1. At(Inner, Mode({}, M, "busy", TRUE))
    <3>1. Failed(m) = Mode({}, M, "busy", TRUE)
      <4>1. m.members = M /\ m.running = TRUE
        BY DEF BootModes
      <4> QED
        BY <4>1 DEF Failed
    <3>2. At(Inner, m)
      BY <1>1, <3>1 DEF At
    <3> HIDE DEF M, Inner
    <3> QED
      BY <1>1, <3>2
  <2>2. MayMake({}, M, "channel")
    BY <1>2, NeedsAre, NamesAre DEF MayMake
  <2> QED
    BY <1>1, <2>1, <2>2
<1>5. Runs(Inner, m, Make("channel"), b) /\ At(Inner, b)
  <2> HIDE DEF M, Inner
  <2>1. /\ Runs(Inner, Mode({}, M, "busy", TRUE), Make("channel"), Mode({} \cup {"channel"}, M, "busy", TRUE))
        /\ At(Inner, Mode({} \cup {"channel"}, M, "busy", TRUE))
    BY <1>1, <1>4, RunsMake
  <2> QED
    BY <1>1, <1>2, <2>1
<1>6. Runs(Inner, b, Adopt, c)
  BY <1>2, <1>5, RunsAdopt DEF At
<1>7. OpenedModes \in SUBSET Modes /\ OpenedModes # {} /\ \A n \in OpenedModes : n.gpu # "own"
  BY <1>3 DEF OpenedModes
<1>8. Leads(Failures, m, <<>>, OpenedModes)
  BY <1>3, LeadsNowhere
<1>9. IsProgram(<<>>) /\ \A x \in Inner : Leads(Failures, x, <<>>, OpenedModes)
  BY <1>8 DEF Leads
<1> HIDE DEF b, c, Inner
<1>10. Leads(Inner, m, Make("channel") \o Adopt, OpenedModes)
  <2>1. Runs(Inner, m, Make("channel") \o Adopt, c)
    BY <1>5, <1>6, RunsOn
  <2> QED
    BY <1>3, <2>1, LeadsInto DEF Runs
<1>11. Leads(Failures, m, Guarded(Make("channel") \o Adopt, <<>>), OpenedModes)
  BY <1>1, <1>7, <1>9, <1>10, LeadsGuarded
<1> QED
  BY <1>1, <1>8, <1>11, LeadsEither DEF StartIfRequested

LEMMA LeadsToTheRun ==
    ASSUME NEW m \in OpenedModes
    PROVE  Leads(Failures, m, Own("ecs") \o Own("app") \o Adopt, RunEnds)
<1> DEFINE M == m.members
           b == Mode({"ecs"}, M, "busy", TRUE)
           c == Mode({"ecs", "app"}, M, "busy", TRUE)
           d == Mode({}, M \cup {"ecs", "app"}, "busy", TRUE)
<1>1. m = Mode({}, M, "busy", TRUE) /\ Booted(M \ {"channel"}) /\ m \in Modes
  BY DEF OpenedModes, Mode, Modes
<1>2. /\ {} \cup {"ecs"} = {"ecs"} /\ {"ecs"} \cup {"app"} = {"ecs", "app"}
  OBVIOUS
<1>3. /\ M \in SUBSET Names /\ CanEnd(M) /\ {"app", "ecs", "indices"} \cap M = {}
      /\ \A L \in SUBSET Names : At(Failures, Mode(L, M, "busy", TRUE))
  <2> HIDE DEF M
  <2> QED
    BY <1>1, OpenedMode
<1>4. MayMake({}, M, "ecs") /\ MayMake({"ecs"}, M, "app") /\ {"ecs", "app"} \cap M = {}
  BY <1>3, NeedsAre, NamesAre DEF MayMake
<1>5. At(Failures, m)
  BY <1>1, <1>3
<1>6. Runs(Failures, m, Own("ecs"), b) /\ At(Failures, b)
  <2> HIDE DEF M
  <2>1. /\ Runs(Failures, Mode({}, M, "busy", TRUE), Own("ecs"), Mode({} \cup {"ecs"}, M, "busy", TRUE))
        /\ At(Failures, Mode({} \cup {"ecs"}, M, "busy", TRUE))
    BY <1>1, <1>4, <1>5, RunsMake
  <2> QED
    BY <1>1, <1>2, <2>1
<1>7. Runs(Failures, b, Own("app"), c) /\ At(Failures, c)
  <2> HIDE DEF M
  <2>1. /\ Runs(Failures, b, Own("app"), Mode({"ecs"} \cup {"app"}, M, "busy", TRUE))
        /\ At(Failures, Mode({"ecs"} \cup {"app"}, M, "busy", TRUE))
    BY <1>4, <1>6, RunsMake
  <2> QED
    BY <1>2, <2>1
<1>8. Runs(Failures, c, Adopt, d)
  BY <1>4, <1>7, RunsAdopt DEF At
<1>9. d \in RunEnds
  <2>1. Ready(M \cup {"ecs", "app"}) /\ M \cup {"ecs", "app"} \in SUBSET Names
    BY <1>1, <1>3, NamesAre
       DEF Booted, Ready, CanEnd, MemberNames, EngineNames, DrawnNames, RendererNames, TargetNames, PipelineNames
  <2>2. d \in Modes /\ d.locals = {} /\ d.gpu = "busy" /\ d.members = M \cup {"ecs", "app"}
    <3> DEFINE K == M \cup {"ecs", "app"}
    <3> HIDE DEF K
    <3>1. Mode({}, K, "busy", TRUE) \in Modes
      BY <2>1, ModesAre DEF K
    <3>2. d = Mode({}, K, "busy", TRUE) /\ K = M \cup {"ecs", "app"}
      BY DEF K
    <3> HIDE DEF d, K
    <3>3. d \in Modes
      BY <3>1, <3>2
    <3>4. d.locals = {} /\ d.gpu = "busy" /\ d.members = K
      BY <3>2 DEF Mode
    <3> QED
      BY <3>2, <3>3, <3>4
  <2> HIDE DEF d
  <2> QED
    BY <2>1, <2>2 DEF RunEnds, Ready
<1> HIDE DEF b, c, d
<1>10. Runs(Failures, m, Own("ecs") \o Own("app") \o Adopt, d)
  BY <1>6, <1>7, <1>8, RunsOn
<1> QED
  BY <1>9, <1>10, LeadsInto DEF Runs

\* A boot ends where the run or the shutdown can begin, whatever it was asked
\* for and whatever failed.
LEMMA TypedBoot ==
    \A h, c, size :
        MipLevels(h.texture) \in 1 .. 32 /\ c.presentation \in BOOLEAN /\ c.rendering \in BOOLEAN
            => Typed(RunEnds, Mode({}, {}, "busy", TRUE), Boot(h, c, size))
<1> TAKE h, c, size
<1> HAVE MipLevels(h.texture) \in 1 .. 32 /\ c.presentation \in BOOLEAN /\ c.rendering \in BOOLEAN
<1> DEFINE z == Mode({}, {}, "busy", TRUE)
           a == Mode({}, {"server", "window"}, "busy", TRUE)
           first == IF c.presentation THEN BootPresentation ELSE <<>>
           second == IF c.rendering THEN BootRendering(h, c.presentation, size) ELSE <<>>
           body == first \o second \o StartIfRequested \o Own("ecs") \o Own("app") \o Adopt
<1>1. Boot(h, c, size) = body \o Catch(Stop)
  BY DEF Boot
<1>2. a \in BootModes /\ z \in BootModes
  <2>1. Booted({}) /\ Booted({"server", "window"})
    BY DEF Booted, CanEnd, MemberNames, EngineNames
  <2> QED
    BY <2>1, BootMode
<1>3. Leads(Failures, z, first \o second, BootModes)
  <2>1. CASE c.presentation
    <3>1. Runs(Failures, z, first, a)
      BY <2>1, RunsBootPresentation
    <3>2. Leads(Failures, a, second, BootModes)
      <4>1. CASE c.rendering
        <5>1. second = BootRendering(h, TRUE, size)
          BY <2>1, <4>1
        <5> QED
          BY <5>1, LeadsBootRendering
      <4>2. CASE ~c.rendering
        BY <1>2, <4>2, LeadsNowhere
      <4> QED
        BY <4>1, <4>2
    <3> HIDE DEF first, second, a, z
    <3> QED
      BY <3>1, <3>2, LeadsOn DEF Runs
  <2>2. CASE ~c.presentation
    <3>1. Runs(Failures, z, first, z)
      BY <2>2, LeadsNowhere DEF Runs
    <3>2. Leads(Failures, z, second, BootModes)
      <4>1. CASE c.rendering
        <5>1. second = BootRendering(h, FALSE, size)
          BY <2>2, <4>1
        <5> QED
          BY <5>1, LeadsBootRendering
      <4>2. CASE ~c.rendering
        BY <1>2, <4>2, LeadsNowhere
      <4> QED
        BY <4>1, <4>2
    <3> HIDE DEF first, second, a, z
    <3> QED
      BY <3>1, <3>2, LeadsOn DEF Runs
  <2> QED
    BY <2>1, <2>2
<1>4. Leads(Failures, z, first \o second \o StartIfRequested, OpenedModes)
  <2>1. BootModes # {}
    BY <1>2
  <2> HIDE DEF first, second, z
  <2> QED
    BY <1>3, <2>1, LeadsStartIfRequested, LeadsOn
<1>5. OpenedModes # {}
  <2>1. Booted({} \ {"channel"})
    BY DEF Booted, CanEnd, MemberNames, EngineNames
  <2> QED
    BY <2>1, OpenedMode
<1>6. \A m \in OpenedModes : Leads(Failures, m, Own("ecs") \o Own("app") \o Adopt, RunEnds)
  BY LeadsToTheRun
<1> DEFINE before == first \o second \o StartIfRequested
           after == Own("ecs") \o Own("app") \o Adopt
<1>7. before \o after = body
  <2>1. IsProgram(before)
    BY <1>4 DEF Leads
  <2>2. body = before \o Own("ecs") \o Own("app") \o Adopt
    OBVIOUS
  <2> HIDE DEF before, body, first, second
  <2> QED
    BY <2>1, <2>2, LastThree
<1> HIDE DEF before, after, z, body
<1>8. Leads(Failures, z, body, RunEnds)
  <2>1. Leads(Failures, z, before, OpenedModes) /\ \A m \in OpenedModes : Leads(Failures, m, after, RunEnds)
    BY <1>4, <1>6 DEF before, after
  <2> QED
    BY <1>5, <1>7, <2>1, LeadsOn
<1>9. Typed(RunEnds, z, body \o Catch(Stop))
  BY <1>8, TypedMain
<1> QED
  BY <1>1, <1>9 DEF z

-----------------------------------------------------------------------------
(* Shutdown: nothing is left, and nothing goes before its users.           *)

ShutEnds == {m \in Modes : m.locals = {} /\ m.members = {} /\ m.gpu # "own"}

LEMMA ShutEndsAreFair == Fair(ShutEnds)
<1>1. ASSUME NEW m \in ShutEnds PROVE Idle(m) \in ShutEnds
  BY ModeParts, SMTT(30) DEF ShutEnds, Idle, Modes
<1> QED
  BY <1>1 DEF Fair

\* A call that cannot fail needs nothing to handle it.
LEMMA RunsSurely ==
    ASSUME NEW H, NEW L, NEW M, NEW g \in {"idle", "busy"}, NEW r, Mode(L, M, g, r) \in Modes,
           NEW uses, uses \subseteq L \cup M
    PROVE  Runs(H, Mode(L, M, g, r), Surely(uses), Mode(L, M, g, r))
<1> DEFINE m == Mode(L, M, g, r)
           s == [op |-> "call", on |-> uses, fails |-> {FALSE}, with |-> <<>>]
<1>1. /\ s.op = "call" /\ s.op \notin {"choose", "catch"}
      /\ s.on = uses /\ TRUE \notin s.fails /\ Surely(uses) = <<s>>
  BY DEF Surely, Step
<1> HIDE DEF s
<1>2. Allowed(m, s) /\ After(m, s) = m
  BY <1>1, ModeParts DEF Allowed, After, Mode, Quiet
<1>3. m \in Modes
  OBVIOUS
<1> HIDE DEF m
<1>4. Runs(H, m, <<s>>, After(m, s))
  BY <1>1, <1>2, <1>3, RunsStep
<1> QED
  BY <1>1, <1>2, <1>4 DEF m

LEMMA MembersAre ==
    /\ Len(Members) = 26 /\ DOMAIN Members = 1 .. 26
    /\ Members[1] = "instance" /\ Members[2] = "messenger" /\ Members[3] = "surface"
    /\ Members[4] = "device" /\ Members[5] = "swapChain" /\ Members[6] = "swapViews"
    /\ Members[7] = "setLayout" /\ Members[8] = "pipelineLayout" /\ Members[9] = "pipeline"
    /\ Members[10] = "commandPool" /\ Members[11] = "vertices" /\ Members[12] = "indices"
    /\ Members[13] = "texture" /\ Members[14] = "textureView" /\ Members[15] = "sampler"
    /\ Members[16] = "msaa" /\ Members[17] = "msaaView" /\ Members[18] = "depth"
    /\ Members[19] = "depthView" /\ Members[20] = "uniforms" /\ Members[21] = "descriptorPool"
    /\ Members[22] = "descriptorSets" /\ Members[23] = "commandBuffers"
    /\ Members[24] = "presentComplete" /\ Members[25] = "renderFinished" /\ Members[26] = "fences"
BY DEF Members

\* An object of the renderer is made from ones declared before it.
LEMMA DeclaredInOrder ==
    ASSUME NEW x \in MemberNames \ ({"backend"} \cup EngineNames), NEW j \in 1 .. 26, Members[j] \in Needs[x]
    PROVE  \E l \in j + 1 .. 26 : Members[l] = x
<1>1. x \in Names
  BY NamesAre DEF MemberNames, EngineNames, RendererNames, TargetNames, PipelineNames
<1>2. Members[j] \in {"server", "window", "ui", "instance", "surface", "device", "swapChain", "msaa",
                      "depth", "setLayout", "commandPool", "texture", "descriptorPool"}
  BY <1>1, UsersAre
<1>3. j \in {1, 3, 4, 5, 7, 10, 13, 16, 18, 21}
  BY <1>2, MembersAre
<1>4. CASE j = 4
  <2>1. "device" \in Needs[x]
    BY <1>4, MembersAre
  <2>2. x \notin {"instance", "messenger", "surface", "device"}
    BY <2>1, NeedsAre
  <2>3. x \in {Members[l] : l \in 5 .. 26}
    BY <2>2, MembersAre DEF MemberNames, EngineNames, RendererNames, TargetNames, PipelineNames
  <2> QED
    BY <1>4, <2>3
<1>5. CASE j = 1
  <2>1. x \in {"messenger", "surface", "device"}
    BY <1>1, <1>5, MembersAre, UsersAre
  <2> QED
    BY <1>5, <2>1, MembersAre
<1>6. CASE j = 10
  <2>1. x = "commandBuffers"
    BY <1>1, <1>6, MembersAre, UsersAre DEF MemberNames, EngineNames, RendererNames, TargetNames, PipelineNames
  <2> QED
    BY <1>6, <2>1, MembersAre
<1>7. CASE j \in {3, 5, 7}
  <2>1. x = (CASE j = 3 -> "swapChain" [] j = 5 -> "swapViews" [] OTHER -> "pipelineLayout")
    BY <1>1, <1>7, MembersAre, UsersAre
  <2> QED
    BY <1>7, <2>1, MembersAre
<1>8. CASE j \in {13, 16, 18, 21}
  <2>1. x = (CASE j = 13 -> "textureView" [] j = 16 -> "msaaView" [] j = 18 -> "depthView"
               [] OTHER -> "descriptorSets")
    BY <1>1, <1>8, MembersAre, UsersAre
  <2> QED
    BY <1>8, <2>1, MembersAre
<1> QED
  BY <1>3, <1>4, <1>5, <1>6, <1>7, <1>8

\* The last i members by their declaration.
LastOf(i) == {Members[l] : l \in 27 - i .. 26}

LEMMA RunsReleaseMembers ==
    ASSUME NEW H, NEW M \in SUBSET (MemberNames \ {"backend", "app", "ecs", "channel"}), NEW r \in BOOLEAN
    PROVE  Runs(H, Mode({}, M, "idle", r), ReleaseMembers,
                Mode({}, M \cap {"server", "window", "cursor", "ui"}, "idle", r))
<1> DEFINE back == Reverse(Members)
           parts == [i \in 1 .. 26 |-> Release(back[i])]
           modes == [i \in 0 .. 26 |-> Mode({}, M \ LastOf(i), "idle", r)]
<1>1. ReleaseMembers = FlattenSeq(parts)
  BY MembersAre DEF ReleaseMembers
<1>2. \A i \in 1 .. 26 : back[i] = Members[27 - i]
  <2>1. Reverse(Members) = [i \in 1 .. 26 |-> Members[(26 - i) + 1]]
    BY MembersAre DEF Reverse
  <2>2. TAKE i \in 1 .. 26
  <2>3. (26 - i) + 1 = 27 - i
    OBVIOUS
  <2> QED
    BY <2>1, <2>3
<1>3. M \in SUBSET Names
  BY NamesAre DEF MemberNames, EngineNames, RendererNames, TargetNames, PipelineNames
<1>4. ASSUME NEW i \in 1 .. 26
      PROVE  Runs(H, modes[i - 1], parts[i], modes[i])
  <2> DEFINE o == Members[27 - i]
             K == M \ LastOf(i - 1)
  <2>1. o \in Names /\ o \notin EngineNames
    <3>1. \A j \in 1 .. 26 : Members[j] \in Names \ EngineNames
      <4>1. \A j \in 1 .. 26 : Members[j] \in
              {"instance", "messenger", "surface", "device", "swapChain", "swapViews", "setLayout",
               "pipelineLayout", "pipeline", "commandPool", "vertices", "indices", "texture",
               "textureView", "sampler", "msaa", "msaaView", "depth", "depthView", "uniforms",
               "descriptorPool", "descriptorSets", "commandBuffers", "presentComplete",
               "renderFinished", "fences"}
        BY MembersAre
      <4> QED
        BY <4>1, NamesAre DEF EngineNames
    <3>2. 27 - i \in 1 .. 26
      OBVIOUS
    <3> QED
      BY <3>1, <3>2
  <2>2. \A x \in K : o \notin Needs[x]
    <3> SUFFICES ASSUME NEW x \in K, o \in Needs[x] PROVE FALSE
      OBVIOUS
    <3>1. x \in MemberNames /\ x # "backend" /\ x \in Names
      BY <1>3
    <3>2. x \notin EngineNames
      <4>1. \A e \in EngineNames : Needs[e] \subseteq EngineNames
        BY NeedsAre DEF EngineNames
      <4> QED
        BY <2>1, <4>1
    <3>3. 27 - i \in 1 .. 26
      OBVIOUS
    <3>4. PICK l \in (27 - i) + 1 .. 26 : Members[l] = x
      BY <3>1, <3>2, <3>3, DeclaredInOrder
    <3>5. l \in 27 - (i - 1) .. 26
      OBVIOUS
    <3> QED
      BY <3>4, <3>5 DEF LastOf
  <2>3. LastOf(i) = LastOf(i - 1) \cup {o}
    <3>1. 27 - i .. 26 = (27 - (i - 1) .. 26) \cup {27 - i}
      OBVIOUS
    <3> QED
      BY <3>1 DEF LastOf
  <2>4. M \ LastOf(i) = K \ {o}
    BY <2>3
  <2>5. Mode({}, K, "idle", r) \in Modes /\ MayRelease({}, K, "idle", o)
    <3>1. K \subseteq Names
      BY <1>3
    <3>2. MayRelease({}, K, "idle", o)
      BY <2>1, <2>2 DEF MayRelease
    <3> HIDE DEF K
    <3> QED
      BY <3>1, <3>2, ModesAre
  <2>6. modes[i - 1] = Mode({}, K, "idle", r) /\ modes[i] = Mode({}, K \ {o}, "idle", r)
        /\ parts[i] = Release(o)
    <3>1. i - 1 \in 0 .. 26 /\ i \in 0 .. 26
      OBVIOUS
    <3>2. modes[i] = Mode({}, M \ LastOf(i), "idle", r)
      BY <3>1
    <3>3. modes[i - 1] = Mode({}, K, "idle", r)
      BY <3>1
    <3>4. parts[i] = Release(back[i])
      OBVIOUS
    <3> HIDE DEF modes, parts, back
    <3> QED
      BY <1>2, <2>4, <3>2, <3>3, <3>4
  <2> HIDE DEF K, o, modes, parts
  <2>7. Runs(H, Mode({}, K, "idle", r), Release(o), Mode({}, K \ {o}, "idle", r))
    BY <2>5, RunsRelease
  <2> QED
    BY <2>6, <2>7
<1>5. modes[0] = Mode({}, M, "idle", r)
      /\ modes[26] = Mode({}, M \cap {"server", "window", "cursor", "ui"}, "idle", r)
  <2>1. LastOf(0) = {}
    BY DEF LastOf
  <2>2. LastOf(26) = {"instance", "messenger", "surface", "device", "swapChain", "swapViews", "setLayout",
               "pipelineLayout", "pipeline", "commandPool", "vertices", "indices", "texture",
               "textureView", "sampler", "msaa", "msaaView", "depth", "depthView", "uniforms",
               "descriptorPool", "descriptorSets", "commandBuffers", "presentComplete",
               "renderFinished", "fences"}
    BY MembersAre DEF LastOf
  <2>3. M \ LastOf(26) = M \cap {"server", "window", "cursor", "ui"}
    BY <2>2 DEF MemberNames, EngineNames, RendererNames, TargetNames, PipelineNames
  <2>4. M \ LastOf(0) = M
    BY <2>1
  <2>5. modes[0] = Mode({}, M \ LastOf(0), "idle", r) /\ modes[26] = Mode({}, M \ LastOf(26), "idle", r)
    OBVIOUS
  <2> HIDE DEF modes
  <2> QED
    BY <2>3, <2>4, <2>5
<1>6. parts = [i \in 1 .. 26 |-> parts[i]]
  OBVIOUS
<1> HIDE DEF parts, modes, back
<1>7. Runs(H, modes[0], FlattenSeq(parts), modes[26])
  BY <1>4, <1>6, RunsFlattened
<1> QED
  BY <1>1, <1>5, <1>7

\* Teardown waits; a wait that fails has lost the device.
LEMMA RunsTeardown ==
    ASSUME NEW M \in SUBSET MemberNames, "device" \in M, NEW r \in BOOLEAN
    PROVE  Runs({}, Mode({}, M, "busy", r), Teardown, Mode({}, M \ {"backend"}, "idle", r))
<1> DEFINE m == Mode({}, M, "busy", r)
           i == Mode({}, M, "idle", r)
           s == [op |-> "wait", on |-> {"device"}, fails |-> BOOLEAN, with |-> <<>>]
<1>1. M \in SUBSET Names /\ m \in Modes /\ i \in Modes /\ m.gpu # "own" /\ i.gpu # "own"
  <2>1. M \in SUBSET Names
    BY NamesAre DEF MemberNames, EngineNames, RendererNames, TargetNames, PipelineNames
  <2>2. m \in Modes /\ i \in Modes
    BY <2>1, ModesAre
  <2> QED
    BY <2>1, <2>2, ModeParts
<1>2. Runs({i}, m, Wait, i)
  <2>1. /\ s.op = "wait" /\ s.op \notin {"choose", "catch"}
        /\ s.on = {"device"} /\ Wait = <<s>>
    BY DEF Wait, Step
  <2> HIDE DEF s
  <2>2. Allowed(m, s) /\ After(m, s) = i
    BY <2>1, ModeParts DEF Allowed, After, Mode
  <2>3. Fallen(m, s) = i
    BY <2>1 DEF Fallen, Failed, Idle, Mode
  <2> HIDE DEF m, i
  <2>4. Fallen(m, s) \in {i}
    BY <2>3
  <2> QED
    BY <1>1, <2>1, <2>2, <2>4, RunsStep
<1>3. Runs({}, i, Release("backend"), Mode({}, M \ {"backend"}, "idle", r))
  <2>0. \A x \in Names : "backend" \notin Needs[x]
    BY UsersAre
  <2>1. MayRelease({}, M, "idle", "backend")
    BY <1>1, <2>0, NamesAre DEF MayRelease
  <2> QED
    BY <1>1, <2>1, RunsRelease
<1> HIDE DEF m, i
<1>4. Runs({}, m, Guarded(Wait, <<>>), i)
  <2>1. \A h \in {i} : Leads({}, h, <<>>, {i})
    BY LeadsNowhere
  <2>2. IsProgram(<<>>)
    BY <2>1 DEF Leads
  <2>3. {i} \in SUBSET Modes /\ {i} # {} /\ \A n \in {i} : n.gpu # "own"
    BY <1>1
  <2> QED
    BY <1>1, <1>2, <2>1, <2>2, <2>3, LeadsGuarded DEF Runs
<1>5. Runs({}, m, Teardown, Mode({}, M \ {"backend"}, "idle", r))
  BY <1>3, <1>4, RunsOn DEF Teardown
<1> QED
  BY <1>5 DEF m

\* A shutdown ends with nothing left, whatever the run had.
LEMMA TypedShutdown ==
    ASSUME NEW M, CanEnd(M), NEW r \in BOOLEAN
    PROVE  Typed(ShutEnds, Mode({}, M, "busy", r), Shutdown(M))
<1> DEFINE B(K) == Mode({}, K, "busy", r)
           M1 == M \ {"channel"}
           M2 == M1 \ {"app"}
           M3 == M2 \ {"ecs"}
           M4 == M \cap {"server", "window", "cursor", "ui"}
           M5 == M4 \ {"ui"}
           M6 == M5 \ {"cursor"}
           M7 == M6 \ {"window"}
           second == IF "fences" \in M THEN Teardown \o ReleaseMembers ELSE <<>>
           third == IF "ui" \in M THEN Surely({"ui"}) \o Release("ui") ELSE <<>>
<1>1. M \in SUBSET Names /\ M \in SUBSET MemberNames
  BY NamesAre DEF CanEnd, MemberNames, EngineNames, RendererNames, TargetNames, PipelineNames
<1>2. ASSUME NEW K \in SUBSET Names, NEW o \in Names \ GpuNames, \A x \in K : o \notin Needs[x]
      PROVE  Runs({}, B(K), Release(o), B(K \ {o}))
  <2>1. Mode({}, K, "busy", r) \in Modes /\ MayRelease({}, K, "busy", o)
    <3>1. MayRelease({}, K, "busy", o)
      BY <1>2 DEF MayRelease
    <3> QED
      BY <3>1, ModesAre
  <2> QED
    BY <2>1, RunsRelease
<1>3. \A x \in Names : "channel" \notin Needs[x] /\ "app" \notin Needs[x] /\ "ecs" \notin Needs[x]
                        /\ "cursor" \notin Needs[x]
  BY UsersAre
<1>4. {"channel", "app", "ecs", "cursor", "window", "server", "ui"} \subseteq Names \ GpuNames
  BY NamesAre DEF GpuNames
<1>5. Runs({}, B(M), Release("channel"), B(M1)) /\ Runs({}, B(M1), Release("app"), B(M2))
      /\ Runs({}, B(M2), Release("ecs"), B(M3))
  <2> HIDE DEF B
  <2> QED
    BY <1>1, <1>2, <1>3, <1>4
<1>6. Runs({}, B(M3), second, B(M4))
  <2>1. CASE "fences" \notin M
    <3>1. M3 = M4
      BY <2>1 DEF CanEnd, EngineNames
    <3>2. Runs({}, B(M3), <<>>, B(M3))
      BY LeadsNowhere DEF Runs
    <3> HIDE DEF B, M3, M4
    <3> QED
      BY <2>1, <3>1, <3>2
  <2>2. CASE "fences" \in M
    <3> DEFINE b == B(M3)
               c == Mode({}, M3 \ {"backend"}, "idle", r)
               d == Mode({}, M4, "idle", r)
               e == B(M4)
    <3>1. Runs({}, b, Teardown, c)
      <4>1. M3 \in SUBSET MemberNames /\ "device" \in M3
        BY <1>1, <2>2 DEF CanEnd
      <4> HIDE DEF M3
      <4> QED
        BY <4>1, RunsTeardown
    <3>2. Runs({}, c, ReleaseMembers, d)
      <4> DEFINE K == M3 \ {"backend"}
      <4>1. K \in SUBSET (MemberNames \ {"backend", "app", "ecs", "channel"})
            /\ K \cap {"server", "window", "cursor", "ui"} = M4
        BY <1>1
      <4>2. c = Mode({}, K, "idle", r)
        OBVIOUS
      <4> HIDE DEF K, c
      <4>3. Runs({}, Mode({}, K, "idle", r), ReleaseMembers,
                 Mode({}, K \cap {"server", "window", "cursor", "ui"}, "idle", r))
        BY <4>1, RunsReleaseMembers
      <4> QED
        BY <4>1, <4>2, <4>3
    <3>3. d = Idle(e) /\ e.gpu = "busy"
      BY ModeParts
    <3> HIDE DEF b, c, d, e
    <3>4. Runs({}, b, Teardown \o ReleaseMembers, d)
      BY <3>1, <3>2, RunsOn
    <3>5. Runs({}, b, Teardown \o ReleaseMembers, e)
      BY <3>3, <3>4, LeadsInto DEF Runs
    <3> QED
      BY <2>2, <3>5 DEF b, e
  <2> QED
    BY <2>1, <2>2
<1>7. Runs({}, B(M4), third, B(M5))
  <2>1. CASE "ui" \notin M
    <3>1. M4 = M5
      BY <2>1
    <3>2. Runs({}, B(M4), <<>>, B(M4))
      BY LeadsNowhere DEF Runs
    <3> HIDE DEF B, M4, M5
    <3> QED
      BY <2>1, <3>1, <3>2
  <2>2. CASE "ui" \in M
    <3>1. M4 \in SUBSET Names /\ (\A x \in M4 : "ui" \notin Needs[x]) /\ {"ui"} \subseteq {} \cup M4
      BY <1>1, <2>2, NeedsAre
    <3>2. Runs({}, B(M4), Release("ui"), B(M5))
      <4> HIDE DEF B, M4
      <4> QED
        BY <1>2, <1>4, <3>1
    <3>3. Runs({}, B(M4), Surely({"ui"}), B(M4))
      <4> HIDE DEF M4
      <4>1. Mode({}, M4, "busy", r) \in Modes
        BY <3>1, ModesAre
      <4> QED
        BY <3>1, <4>1, RunsSurely
    <3> HIDE DEF B, M4, M5
    <3> QED
      BY <2>2, <3>2, <3>3, RunsOn
  <2> QED
    BY <2>1, <2>2
<1>8. Runs({}, B(M5), ReleaseWindowServer, B({}))
  <2>1. M5 \in SUBSET Names /\ M6 \in SUBSET Names /\ M7 \in SUBSET Names /\ M7 \ {"server"} = {}
        /\ (\A x \in M5 : "cursor" \notin Needs[x]) /\ (\A x \in M6 : "window" \notin Needs[x])
        /\ (\A x \in M7 : "server" \notin Needs[x])
    BY <1>1, NeedsAre
  <2> HIDE DEF B, M5, M6, M7
  <2>2. /\ Runs({}, B(M5), Release("cursor"), B(M5 \ {"cursor"}))
        /\ Runs({}, B(M6), Release("window"), B(M6 \ {"window"}))
        /\ Runs({}, B(M7), Release("server"), B(M7 \ {"server"}))
    BY <1>2, <1>4, <2>1
  <2>3. /\ Runs({}, B(M5), Release("cursor"), B(M6))
        /\ Runs({}, B(M6), Release("window"), B(M7))
        /\ Runs({}, B(M7), Release("server"), B({}))
    BY <2>1, <2>2 DEF M6, M7
  <2> QED
    BY <2>3, RunsOn DEF ReleaseWindowServer
<1>9. Typed(ShutEnds, B({}), <<>>)
  <2> DEFINE k == B({})
  <2>1. k \in Modes /\ k.locals = {} /\ k.members = {} /\ k.gpu = "busy"
    BY ModeParts
  <2> HIDE DEF k
  <2>2. Typed(ShutEnds, k, <<>>)
    BY <2>1, TypedEnd DEF ShutEnds
  <2> QED
    BY <2>2 DEF k
<1> HIDE DEF B, M1, M2, M3, M4, M5, second, third
<1>10. Runs({}, B(M), Shutdown(M), B({}))
  <2>1. Shutdown(M) = Release("channel") \o Release("app") \o Release("ecs") \o second \o third
                      \o ReleaseWindowServer
    BY DEF Shutdown, second, third
  <2>2. Runs({}, B(M), Release("channel") \o Release("app") \o Release("ecs") \o second, B(M4))
    BY <1>5, <1>6, RunsOn
  <2>3. Runs({}, B(M), Release("channel") \o Release("app") \o Release("ecs") \o second \o third
                      \o ReleaseWindowServer, B({}))
    BY <1>7, <1>8, <2>2, RunsOn
  <2> QED
    BY <2>1, <2>3
<1>11. IsProgram(Shutdown(M)) /\ IsProgram(<<>>) /\ Shutdown(M) \o <<>> = Shutdown(M)
  <2>1. IsProgram(Shutdown(M)) /\ IsProgram(<<>>)
    BY <1>10, LeadsNowhere DEF Runs, Leads
  <2> QED
    BY <2>1, ConcatEmptySeq DEF IsProgram
<1>12. Covers(ShutEnds, {}, <<>>)
  BY DEF Covers
<1>13. Typed(ShutEnds, B(M), Shutdown(M) \o <<>>)
  BY <1>9, <1>10, <1>11, <1>12, ShutEndsAreFair DEF Runs, Leads
<1> QED
  BY <1>11, <1>13 DEF B

-----------------------------------------------------------------------------
(* The objects.                                                            *)

Objects == Names \X Nat
NamesOf(objects) == {o[1] : o \in objects}
Named(objects, name) == {o \in objects : o[1] = name}

\* What a name stands for among locals ls and members ms.
Binding(ls, ms, name) ==
    IF name \in NamesOf(Range(ls)) THEN Named(Range(ls), name) ELSE Named(ms, name)

\* No two locals and no two members have the same name.  A member was made from
\* the members its name asks for, a local from locals before it and from members.
Made(ls, ms, made) ==
    /\ ls \in Seq(Objects) /\ ms \in SUBSET Objects /\ IsFiniteSet(ms)
    /\ made = [o \in Range(ls) \cup ms |-> made[o]] /\ Range(ls) \cap ms = {}
    /\ \A i, j \in DOMAIN ls : ls[i][1] = ls[j][1] => i = j
    /\ \A o, p \in ms : o[1] = p[1] => o = p
    /\ \A o \in ms : /\ Needs[o[1]] \subseteq NamesOf(ms)
                     /\ made[o] = UNION {Named(ms, n) : n \in Needs[o[1]]}
    /\ \A i \in DOMAIN ls :
          /\ Needs[ls[i][1]] \subseteq NamesOf(Range(ls)) \cup NamesOf(ms)
          /\ made[ls[i]] = UNION {Binding(ls, ms, n) : n \in Needs[ls[i][1]]}
          /\ \A j \in DOMAIN ls : ls[j][1] \in Needs[ls[i][1]] => j < i

\* What the GPU may be at work on, in a mode's word for it; a lost device is at
\* work on nothing.
AtWork(gpu) ==
    lost \/ /\ inUse \subseteq Range(locals) \cup members
            /\ \A o \in inUse : o[1] \in GpuNames
            /\ gpu = "idle" => inUse = {}
            /\ gpu = "busy" => inUse \cap Range(locals) = {}

LEMMA NothingNeedsItself == \A x \in Names : x \notin Needs[x] /\ Needs[x] \subseteq Names
<1>1. \A x \in Names : x \notin Needs[x]
  BY NamesAre, NeedsAre
<1>2. \A x \in Names : Needs[x] \subseteq Names
  BY UsersAre, NamesAre
<1> QED
  BY <1>1, <1>2

LEMMA RangeOfAppend ==
    ASSUME NEW T, NEW s \in Seq(T), NEW e \in T
    PROVE  /\ Append(s, e) \in Seq(T) /\ Len(Append(s, e)) = Len(s) + 1
           /\ \A i \in 1 .. Len(s) : Append(s, e)[i] = s[i]
           /\ Append(s, e)[Len(s) + 1] = e
           /\ Range(Append(s, e)) = Range(s) \cup {e}
<1>1. /\ Append(s, e) \in Seq(T) /\ Len(Append(s, e)) = Len(s) + 1 /\ Len(s) \in Nat
      /\ \A i \in 1 .. Len(s) : Append(s, e)[i] = s[i]
      /\ Append(s, e)[Len(s) + 1] = e
  OBVIOUS
<1>2. DOMAIN Append(s, e) = 1 .. Len(s) + 1 /\ DOMAIN s = 1 .. Len(s)
  BY <1>1
<1>3. Range(Append(s, e)) = Range(s) \cup {e}
  <2>1. ASSUME NEW x \in Range(Append(s, e)) PROVE x \in Range(s) \cup {e}
    <3>1. PICK i \in 1 .. Len(s) + 1 : x = Append(s, e)[i]
      BY <1>2 DEF Range
    <3>2. i = Len(s) + 1 \/ i \in 1 .. Len(s)
      BY <1>1
    <3> QED
      BY <1>1, <1>2, <3>1, <3>2 DEF Range
  <2>2. ASSUME NEW x \in Range(s) \cup {e} PROVE x \in Range(Append(s, e))
    <3>1. CASE x = e
      BY <1>1, <1>2, <3>1 DEF Range
    <3>2. CASE x \in Range(s)
      <4>1. PICK i \in 1 .. Len(s) : x = s[i]
        BY <1>2, <3>2 DEF Range
      <4>2. i \in 1 .. Len(s) + 1 /\ x = Append(s, e)[i]
        BY <1>1, <4>1
      <4> QED
        BY <1>2, <4>2 DEF Range
    <3> QED
      BY <3>1, <3>2
  <2> QED
    BY <2>1, <2>2
<1> QED
  BY <1>1, <1>3

LEMMA RemovedAt ==
    ASSUME NEW T, NEW s \in Seq(T), NEW k \in 1 .. Len(s)
    PROVE  /\ RemoveAt(s, k) \in Seq(T) /\ Len(RemoveAt(s, k)) = Len(s) - 1
           /\ \A i \in 1 .. Len(s) - 1 : RemoveAt(s, k)[i] = IF i < k THEN s[i] ELSE s[i + 1]
<1> DEFINE a == SubSeq(s, 1, k - 1)
           b == SubSeq(s, k + 1, Len(s))
<1>1. Len(s) \in Nat /\ k \in 1 .. Len(s)
  OBVIOUS
<1>2. a \in Seq(T) /\ Len(a) = k - 1 /\ \A i \in 1 .. k - 1 : a[i] = s[i]
  BY <1>1
<1>3. b \in Seq(T) /\ Len(b) = Len(s) - k /\ \A i \in 1 .. Len(s) - k : b[i] = s[k + i]
  BY <1>1
<1>4. RemoveAt(s, k) = a \o b
  BY DEF RemoveAt
<1> HIDE DEF a, b
<1>5. a \o b \in Seq(T) /\ Len(a \o b) = Len(s) - 1
      /\ \A i \in 1 .. Len(s) - 1 : (a \o b)[i] = IF i <= k - 1 THEN a[i] ELSE b[i - (k - 1)]
  <2>1. a \o b \in Seq(T) /\ Len(a \o b) = Len(a) + Len(b)
        /\ \A i \in 1 .. Len(a) + Len(b) : (a \o b)[i] = IF i <= Len(a) THEN a[i] ELSE b[i - Len(a)]
    BY <1>2, <1>3, ConcatProperties
  <2>2. Len(a) + Len(b) = Len(s) - 1
    BY <1>1, <1>2, <1>3
  <2>3. a \o b \in Seq(T) /\ Len(a \o b) = Len(s) - 1
    BY <2>1, <2>2
  <2>4. \A i \in 1 .. Len(s) - 1 : (a \o b)[i] = IF i <= Len(a) THEN a[i] ELSE b[i - Len(a)]
    BY <2>1, <2>2
  <2> QED
    BY <1>2, <2>3, <2>4
<1>6. ASSUME NEW i \in 1 .. Len(s) - 1
      PROVE  (a \o b)[i] = IF i < k THEN s[i] ELSE s[i + 1]
  <2>1. CASE i < k
    BY <1>1, <1>2, <1>5, <2>1
  <2>2. CASE ~(i < k)
    <3>1. (a \o b)[i] = b[i - (k - 1)]
      BY <1>1, <1>5, <2>2
    <3>2. i - (k - 1) \in 1 .. Len(s) - k /\ k + (i - (k - 1)) = i + 1
      BY <1>1, <2>2
    <3> QED
      BY <1>3, <2>2, <3>1, <3>2
  <2> QED
    BY <2>1, <2>2
<1> QED
  BY <1>4, <1>5, <1>6

LEMMA RangeOfRemoved ==
    ASSUME NEW T, NEW s \in Seq(T), NEW k \in 1 .. Len(s), \A i, j \in 1 .. Len(s) : s[i] = s[j] => i = j
    PROVE  Range(RemoveAt(s, k)) = Range(s) \ {s[k]}
<1> DEFINE r == RemoveAt(s, k)
<1>1. /\ r \in Seq(T) /\ Len(r) = Len(s) - 1 /\ Len(s) \in Nat /\ DOMAIN s = 1 .. Len(s)
      /\ \A i \in 1 .. Len(s) - 1 : r[i] = IF i < k THEN s[i] ELSE s[i + 1]
  BY RemovedAt
<1> HIDE DEF r
<1>2. DOMAIN r = 1 .. Len(s) - 1
  BY <1>1
<1>3. ASSUME NEW x \in Range(r) PROVE x \in Range(s) \ {s[k]}
  <2>1. PICK i \in 1 .. Len(s) - 1 : x = r[i]
    BY <1>2 DEF Range
  <2>2. \E j \in 1 .. Len(s) : j # k /\ x = s[j]
    <3>1. CASE i < k
      BY <1>1, <2>1, <3>1
    <3>2. CASE ~(i < k)
      <4>1. i + 1 \in 1 .. Len(s) /\ i + 1 # k /\ x = s[i + 1]
        BY <1>1, <2>1, <3>2
      <4> QED
        BY <4>1
    <3> QED
      BY <3>1, <3>2
  <2> QED
    BY <1>1, <2>2 DEF Range
<1>4. ASSUME NEW x \in Range(s) \ {s[k]} PROVE x \in Range(r)
  <2>1. PICK j \in 1 .. Len(s) : x = s[j] /\ j # k
    BY <1>1 DEF Range
  <2>2. \E i \in 1 .. Len(s) - 1 : x = r[i]
    <3>1. CASE j < k
      <4>1. j \in 1 .. Len(s) - 1 /\ x = r[j]
        BY <1>1, <2>1, <3>1
      <4> QED
        BY <4>1
    <3>2. CASE ~(j < k)
      <4>1. j - 1 \in 1 .. Len(s) - 1 /\ ~(j - 1 < k) /\ (j - 1) + 1 = j
        BY <1>1, <2>1, <3>2
      <4>2. x = r[j - 1]
        BY <1>1, <2>1, <4>1
      <4> QED
        BY <4>1, <4>2
    <3> QED
      BY <3>1, <3>2
  <2> QED
    BY <1>2, <2>2 DEF Range
<1> QED
  BY <1>3, <1>4 DEF r

\* A new local that shadows nothing a local was made from.
LEMMA MakeKeepsMade ==
    ASSUME NEW ls, NEW ms, NEW made, Made(ls, ms, made), NEW o \in Names \ NamesOf(Range(ls)),
           Needs[o] \subseteq NamesOf(Range(ls)) \cup NamesOf(ms),
           o \in NamesOf(ms) => \A x \in NamesOf(Range(ls)) : o \notin Needs[x],
           NEW k \in Nat, <<o, k>> \notin Range(ls) \cup ms,
           NEW new, new = [p \in Range(ls) \cup ms \cup {<<o, k>>} |->
                              IF p = <<o, k>> THEN UNION {Binding(ls, ms, n) : n \in Needs[o]} ELSE made[p]]
    PROVE  Made(Append(ls, <<o, k>>), ms, new)
<1> DEFINE e == <<o, k>>
           l2 == Append(ls, e)
<1>1. /\ ls \in Seq(Objects) /\ ms \in SUBSET Objects /\ IsFiniteSet(ms) /\ e \in Objects /\ e[1] = o
      /\ Range(ls) \cap ms = {} /\ Len(ls) \in Nat /\ DOMAIN ls = 1 .. Len(ls)
  <2>1. e \in Objects
    BY DEF Objects
  <2> QED
    BY <2>1 DEF Made
<1>2. /\ l2 \in Seq(Objects) /\ Len(l2) = Len(ls) + 1 /\ DOMAIN l2 = 1 .. Len(ls) + 1
      /\ \A i \in 1 .. Len(ls) : l2[i] = ls[i]
      /\ l2[Len(ls) + 1] = e /\ Range(l2) = Range(ls) \cup {e}
  <2>1. /\ l2 \in Seq(Objects) /\ Len(l2) = Len(ls) + 1
        /\ \A i \in 1 .. Len(ls) : l2[i] = ls[i]
        /\ l2[Len(ls) + 1] = e /\ Range(l2) = Range(ls) \cup {e}
    BY <1>1, RangeOfAppend
  <2> QED
    BY <2>1
<1>3. \A i \in 1 .. Len(ls) + 1 : i \in 1 .. Len(ls) \/ i = Len(ls) + 1
  BY <1>1
<1>4. \A i \in 1 .. Len(ls) : ls[i] \in Range(ls) /\ ls[i][1] \in NamesOf(Range(ls)) /\ ls[i] # e
  BY <1>1 DEF Range, NamesOf
<1>5. NamesOf(Range(l2)) = NamesOf(Range(ls)) \cup {o}
  BY <1>1, <1>2 DEF NamesOf
<1> HIDE DEF e, l2
<1>6. \A n : n # o => Binding(l2, ms, n) = Binding(ls, ms, n)
  <2> TAKE n
  <2> HAVE n # o
  <2>1. Named(Range(l2), n) = Named(Range(ls), n)
    BY <1>1, <1>2 DEF Named
  <2> QED
    BY <1>5, <2>1 DEF Binding
<1>7. \A x \in NamesOf(Range(ls)) \cup {o} : o \notin Needs[x]
  <2>1. o \notin Needs[o]
    BY NothingNeedsItself
  <2>2. ASSUME NEW x \in NamesOf(Range(ls)) PROVE o \notin Needs[x]
    <3>1. PICK i \in 1 .. Len(ls) : x = ls[i][1]
      BY <1>1 DEF NamesOf, Range
    <3>2. Needs[x] \subseteq NamesOf(Range(ls)) \cup NamesOf(ms)
      BY <1>1, <3>1 DEF Made
    <3> QED
      BY <3>2
  <2> QED
    BY <2>1, <2>2
<1>8. \A x \in NamesOf(Range(ls)) \cup {o} :
          UNION {Binding(l2, ms, n) : n \in Needs[x]} = UNION {Binding(ls, ms, n) : n \in Needs[x]}
  <2> TAKE x \in NamesOf(Range(ls)) \cup {o}
  <2>1. \A n \in Needs[x] : Binding(l2, ms, n) = Binding(ls, ms, n)
    BY <1>6, <1>7
  <2> QED
    BY <2>1
<1>9. /\ new = [p \in Range(l2) \cup ms |-> new[p]] /\ e \notin Range(ls) \cup ms
      /\ new[e] = UNION {Binding(ls, ms, n) : n \in Needs[o]}
      /\ \A p \in Range(ls) \cup ms : new[p] = made[p]
  BY <1>2 DEF e
<1>10. Range(l2) \cap ms = {}
  BY <1>1, <1>2, <1>9
<1>11. \A i, j \in DOMAIN l2 : l2[i][1] = l2[j][1] => i = j
  <2>1. \A i, j \in 1 .. Len(ls) : ls[i][1] = ls[j][1] => i = j
    BY <1>1 DEF Made
  <2> QED
    BY <1>1, <1>2, <1>3, <1>4, <2>1
<1>12. \A p, q \in ms : p[1] = q[1] => p = q
  BY DEF Made
<1>13. \A p \in ms : /\ Needs[p[1]] \subseteq NamesOf(ms)
                     /\ new[p] = UNION {Named(ms, n) : n \in Needs[p[1]]}
  BY <1>9 DEF Made
<1>14. ASSUME NEW i \in DOMAIN l2
       PROVE  /\ Needs[l2[i][1]] \subseteq NamesOf(Range(l2)) \cup NamesOf(ms)
              /\ new[l2[i]] = UNION {Binding(l2, ms, n) : n \in Needs[l2[i][1]]}
              /\ \A j \in DOMAIN l2 : l2[j][1] \in Needs[l2[i][1]] => j < i
  <2>1. CASE i \in 1 .. Len(ls)
    <3>1. /\ Needs[ls[i][1]] \subseteq NamesOf(Range(ls)) \cup NamesOf(ms)
          /\ made[ls[i]] = UNION {Binding(ls, ms, n) : n \in Needs[ls[i][1]]}
          /\ \A j \in 1 .. Len(ls) : ls[j][1] \in Needs[ls[i][1]] => j < i
      BY <1>1, <2>1 DEF Made
    <3>2. l2[i] = ls[i] /\ ls[i][1] \in NamesOf(Range(ls)) /\ ls[i] \in Range(ls)
      BY <1>2, <1>4, <2>1
    <3>3. \A j \in DOMAIN l2 : l2[j][1] \in Needs[l2[i][1]] => j < i
      <4> TAKE j \in DOMAIN l2
      <4> HAVE l2[j][1] \in Needs[l2[i][1]]
      <4>1. j # Len(ls) + 1
        BY <1>1, <1>2, <1>7, <3>2
      <4> QED
        BY <1>2, <1>3, <3>1, <3>2, <4>1
    <3>4. Needs[l2[i][1]] \subseteq NamesOf(Range(l2)) \cup NamesOf(ms)
      BY <1>5, <3>1, <3>2
    <3>5. new[l2[i]] = UNION {Binding(l2, ms, n) : n \in Needs[l2[i][1]]}
      BY <1>8, <1>9, <3>1, <3>2
    <3> QED
      BY <3>3, <3>4, <3>5
  <2>2. CASE i = Len(ls) + 1
    <3>1. l2[i] = e /\ e[1] = o
      BY <1>1, <1>2, <2>2
    <3>2. \A j \in DOMAIN l2 : l2[j][1] \in Needs[o] => j < i
      <4> TAKE j \in DOMAIN l2
      <4> HAVE l2[j][1] \in Needs[o]
      <4>1. j # Len(ls) + 1
        BY <1>1, <1>2, <1>7
      <4> QED
        BY <1>1, <1>2, <1>3, <2>2, <4>1
    <3>3. new[e] = UNION {Binding(l2, ms, n) : n \in Needs[o]}
      BY <1>8, <1>9
    <3> QED
      BY <1>5, <3>1, <3>2, <3>3
  <2> QED
    BY <1>2, <1>3, <2>1, <2>2
<1>15. Made(l2, ms, new)
  BY <1>1, <1>2, <1>9, <1>10, <1>11, <1>12, <1>13, <1>14 DEF Made
<1> QED
  BY <1>15 DEF l2, e

\* The locals without the k-th: the others in their order.
LEMMA WithoutLocal ==
    ASSUME NEW ls, NEW ms, NEW made, Made(ls, ms, made), NEW k \in DOMAIN ls
    PROVE  LET l2 == RemoveAt(ls, k) IN
           /\ l2 \in Seq(Objects) /\ Range(l2) = Range(ls) \ {ls[k]}
           /\ NamesOf(Range(l2)) = NamesOf(Range(ls)) \ {ls[k][1]}
           /\ \A i, j \in DOMAIN l2 : l2[i][1] = l2[j][1] => i = j
           /\ \A i \in DOMAIN l2 : \E p \in DOMAIN ls :
                 /\ p # k /\ l2[i] = ls[p]
                 /\ \A j \in DOMAIN l2 : \E q \in DOMAIN ls : q # k /\ l2[j] = ls[q] /\ (q < p => j < i)
<1> DEFINE l2 == RemoveAt(ls, k)
           Old(i) == IF i < k THEN i ELSE i + 1
<1>1. ls \in Seq(Objects) /\ Len(ls) \in Nat /\ DOMAIN ls = 1 .. Len(ls) /\ k \in 1 .. Len(ls)
      /\ \A i, j \in 1 .. Len(ls) : ls[i][1] = ls[j][1] => i = j
  <2>1. ls \in Seq(Objects)
    BY DEF Made
  <2>2. DOMAIN ls = 1 .. Len(ls) /\ Len(ls) \in Nat
    BY <2>1
  <2> QED
    BY <2>1, <2>2 DEF Made
<1>2. /\ l2 \in Seq(Objects) /\ Len(l2) = Len(ls) - 1
      /\ \A i \in 1 .. Len(ls) - 1 : l2[i] = IF i < k THEN ls[i] ELSE ls[i + 1]
  BY <1>1, RemovedAt
<1>3. Range(l2) = Range(ls) \ {ls[k]}
  <2>1. \A i, j \in 1 .. Len(ls) : ls[i] = ls[j] => i = j
    BY <1>1
  <2> QED
    BY <1>1, <2>1, RangeOfRemoved
<1> HIDE DEF l2
<1>4. DOMAIN l2 = 1 .. Len(ls) - 1
  BY <1>2
<1>5. \A i \in DOMAIN l2 : Old(i) \in DOMAIN ls /\ Old(i) # k /\ l2[i] = ls[Old(i)]
  BY <1>1, <1>2, <1>4
<1>6. \A i, j \in DOMAIN l2 : /\ Old(i) = Old(j) => i = j
                              /\ Old(j) < Old(i) => j < i
  BY <1>1, <1>4
<1>7. NamesOf(Range(l2)) = NamesOf(Range(ls)) \ {ls[k][1]}
  <2>1. \A x \in Range(ls) : x[1] = ls[k][1] => x = ls[k]
    BY <1>1 DEF Range
  <2>2. ls[k] \in Range(ls)
    BY <1>1 DEF Range
  <2> QED
    BY <1>3, <2>1, <2>2 DEF NamesOf
<1> HIDE DEF Old
<1>8. \A i, j \in DOMAIN l2 : l2[i][1] = l2[j][1] => i = j
  BY <1>1, <1>5, <1>6
<1>9. \A i \in DOMAIN l2 : \E p \in DOMAIN ls :
          /\ p # k /\ l2[i] = ls[p]
          /\ \A j \in DOMAIN l2 : \E q \in DOMAIN ls : q # k /\ l2[j] = ls[q] /\ (q < p => j < i)
  <2> TAKE i \in DOMAIN l2
  <2>1. Old(i) \in DOMAIN ls /\ Old(i) # k /\ l2[i] = ls[Old(i)]
    BY <1>5
  <2>2. \A j \in DOMAIN l2 : \E q \in DOMAIN ls : q # k /\ l2[j] = ls[q] /\ (q < Old(i) => j < i)
    BY <1>5, <1>6
  <2> QED
    BY <2>1, <2>2
<1> QED
  BY <1>2, <1>3, <1>7, <1>8, <1>9 DEF l2

LEMMA DropKeepsMade ==
    ASSUME NEW ls, NEW ms, NEW made, Made(ls, ms, made), NEW k \in DOMAIN ls,
           \A i \in DOMAIN ls : ls[k][1] \notin Needs[ls[i][1]],
           NEW new, new = [p \in (Range(ls) \cup ms) \ {ls[k]} |-> made[p]]
    PROVE  Made(RemoveAt(ls, k), ms, new)
<1> DEFINE l2 == RemoveAt(ls, k)
           o == ls[k][1]
<1>1. /\ l2 \in Seq(Objects) /\ Range(l2) = Range(ls) \ {ls[k]}
      /\ NamesOf(Range(l2)) = NamesOf(Range(ls)) \ {o}
      /\ \A i, j \in DOMAIN l2 : l2[i][1] = l2[j][1] => i = j
      /\ \A i \in DOMAIN l2 : \E p \in DOMAIN ls :
            /\ p # k /\ l2[i] = ls[p]
            /\ \A j \in DOMAIN l2 : \E q \in DOMAIN ls : q # k /\ l2[j] = ls[q] /\ (q < p => j < i)
  BY WithoutLocal
<1>2. /\ ms \in SUBSET Objects /\ IsFiniteSet(ms) /\ Range(ls) \cap ms = {}
      /\ \A p, q \in ms : p[1] = q[1] => p = q
      /\ \A i, j \in DOMAIN ls : ls[i][1] = ls[j][1] => i = j
  BY DEF Made
<1>3. \A i \in DOMAIN ls : ls[i] \in Range(ls)
  BY DEF Range
<1> HIDE DEF l2, o
<1>4. /\ new = [p \in Range(l2) \cup ms |-> new[p]] /\ Range(l2) \cap ms = {}
      /\ \A p \in Range(l2) \cup ms : new[p] = made[p]
  BY <1>1, <1>2, <1>3
<1>5. \A n : n # o => Binding(l2, ms, n) = Binding(ls, ms, n)
  <2> TAKE n
  <2> HAVE n # o
  <2>1. Named(Range(l2), n) = Named(Range(ls), n)
    BY <1>1 DEF Named, o
  <2> QED
    BY <1>1, <2>1 DEF Binding
<1>6. ASSUME NEW i \in DOMAIN l2
      PROVE  /\ Needs[l2[i][1]] \subseteq NamesOf(Range(l2)) \cup NamesOf(ms)
             /\ new[l2[i]] = UNION {Binding(l2, ms, n) : n \in Needs[l2[i][1]]}
             /\ \A j \in DOMAIN l2 : l2[j][1] \in Needs[l2[i][1]] => j < i
  <2>1. PICK p \in DOMAIN ls : /\ p # k /\ l2[i] = ls[p]
                               /\ \A j \in DOMAIN l2 : \E q \in DOMAIN ls :
                                     q # k /\ l2[j] = ls[q] /\ (q < p => j < i)
    BY <1>1
  <2>2. /\ Needs[ls[p][1]] \subseteq NamesOf(Range(ls)) \cup NamesOf(ms)
        /\ made[ls[p]] = UNION {Binding(ls, ms, n) : n \in Needs[ls[p][1]]}
        /\ \A q \in DOMAIN ls : ls[q][1] \in Needs[ls[p][1]] => q < p
    BY DEF Made
  <2>3. o \notin Needs[ls[p][1]]
    BY DEF o
  <2>4. \A n \in Needs[ls[p][1]] : Binding(l2, ms, n) = Binding(ls, ms, n)
    BY <1>5, <2>3
  <2>5. UNION {Binding(l2, ms, n) : n \in Needs[ls[p][1]]} = UNION {Binding(ls, ms, n) : n \in Needs[ls[p][1]]}
    BY <2>4
  <2>6. new[ls[p]] = made[ls[p]]
    <3>1. ls[p] \in Range(l2)
      BY <1>1, <1>2, <1>3, <2>1
    <3> QED
      BY <1>4, <3>1
  <2>7. \A j \in DOMAIN l2 : l2[j][1] \in Needs[l2[i][1]] => j < i
    BY <2>1, <2>2
  <2> QED
    BY <1>1, <2>1, <2>2, <2>3, <2>5, <2>6, <2>7
<1>7. \A p \in ms : /\ Needs[p[1]] \subseteq NamesOf(ms)
                    /\ new[p] = UNION {Named(ms, n) : n \in Needs[p[1]]}
  BY <1>4 DEF Made
<1>8. Made(l2, ms, new)
  BY <1>1, <1>2, <1>4, <1>6, <1>7 DEF Made
<1> QED
  BY <1>8 DEF l2

\* A member nothing was made from.
LEMMA ReleaseKeepsMade ==
    \A ls, ms, made : Made(ls, ms, made) =>
        \A o : (o \in NamesOf(ms) => \A x \in NamesOf(Range(ls)) \cup NamesOf(ms) : o \notin Needs[x])
               => /\ Made(ls, ms \ Named(ms, o), [p \in (Range(ls) \cup ms) \ Named(ms, o) |-> made[p]])
                  /\ NamesOf(ms \ Named(ms, o)) = NamesOf(ms) \ {o}
<1> TAKE ls, ms, made
<1> HAVE Made(ls, ms, made)
<1> TAKE o
<1> HAVE o \in NamesOf(ms) => \A x \in NamesOf(Range(ls)) \cup NamesOf(ms) : o \notin Needs[x]
<1> DEFINE new == [p \in (Range(ls) \cup ms) \ Named(ms, o) |-> made[p]]
<1> DEFINE m2 == ms \ Named(ms, o)
<1>1. /\ ls \in Seq(Objects) /\ ms \in SUBSET Objects /\ IsFiniteSet(ms) /\ Range(ls) \cap ms = {}
      /\ \A p, q \in ms : p[1] = q[1] => p = q
      /\ \A i, j \in DOMAIN ls : ls[i][1] = ls[j][1] => i = j
  BY DEF Made
<1>2. m2 \in SUBSET Objects /\ IsFiniteSet(m2) /\ m2 \subseteq ms
  <2>1. m2 \in SUBSET ms
    OBVIOUS
  <2> QED
    BY <1>1, <2>1, FS_Subset
<1>3. NamesOf(m2) = NamesOf(ms) \ {o} /\ \A n : n # o => Named(m2, n) = Named(ms, n)
  BY DEF NamesOf, Named
<1>4. o \notin NamesOf(ms) => m2 = ms
  BY DEF NamesOf, Named
<1>5. /\ new = [p \in Range(ls) \cup m2 |-> new[p]] /\ Range(ls) \cap m2 = {}
      /\ \A p \in Range(ls) \cup m2 : new[p] = made[p]
  BY <1>1 DEF Named
<1>6. \A i \in DOMAIN ls : ls[i] \in Range(ls) /\ ls[i][1] \in NamesOf(Range(ls))
  BY DEF Range, NamesOf
<1>7. \A p \in m2 : p \in ms /\ p[1] \in NamesOf(ms)
  BY DEF NamesOf
<1> HIDE DEF m2
<1>8. \A n : n # o => Binding(ls, m2, n) = Binding(ls, ms, n)
  BY <1>3 DEF Binding
<1>9. ASSUME NEW p \in m2
      PROVE  /\ Needs[p[1]] \subseteq NamesOf(m2)
             /\ new[p] = UNION {Named(m2, n) : n \in Needs[p[1]]}
  <2>1. Needs[p[1]] \subseteq NamesOf(ms) /\ made[p] = UNION {Named(ms, n) : n \in Needs[p[1]]}
    BY <1>7 DEF Made
  <2>2. o \in NamesOf(ms) => o \notin Needs[p[1]]
    BY <1>7
  <2>3. \A n \in Needs[p[1]] : Named(m2, n) = Named(ms, n)
    BY <1>3, <1>4, <2>2
  <2>4. UNION {Named(m2, n) : n \in Needs[p[1]]} = UNION {Named(ms, n) : n \in Needs[p[1]]}
    BY <2>3
  <2> QED
    BY <1>3, <1>4, <1>5, <2>1, <2>2, <2>4
<1>10. ASSUME NEW i \in DOMAIN ls
       PROVE  /\ Needs[ls[i][1]] \subseteq NamesOf(Range(ls)) \cup NamesOf(m2)
              /\ new[ls[i]] = UNION {Binding(ls, m2, n) : n \in Needs[ls[i][1]]}
              /\ \A j \in DOMAIN ls : ls[j][1] \in Needs[ls[i][1]] => j < i
  <2>1. /\ Needs[ls[i][1]] \subseteq NamesOf(Range(ls)) \cup NamesOf(ms)
        /\ made[ls[i]] = UNION {Binding(ls, ms, n) : n \in Needs[ls[i][1]]}
        /\ \A j \in DOMAIN ls : ls[j][1] \in Needs[ls[i][1]] => j < i
    BY DEF Made
  <2>2. o \in NamesOf(ms) => o \notin Needs[ls[i][1]]
    BY <1>6
  <2>3. \A n \in Needs[ls[i][1]] : Binding(ls, m2, n) = Binding(ls, ms, n)
    BY <1>4, <1>8, <2>2
  <2>4. UNION {Binding(ls, m2, n) : n \in Needs[ls[i][1]]} = UNION {Binding(ls, ms, n) : n \in Needs[ls[i][1]]}
    BY <2>3
  <2>5. Needs[ls[i][1]] \subseteq NamesOf(Range(ls)) \cup NamesOf(m2)
    BY <1>3, <1>4, <2>1, <2>2
  <2>6. new[ls[i]] = made[ls[i]]
    BY <1>5, <1>6
  <2> QED
    BY <2>1, <2>4, <2>5, <2>6
<1>11. \A p, q \in m2 : p[1] = q[1] => p = q
  BY <1>1, <1>7
<1>12. Made(ls, m2, new)
  BY <1>1, <1>2, <1>5, <1>9, <1>10, <1>11 DEF Made
<1> QED
  BY <1>3, <1>12 DEF m2

LEMMA FiniteRange ==
    ASSUME NEW T, NEW s \in Seq(T)
    PROVE  IsFiniteSet(Range(s))
<1>1. DOMAIN s = 1 .. Len(s) /\ Len(s) \in Nat
  OBVIOUS
<1>2. IsFiniteSet(DOMAIN s)
  BY <1>1, FS_Interval
<1>3. s \in Surjection(DOMAIN s, Range(s))
  <2>1. s \in [DOMAIN s -> Range(s)]
    BY DEF Range
  <2> QED
    BY <2>1 DEF Surjection, Range
<1> QED
  BY <1>2, <1>3, FS_Surjection

\* A local that takes its member's place; what was made from it is now made
\* from a member.
LEMMA ReplaceKeepsMade ==
    ASSUME NEW ls, NEW ms, NEW made, Made(ls, ms, made), NEW k \in DOMAIN ls,
           Needs[ls[k][1]] \cap NamesOf(Range(ls)) = {},
           \A x \in NamesOf(ms) : ls[k][1] \notin Needs[x],
           NEW new, new = [p \in (Range(ls) \cup ms) \ Named(ms, ls[k][1]) |-> made[p]]
    PROVE  /\ Made(RemoveAt(ls, k), (ms \ Named(ms, ls[k][1])) \cup {ls[k]}, new)
           /\ NamesOf((ms \ Named(ms, ls[k][1])) \cup {ls[k]}) = NamesOf(ms) \cup {ls[k][1]}
<1> DEFINE l2 == RemoveAt(ls, k)
           e == ls[k]
           m2 == (ms \ Named(ms, e[1])) \cup {e}
<1>1. /\ l2 \in Seq(Objects) /\ Range(l2) = Range(ls) \ {e}
      /\ NamesOf(Range(l2)) = NamesOf(Range(ls)) \ {e[1]}
      /\ \A i, j \in DOMAIN l2 : l2[i][1] = l2[j][1] => i = j
      /\ \A i \in DOMAIN l2 : \E p \in DOMAIN ls :
            /\ p # k /\ l2[i] = ls[p]
            /\ \A j \in DOMAIN l2 : \E q \in DOMAIN ls : q # k /\ l2[j] = ls[q] /\ (q < p => j < i)
  BY WithoutLocal
<1>2. /\ ls \in Seq(Objects) /\ ms \in SUBSET Objects /\ IsFiniteSet(ms) /\ Range(ls) \cap ms = {}
      /\ \A p, q \in ms : p[1] = q[1] => p = q
      /\ \A i, j \in DOMAIN ls : ls[i][1] = ls[j][1] => i = j
  BY DEF Made
<1>3. /\ e \in Range(ls) /\ e \in Objects /\ e \notin ms
      /\ \A p \in Range(ls) : p[1] = e[1] => p = e
  BY <1>2 DEF Range
<1>4. e[1] \in NamesOf(Range(ls)) /\ Named(Range(ls), e[1]) = {e} /\ Named(m2, e[1]) = {e}
  BY <1>3 DEF Named, NamesOf
<1>5. /\ NamesOf(m2) = NamesOf(ms) \cup {e[1]}
      /\ \A n : n # e[1] => Named(m2, n) = Named(ms, n) /\ Named(Range(l2), n) = Named(Range(ls), n)
  BY <1>1 DEF NamesOf, Named
<1>6. m2 \in SUBSET Objects /\ IsFiniteSet(m2)
  <2>1. ms \ Named(ms, e[1]) \in SUBSET ms
    OBVIOUS
  <2>2. IsFiniteSet(ms \ Named(ms, e[1]))
    BY <1>2, <2>1, FS_Subset
  <2>3. IsFiniteSet(m2)
    BY <2>2, FS_AddElement
  <2> QED
    BY <1>2, <1>3, <2>3
<1>7. /\ \A p \in m2 : p # e => p \in ms /\ p[1] \in NamesOf(ms) /\ p[1] # e[1]
      /\ Range(l2) \cap m2 = {}
      /\ Range(l2) \cup m2 = (Range(ls) \cup ms) \ Named(ms, e[1])
  BY <1>1, <1>2, <1>3 DEF NamesOf, Named
<1>8. /\ new = [p \in Range(l2) \cup m2 |-> new[p]]
      /\ \A p \in Range(l2) \cup m2 : new[p] = made[p]
  BY <1>7
<1>9. \A i \in DOMAIN ls : ls[i] \in Range(ls) /\ ls[i][1] \in NamesOf(Range(ls))
  BY DEF Range, NamesOf
<1>10. e \in m2
  OBVIOUS
<1>11. e[1] \notin Needs[e[1]]
  BY <1>3, NothingNeedsItself DEF Objects
<1>12. /\ Needs[e[1]] \subseteq NamesOf(ms)
       /\ made[e] = UNION {Binding(ls, ms, n) : n \in Needs[e[1]]}
       /\ \A n \in Needs[e[1]] : n \notin NamesOf(Range(ls))
  BY DEF Made
<1>13. Needs[e[1]] \cap NamesOf(Range(ls)) = {} /\ \A x \in NamesOf(ms) : e[1] \notin Needs[x]
  OBVIOUS
<1> HIDE DEF l2, e, m2
<1>14. \A n : Binding(l2, m2, n) = Binding(ls, ms, n)
  BY <1>1, <1>4, <1>5 DEF Binding
<1>15. ASSUME NEW p \in m2
       PROVE  /\ Needs[p[1]] \subseteq NamesOf(m2)
              /\ new[p] = UNION {Named(m2, n) : n \in Needs[p[1]]}
  <2>1. CASE p = e
    <3>1. \A n \in Needs[e[1]] : Named(m2, n) = Binding(ls, ms, n)
      BY <1>5, <1>11, <1>12 DEF Binding
    <3>2. UNION {Named(m2, n) : n \in Needs[e[1]]} = UNION {Binding(ls, ms, n) : n \in Needs[e[1]]}
      BY <3>1
    <3> QED
      BY <1>5, <1>8, <1>12, <2>1, <3>2
  <2>2. CASE p # e
    <3>1. p \in ms /\ p[1] \in NamesOf(ms) /\ e[1] \notin Needs[p[1]]
      BY <1>7, <1>13, <2>2
    <3>2. Needs[p[1]] \subseteq NamesOf(ms) /\ made[p] = UNION {Named(ms, n) : n \in Needs[p[1]]}
      BY <3>1 DEF Made
    <3>3. \A n \in Needs[p[1]] : Named(m2, n) = Named(ms, n)
      BY <1>5, <3>1
    <3>4. UNION {Named(m2, n) : n \in Needs[p[1]]} = UNION {Named(ms, n) : n \in Needs[p[1]]}
      BY <3>3
    <3> QED
      BY <1>5, <1>8, <3>2, <3>4
  <2> QED
    BY <2>1, <2>2
<1>16. ASSUME NEW i \in DOMAIN l2
       PROVE  /\ Needs[l2[i][1]] \subseteq NamesOf(Range(l2)) \cup NamesOf(m2)
              /\ new[l2[i]] = UNION {Binding(l2, m2, n) : n \in Needs[l2[i][1]]}
              /\ \A j \in DOMAIN l2 : l2[j][1] \in Needs[l2[i][1]] => j < i
  <2>1. PICK p \in DOMAIN ls : /\ p # k /\ l2[i] = ls[p]
                               /\ \A j \in DOMAIN l2 : \E q \in DOMAIN ls :
                                     q # k /\ l2[j] = ls[q] /\ (q < p => j < i)
    BY <1>1
  <2>2. /\ Needs[ls[p][1]] \subseteq NamesOf(Range(ls)) \cup NamesOf(ms)
        /\ made[ls[p]] = UNION {Binding(ls, ms, n) : n \in Needs[ls[p][1]]}
        /\ \A q \in DOMAIN ls : ls[q][1] \in Needs[ls[p][1]] => q < p
    BY DEF Made
  <2>3. UNION {Binding(l2, m2, n) : n \in Needs[ls[p][1]]} = UNION {Binding(ls, ms, n) : n \in Needs[ls[p][1]]}
    BY <1>14
  <2>4. new[ls[p]] = made[ls[p]]
    <3>1. ls[p] \in Range(l2)
      BY <1>1, <1>2, <1>9, <2>1 DEF e
    <3> QED
      BY <1>8, <3>1
  <2>5. \A j \in DOMAIN l2 : l2[j][1] \in Needs[l2[i][1]] => j < i
    BY <2>1, <2>2
  <2>6. Needs[ls[p][1]] \subseteq NamesOf(Range(l2)) \cup NamesOf(m2)
    BY <1>1, <1>5, <2>2
  <2> QED
    BY <2>1, <2>2, <2>3, <2>4, <2>5, <2>6
<1>17. \A p, q \in m2 : p[1] = q[1] => p = q
  BY <1>2, <1>7
<1>18. Made(l2, m2, new)
  BY <1>1, <1>6, <1>7, <1>8, <1>15, <1>16, <1>17 DEF Made
<1> QED
  BY <1>5, <1>18 DEF l2, m2, e

\* Locals that become members.
LEMMA AdoptKeepsMade ==
    ASSUME NEW ls, NEW ms, NEW made, Made(ls, ms, made), NamesOf(Range(ls)) \cap NamesOf(ms) = {}
    PROVE  /\ Made(<<>>, ms \cup Range(ls), made)
           /\ NamesOf(ms \cup Range(ls)) = NamesOf(ms) \cup NamesOf(Range(ls))
<1> DEFINE m2 == ms \cup Range(ls)
<1>1. /\ ls \in Seq(Objects) /\ ms \in SUBSET Objects /\ IsFiniteSet(ms) /\ Range(ls) \cap ms = {}
      /\ made = [o \in Range(ls) \cup ms |-> made[o]]
      /\ \A p, q \in ms : p[1] = q[1] => p = q
      /\ \A i, j \in DOMAIN ls : ls[i][1] = ls[j][1] => i = j
  BY DEF Made
<1>2. Range(ls) \in SUBSET Objects
  BY <1>1 DEF Range
<1>3. IsFiniteSet(m2)
  <2>4. IsFiniteSet(Range(ls))
    BY <1>1, FiniteRange
  <2> QED
    BY <1>1, <2>4, FS_Union
<1>4. NamesOf(m2) = NamesOf(ms) \cup NamesOf(Range(ls))
  BY DEF NamesOf
<1>5. \A n : Named(m2, n) = Binding(ls, ms, n)
  BY DEF Named, Binding, NamesOf
<1>6. \A n \in NamesOf(ms) : Named(m2, n) = Named(ms, n)
  BY DEF Named, NamesOf
<1>7. \A p, q \in m2 : p[1] = q[1] => p = q
  BY <1>1 DEF NamesOf, Range
<1>8. \A p \in m2 : p \in ms \/ \E i \in DOMAIN ls : p = ls[i]
  BY DEF Range
<1>9. /\ \A p \in ms : /\ Needs[p[1]] \subseteq NamesOf(ms)
                       /\ made[p] = UNION {Named(ms, n) : n \in Needs[p[1]]}
      /\ \A i \in DOMAIN ls : /\ Needs[ls[i][1]] \subseteq NamesOf(Range(ls)) \cup NamesOf(ms)
                              /\ made[ls[i]] = UNION {Binding(ls, ms, n) : n \in Needs[ls[i][1]]}
  BY DEF Made
<1>10. Range(<<>>) = {} /\ <<>> \in Seq(Objects) /\ DOMAIN <<>> = {} /\ Range(<<>>) \cup m2 = Range(ls) \cup ms
  BY DEF Range
<1> HIDE DEF m2
<1>11. ASSUME NEW p \in m2
       PROVE  /\ Needs[p[1]] \subseteq NamesOf(m2)
              /\ made[p] = UNION {Named(m2, n) : n \in Needs[p[1]]}
  <2>1. CASE p \in ms
    <3>1. Needs[p[1]] \subseteq NamesOf(ms) /\ made[p] = UNION {Named(ms, n) : n \in Needs[p[1]]}
      BY <1>9, <2>1
    <3>2. \A n \in Needs[p[1]] : Named(m2, n) = Named(ms, n)
      BY <1>6, <3>1
    <3>3. UNION {Named(m2, n) : n \in Needs[p[1]]} = UNION {Named(ms, n) : n \in Needs[p[1]]}
      BY <3>2
    <3> QED
      BY <1>4, <3>1, <3>3
  <2>2. CASE \E i \in DOMAIN ls : p = ls[i]
    BY <1>4, <1>5, <1>9, <2>2
  <2> QED
    BY <1>8, <2>1, <2>2
<1>12. Made(<<>>, m2, made)
  <2>1. made = [o \in Range(<<>>) \cup m2 |-> made[o]] /\ Range(<<>>) \cap m2 = {}
    BY <1>1, <1>10
  <2>2. m2 \in SUBSET Objects
    BY <1>1, <1>2 DEF m2
  <2> QED
    BY <1>3, <1>7, <1>10, <1>11, <2>1, <2>2 DEF Made
<1> QED
  BY <1>4, <1>12 DEF m2

-----------------------------------------------------------------------------
(* The objects of the model.                                               *)

LocalNames == NamesOf(Range(locals))

\* A name stands for one object.
LEMMA OneOfAName ==
    ASSUME NEW ls, NEW ms, NEW made, Made(ls, ms, made), NEW n
    PROVE  /\ n \in NamesOf(Range(ls)) => \E o \in Range(ls) : o[1] = n /\ Named(Range(ls), n) = {o}
           /\ n \in NamesOf(ms) => \E o \in ms : o[1] = n /\ Named(ms, n) = {o}
<1>1. \A o, p \in Range(ls) : o[1] = p[1] => o = p
  <2>1. \A i, j \in DOMAIN ls : ls[i][1] = ls[j][1] => i = j
    BY DEF Made
  <2> QED
    BY <2>1 DEF Range
<1>2. \A o, p \in ms : o[1] = p[1] => o = p
  BY DEF Made
<1> QED
  BY <1>1, <1>2 DEF NamesOf, Named

\* The last local of a name is the only one.
LEMMA LocalIs ==
    ASSUME Made(locals, members, needs), NEW n
    PROVE  /\ Local(n) = Named(Range(locals), n)
           /\ n \notin LocalNames => LocalAt(n) = 0
           /\ n \in LocalNames => /\ LocalAt(n) \in DOMAIN locals /\ locals[LocalAt(n)][1] = n
                                  /\ LocalAt(n) # 0 /\ Local(n) = {locals[LocalAt(n)]}
<1> DEFINE I == {i \in 1 .. Len(locals) : locals[i][1] = n}
<1>1. /\ locals \in Seq(Objects) /\ DOMAIN locals = 1 .. Len(locals) /\ Len(locals) \in Nat
      /\ \A i, j \in DOMAIN locals : locals[i][1] = locals[j][1] => i = j
  BY DEF Made
<1>2. LocalAt(n) = IF I # {} THEN Max(I) ELSE 0
  BY DEF LocalAt, SelectLastInSeq
<1>3. I # {} <=> n \in LocalNames
  BY <1>1 DEF LocalNames, NamesOf, Range
<1>4. ASSUME I # {} PROVE Max(I) \in I
  <2>1. PICK i \in I : I = {i}
    BY <1>1, <1>4
  <2>2. i \in Nat
    OBVIOUS
  <2>3. \E x \in I : \A y \in I : x >= y
    BY <2>1, <2>2
  <2> QED
    BY <2>3 DEF Max
<1>5. CASE n \notin LocalNames
  <2>1. LocalAt(n) = 0 /\ Local(n) = {}
    BY <1>2, <1>3, <1>5 DEF Local
  <2>2. Named(Range(locals), n) = {}
    BY <1>5 DEF LocalNames, NamesOf, Named
  <2> QED
    BY <1>5, <2>1, <2>2
<1>6. CASE n \in LocalNames
  <2>1. LocalAt(n) \in I
    BY <1>2, <1>3, <1>4, <1>6
  <2>2. LocalAt(n) \in DOMAIN locals /\ locals[LocalAt(n)][1] = n /\ LocalAt(n) # 0
    BY <1>1, <2>1
  <2>3. Local(n) = {locals[LocalAt(n)]}
    BY <2>2 DEF Local
  <2>4. PICK o \in Range(locals) : o[1] = n /\ Named(Range(locals), n) = {o}
    BY <1>6, OneOfAName DEF LocalNames
  <2>5. locals[LocalAt(n)] \in Named(Range(locals), n)
    BY <2>2 DEF Named, Range
  <2> QED
    BY <1>6, <2>2, <2>3, <2>4, <2>5
<1> QED
  BY <1>5, <1>6

LEMMA BoundIs ==
    ASSUME Made(locals, members, needs)
    PROVE  /\ \A n : Member(n) = Named(members, n) /\ Bound(n) = Binding(locals, members, n)
           /\ \A S : Bounds(S) = UNION {Binding(locals, members, n) : n \in S}
           /\ Has = NamesOf(members)
<1>1. \A n : Member(n) = Named(members, n)
  BY DEF Member, Named
<1>2. \A n : Local(n) = Named(Range(locals), n)
  BY LocalIs
<1>3. \A n : Named(Range(locals), n) # {} <=> n \in NamesOf(Range(locals))
  BY DEF Named, NamesOf
<1>4. \A n : Bound(n) = Binding(locals, members, n)
  BY <1>1, <1>2, <1>3 DEF Bound, Binding
<1>5. \A S : Bounds(S) = UNION {Binding(locals, members, n) : n \in S}
  BY <1>4 DEF Bounds
<1> QED
  BY <1>1, <1>4, <1>5 DEF Has, NamesOf

\* What an object was made from is there, an object for each name.
LEMMA MadeFromOneOfEach ==
    ASSUME NEW ls, NEW ms, NEW made, Made(ls, ms, made), NEW o \in Range(ls) \cup ms
    PROVE  /\ made[o] \subseteq Range(ls) \cup ms
           /\ Cardinality(made[o]) = Cardinality(Needs[o[1]])
<1> DEFINE f == [p \in made[o] |-> p[1]]
<1>1. \E g : /\ made[o] = UNION {g[n] : n \in Needs[o[1]]}
             /\ \A n \in Needs[o[1]] : \E p \in Range(ls) \cup ms : p[1] = n /\ g[n] = {p}
  <2>1. CASE o \in ms
    <3>1. Needs[o[1]] \subseteq NamesOf(ms) /\ made[o] = UNION {Named(ms, n) : n \in Needs[o[1]]}
      BY <2>1 DEF Made
    <3>2. \A n \in Needs[o[1]] : \E p \in Range(ls) \cup ms : p[1] = n /\ Named(ms, n) = {p}
      BY <3>1, OneOfAName
    <3> DEFINE g == [n \in Needs[o[1]] |-> Named(ms, n)]
    <3>3. made[o] = UNION {g[n] : n \in Needs[o[1]]}
      BY <3>1
    <3>4. \A n \in Needs[o[1]] : \E p \in Range(ls) \cup ms : p[1] = n /\ g[n] = {p}
      BY <3>2
    <3> QED
      BY <3>3, <3>4
  <2>2. CASE o \in Range(ls)
    <3>1. PICK i \in DOMAIN ls : o = ls[i]
      BY <2>2 DEF Range
    <3>2. /\ Needs[o[1]] \subseteq NamesOf(Range(ls)) \cup NamesOf(ms)
          /\ made[o] = UNION {Binding(ls, ms, n) : n \in Needs[o[1]]}
      BY <3>1 DEF Made
    <3>3. \A n \in Needs[o[1]] : \E p \in Range(ls) \cup ms : p[1] = n /\ Binding(ls, ms, n) = {p}
      <4> TAKE n \in Needs[o[1]]
      <4>1. CASE n \in NamesOf(Range(ls))
        BY <4>1, OneOfAName DEF Binding
      <4>2. CASE n \notin NamesOf(Range(ls))
        BY <3>2, <4>2, OneOfAName DEF Binding
      <4> QED
        BY <4>1, <4>2
    <3> DEFINE g == [n \in Needs[o[1]] |-> Binding(ls, ms, n)]
    <3>4. made[o] = UNION {g[n] : n \in Needs[o[1]]}
      BY <3>2
    <3>5. \A n \in Needs[o[1]] : \E p \in Range(ls) \cup ms : p[1] = n /\ g[n] = {p}
      BY <3>3
    <3> QED
      BY <3>4, <3>5
  <2> QED
    BY <2>1, <2>2
<1>2. PICK g : /\ made[o] = UNION {g[n] : n \in Needs[o[1]]}
               /\ \A n \in Needs[o[1]] : \E p \in Range(ls) \cup ms : p[1] = n /\ g[n] = {p}
  BY <1>1
<1>3. made[o] \in SUBSET (Range(ls) \cup ms)
  BY <1>2
<1>4. IsFiniteSet(made[o])
  <2>1. ls \in Seq(Objects) /\ IsFiniteSet(ms)
    BY DEF Made
  <2>2. IsFiniteSet(Range(ls))
    BY <2>1, FiniteRange
  <2>3. IsFiniteSet(Range(ls) \cup ms)
    BY <2>1, <2>2, FS_Union
  <2> QED
    BY <1>3, <2>3, FS_Subset
<1>5. f \in Bijection(made[o], Needs[o[1]])
  <2>1. \A p \in made[o] : p[1] \in Needs[o[1]] /\ g[p[1]] = {p}
    BY <1>2
  <2>2. f \in [made[o] -> Needs[o[1]]]
    BY <2>1
  <2>3. \A p, q \in made[o] : f[p] = f[q] => p = q
    BY <2>1
  <2>4. \A n \in Needs[o[1]] : \E p \in made[o] : f[p] = n
    BY <1>2
  <2> HIDE DEF f
  <2> QED
    BY <2>2, <2>3, <2>4 DEF Bijection, Injection, Surjection, IsInjective
<1>6. ExistsBijection(made[o], Needs[o[1]])
  BY <1>5 DEF ExistsBijection
<1> QED
  BY <1>3, <1>4, <1>6, FS_Bijection

-----------------------------------------------------------------------------
(* The states of the model.                                                *)

LEMMA TypedUnfolds ==
    ASSUME NEW Ends, NEW m, NEW p, Typed(Ends, m, p)
    PROVE  /\ m \in Modes /\ IsProgram(p)
           /\ p = <<>> => m \in Ends
           /\ p # <<>> =>
                LET s == Head(p) IN
                /\ Allowed(m, s)
                /\ s.op = "choose" => \A i \in DOMAIN s.with : Typed(Ends, m, s.with[i] \o Tail(p))
                /\ s.op # "choose" /\ FALSE \in s.fails => Typed(Ends, After(m, s), Tail(p))
                /\ TRUE \in s.fails => \E handled : Caught(p, handled) /\ Typed(Ends, Fallen(m, s), handled)
<1>1. PICK S : Closed(Ends, S) /\ <<m, p>> \in S
  BY DEF Typed
<1>2. Stays(Ends, S, m, p)
  BY <1>1 DEF Closed
<1>3. \A n, q : <<n, q>> \in S => Typed(Ends, n, q)
  BY <1>1 DEF Typed
<1> QED
  BY <1>2, <1>3 DEF Stays

\* The catch the model looks for.
LEMMA CaughtIs ==
    ASSUME NEW p, IsProgram(p), NEW handled, Caught(p, handled)
    PROVE  LET catch == SelectInSeq(p, LAMBDA s : s.op = "catch")
           IN handled = p[catch].with \o SubSeq(p, catch + 1, Len(p))
<1> DEFINE I == {i \in 1 .. Len(p) : p[i].op = "catch"}
           catch == SelectInSeq(p, LAMBDA s : s.op = "catch")
<1>1. PICK i \in DOMAIN p : /\ p[i].op = "catch" /\ \A j \in 1 .. i - 1 : p[j].op # "catch"
                            /\ handled = p[i].with \o SubSeq(p, i + 1, Len(p))
  BY DEF Caught
<1>2. DOMAIN p = 1 .. Len(p) /\ Len(p) \in Nat
  BY DEF IsProgram
<1>3. catch = IF I # {} THEN Min(I) ELSE 0
  BY DEF SelectInSeq
<1>4. i \in I /\ \A j \in I : i <= j
  BY <1>1, <1>2
<1>5. \A x \in I : x \in Nat
  BY <1>2
<1>6. Min(I) = i
  <2>1. \A x \in I : (\A y \in I : x <= y) => x = i
    BY <1>4, <1>5
  <2>2. \E x \in I : \A y \in I : x <= y
    BY <1>4
  <2> HIDE DEF I
  <2>3. Min(I) \in I /\ \A y \in I : Min(I) <= y
    BY <2>2 DEF Min
  <2> QED
    BY <2>1, <2>3
<1>7. catch = i
  BY <1>3, <1>4, <1>6
<1> HIDE DEF catch
<1>8. handled = p[catch].with \o SubSeq(p, catch + 1, Len(p))
  BY <1>1, <1>7
<1> QED
  BY <1>8 DEF catch

\* A number that no live object of the name has.
LEMMA FreshNumber ==
    ASSUME NEW A, IsFiniteSet(A), NEW n
    PROVE  LET taken == {p[2] : p \in {p \in A : p[1] = n}}
               k == Min((0 .. Cardinality(A)) \ taken)
           IN k \in Nat /\ <<n, k>> \notin A
<1> DEFINE Same == {p \in A : p[1] = n}
           taken == {p[2] : p \in Same}
           free == (0 .. Cardinality(A)) \ taken
           f == [p \in Same |-> p[2]]
<1>1. Cardinality(A) \in Nat
  BY FS_CardinalityType
<1>2. IsFiniteSet(Same) /\ Cardinality(Same) <= Cardinality(A)
  <2>1. Same \in SUBSET A
    OBVIOUS
  <2> HIDE DEF Same
  <2> QED
    BY <2>1, FS_Subset
<1>3. IsFiniteSet(taken) /\ Cardinality(taken) <= Cardinality(Same)
  <2>1. f \in Surjection(Same, taken)
    <3>1. f \in [Same -> taken] /\ \A t \in taken : \E p \in Same : f[p] = t
      OBVIOUS
    <3> HIDE DEF f, Same, taken
    <3> QED
      BY <3>1 DEF Surjection
  <2> HIDE DEF f, Same, taken
  <2> QED
    BY <1>2, <2>1, FS_Surjection
<1>4. free # {}
  <2>1. SUFFICES ASSUME free = {} PROVE FALSE
    OBVIOUS
  <2>2. 0 .. Cardinality(A) \in SUBSET taken
    BY <2>1
  <2>3. Cardinality(0 .. Cardinality(A)) = Cardinality(A) + 1
    BY <1>1, FS_Interval
  <2> HIDE DEF Same, taken
  <2>4. Cardinality(0 .. Cardinality(A)) <= Cardinality(taken) /\ Cardinality(taken) \in Nat
        /\ Cardinality(Same) \in Nat
    BY <1>2, <1>3, <2>2, FS_Subset, FS_CardinalityType
  <2> QED
    BY <1>1, <1>2, <1>3, <2>3, <2>4
<1>5. free \in SUBSET Nat
  BY <1>1
<1>6. Min(free) \in free
  <2> HIDE DEF free
  <2>1. \E x \in free : \A y \in free : x <= y
    BY <1>4, <1>5, LeastElement
  <2> QED
    BY <2>1 DEF Min
<1>7. Min(free) \in Nat /\ <<n, Min(free)>> \notin A
  <2>1. Min(free) \in Nat /\ Min(free) \notin taken
    BY <1>5, <1>6
  <2>2. \A k : <<n, k>> \in A => k \in taken
    <3> TAKE k
    <3> HAVE <<n, k>> \in A
    <3>1. <<n, k>> \in Same /\ k = <<n, k>>[2]
      OBVIOUS
    <3> QED
      BY <3>1
  <2> HIDE DEF free
  <2> QED
    BY <2>1, <2>2
<1> QED
  BY <1>7

\* A run or a frame ends in its own way, Shutdown in its.
EndsOf(ph) == IF ph \in {"boot", "run"} THEN RunEnds ELSE ShutEnds

Now(gpu) == Mode(LocalNames, Has, gpu, running)

\* The steps ahead are typed in the mode that the objects and the GPU are in.
Working ==
    \E g \in {"idle", "busy", "own"} : AtWork(g) /\ Typed(EndsOf(phase), Now(g), todo)

UnwindOf(ls) == [i \in DOMAIN ls |-> Head(Drop(Reverse(ls)[i][1]))]

\* A call has failed: the locals go first, and what handles it is typed without
\* them.
Unwinding ==
    /\ locals # <<>>
    /\ \E g \in {"idle", "busy"} : \E handled :
          /\ todo = UnwindOf(locals) \o handled
          /\ AtWork("busy") /\ AtWork(g)
          /\ Typed(EndsOf(phase), Mode({}, Has, g, running), handled)

\* The inductive invariant.
IInv ==
    /\ host \in Hosts
    /\ Made(locals, members, needs)
    /\ phase = "done" => todo = <<>>
    /\ Working \/ Unwinding

LEMMA NothingToUnwind == \A p : IsProgram(p) => UnwindOf(<<>>) \o p = p
<1>1. UnwindOf(<<>>) = <<>>
  BY DEF UnwindOf
<1> QED
  BY <1>1, ConcatEmptySeq DEF IsProgram

\* The last local goes first.
LEMMA UnwindLast ==
    ASSUME NEW ls \in Seq(Objects), ls # <<>>, NEW p, IsProgram(p)
    PROVE  LET d == [op |-> "drop", on |-> {ls[Len(ls)][1]}, fails |-> {FALSE}, with |-> <<>>]
               q == UnwindOf(ls) \o p
               rest == UnwindOf(RemoveAt(ls, Len(ls))) \o p
           IN /\ Len(ls) \in DOMAIN ls
              /\ q # <<>> /\ Head(q) = d /\ Tail(q) = rest
              /\ q = <<d>> \o rest /\ IsProgram(rest)
<1> DEFINE d(n) == [op |-> "drop", on |-> {n}, fails |-> {FALSE}, with |-> <<>>]
           T == {d(n) : n \in Names}
           k == Len(ls)
           front == RemoveAt(ls, k)
           e == d(ls[k][1])
<1>1. k \in Nat /\ DOMAIN ls = 1 .. k /\ k \in 1 .. k /\ \A i \in 1 .. k : ls[i] \in Objects /\ ls[i][1] \in Names
  <2>1. \A o \in Objects : o[1] \in Names
    BY DEF Objects
  <2> QED
    BY <2>1
<1>2. /\ front \in Seq(Objects) /\ Len(front) = k - 1 /\ DOMAIN front = 1 .. k - 1
      /\ \A i \in 1 .. k - 1 : front[i] = ls[i]
  <2>1. /\ front \in Seq(Objects) /\ Len(front) = k - 1
        /\ \A i \in 1 .. k - 1 : front[i] = IF i < k THEN ls[i] ELSE ls[i + 1]
    BY <1>1, RemovedAt
  <2> QED
    BY <1>1, <2>1
<1>3. \A n : Head(Drop(n)) = d(n)
  BY DEF Drop, Step
<1> HIDE DEF d, k, front
<1>4. UnwindOf(ls) = [i \in 1 .. k |-> d(ls[k - i + 1][1])]
  <2>1. \A i \in 1 .. k : Reverse(ls)[i] = ls[k - i + 1]
    BY <1>1 DEF Reverse, k
  <2> QED
    BY <1>1, <1>3, <2>1 DEF UnwindOf
<1>5. UnwindOf(front) = [i \in 1 .. k - 1 |-> d(ls[k - i][1])]
  <2>1. \A i \in 1 .. k - 1 : Reverse(front)[i] = front[(k - 1) - i + 1]
    BY <1>2 DEF Reverse
  <2>2. \A i \in 1 .. k - 1 : (k - 1) - i + 1 = k - i /\ k - i \in 1 .. k - 1
    BY <1>1
  <2>3. \A i \in 1 .. k - 1 : Reverse(front)[i] = ls[k - i]
    BY <1>2, <2>1, <2>2
  <2> QED
    BY <1>2, <1>3, <2>3 DEF UnwindOf
<1>6. UnwindOf(front) \in Seq(T) /\ Len(UnwindOf(front)) = k - 1 /\ <<e>> \in Seq(T) /\ Len(<<e>>) = 1
  <2>1. \A i \in 1 .. k - 1 : k - i \in 1 .. k
    BY <1>1
  <2>2. \A i \in 1 .. k - 1 : d(ls[k - i][1]) \in T
    BY <1>1, <2>1
  <2>3. e \in T
    BY <1>1
  <2> HIDE DEF T
  <2> QED
    BY <1>1, <1>5, <2>2, <2>3
<1>7. UnwindOf(ls) \in Seq(T) /\ Len(UnwindOf(ls)) = k
  <2>1. \A i \in 1 .. k : k - i + 1 \in 1 .. k
    BY <1>1
  <2>2. \A i \in 1 .. k : d(ls[k - i + 1][1]) \in T
    BY <1>1, <2>1
  <2> HIDE DEF T
  <2> QED
    BY <1>1, <1>4, <2>2
<1> HIDE DEF T
<1>8. UnwindOf(ls) = <<e>> \o UnwindOf(front)
  <2> DEFINE c == <<e>> \o UnwindOf(front)
  <2>1. /\ c \in Seq(T) /\ Len(c) = 1 + (k - 1)
        /\ \A i \in 1 .. 1 + (k - 1) : c[i] = IF i <= 1 THEN <<e>>[i] ELSE UnwindOf(front)[i - 1]
    BY <1>6, ConcatProperties
  <2> HIDE DEF c
  <2>2. Len(c) = k
    BY <1>1, <2>1
  <2>3. ASSUME NEW i \in 1 .. k PROVE c[i] = UnwindOf(ls)[i]
    <3>1. CASE i = 1
      <4>1. k - i + 1 = k
        BY <1>1, <3>1
      <4> QED
        BY <1>1, <1>4, <2>1, <3>1, <4>1
    <3>2. CASE i # 1
      <4>1. i - 1 \in 1 .. k - 1 /\ k - (i - 1) = k - i + 1 /\ ~(i <= 1) /\ i \in 1 .. 1 + (k - 1)
        BY <1>1, <3>2
      <4>2. c[i] = UnwindOf(front)[i - 1]
        BY <2>1, <4>1
      <4> QED
        BY <1>4, <1>5, <4>1, <4>2
    <3> QED
      BY <3>1, <3>2
  <2>4. DOMAIN c = 1 .. k /\ DOMAIN UnwindOf(ls) = 1 .. k
    BY <1>7, <2>1, <2>2
  <2>5. c = [i \in 1 .. k |-> c[i]] /\ UnwindOf(ls) = [i \in 1 .. k |-> UnwindOf(ls)[i]]
    BY <1>7, <2>1, <2>4
  <2>6. c = UnwindOf(ls)
    BY <2>3, <2>5
  <2> QED
    BY <2>6 DEF c
<1>9. /\ IsProgram(<<e>>) /\ IsProgram(UnwindOf(front)) /\ IsProgram(UnwindOf(front) \o p)
      /\ UnwindOf(ls) \o p = <<e>> \o (UnwindOf(front) \o p)
  <2>1. IsProgram(<<e>>) /\ IsProgram(UnwindOf(front))
    BY <1>6 DEF IsProgram
  <2> QED
    BY <1>8, <2>1, ProgramsAssociate, ConcatIsProgram
<1>10. /\ UnwindOf(ls) \o p # <<>> /\ Head(UnwindOf(ls) \o p) = e
       /\ Tail(UnwindOf(ls) \o p) = UnwindOf(front) \o p
  BY <1>9, StepFirst
<1> QED
  BY <1>1, <1>9, <1>10 DEF front, k, d

\* In the middle of unwinding the next step drops the last local.
LEMMA UnwindingDrops ==
    ASSUME Made(locals, members, needs), Unwinding
    PROVE  /\ Len(locals) \in DOMAIN locals
           /\ todo # <<>> /\ step.op = "drop" /\ step.fails = {FALSE}
           /\ step.on = {locals[Len(locals)][1]} /\ Name = locals[Len(locals)][1]
           /\ AtWork("busy")
           /\ \E g \in {"idle", "busy"} : \E handled :
                 /\ Tail(todo) = UnwindOf(RemoveAt(locals, Len(locals))) \o handled
                 /\ AtWork(g)
                 /\ Typed(EndsOf(phase), Mode({}, Has, g, running), handled)
<1>1. locals \in Seq(Objects) /\ locals # <<>>
  BY DEF Made, Unwinding
<1>2. PICK g, handled :
          /\ g \in {"idle", "busy"}
          /\ todo = UnwindOf(locals) \o handled
          /\ AtWork("busy") /\ AtWork(g)
          /\ Typed(EndsOf(phase), Mode({}, Has, g, running), handled)
  BY DEF Unwinding
<1>3. IsProgram(handled)
  BY <1>2, TypedUnfolds
<1> DEFINE d == [op |-> "drop", on |-> {locals[Len(locals)][1]}, fails |-> {FALSE}, with |-> <<>>]
<1>4. /\ Len(locals) \in DOMAIN locals
      /\ todo # <<>> /\ Head(todo) = d /\ Tail(todo) = UnwindOf(RemoveAt(locals, Len(locals))) \o handled
  BY <1>1, <1>2, <1>3, UnwindLast
<1>5. step.op = "drop" /\ step.fails = {FALSE} /\ step.on = {locals[Len(locals)][1]}
  <2>1. step = d
    BY <1>4 DEF step
  <2> QED
    BY <2>1
<1>6. Name = locals[Len(locals)][1]
  BY <1>5 DEF Name
<1> QED
  BY <1>2, <1>4, <1>5, <1>6

LEMMA ModeHas == \A L, M, g, r : /\ Mode(L, M, g, r).locals = L /\ Mode(L, M, g, r).members = M
                                 /\ Mode(L, M, g, r).gpu = g /\ Mode(L, M, g, r).running = r
  BY DEF Mode

\* A step that is met at work is allowed.
LEMMA StepAllowed ==
    ASSUME Working, todo # <<>>
    PROVE  \E g \in {"idle", "busy", "own"} :
              /\ AtWork(g) /\ Now(g) \in Modes /\ Allowed(Now(g), step)
              /\ Now(g).locals = LocalNames /\ Now(g).members = Has /\ Now(g).gpu = g
              /\ step.op = "choose" => \A i \in DOMAIN step.with :
                    Typed(EndsOf(phase), Now(g), step.with[i] \o Tail(todo))
              /\ step.op # "choose" /\ FALSE \in step.fails
                    => Typed(EndsOf(phase), After(Now(g), step), Tail(todo))
              /\ TRUE \in step.fails => \E handled :
                    Caught(todo, handled) /\ Typed(EndsOf(phase), Fallen(Now(g), step), handled)
<1>1. PICK g \in {"idle", "busy", "own"} : AtWork(g) /\ Typed(EndsOf(phase), Now(g), todo)
  BY DEF Working
<1>2. /\ Now(g) \in Modes /\ Allowed(Now(g), step)
      /\ step.op = "choose" => \A i \in DOMAIN step.with :
            Typed(EndsOf(phase), Now(g), step.with[i] \o Tail(todo))
      /\ step.op # "choose" /\ FALSE \in step.fails
            => Typed(EndsOf(phase), After(Now(g), step), Tail(todo))
      /\ TRUE \in step.fails => \E handled :
            Caught(todo, handled) /\ Typed(EndsOf(phase), Fallen(Now(g), step), handled)
  BY <1>1, TypedUnfolds DEF step
<1>3. Now(g).locals = LocalNames /\ Now(g).members = Has /\ Now(g).gpu = g
  BY ModeHas DEF Now
<1> QED
  BY <1>1, <1>2, <1>3, Zenon

LEMMA UsersGoFirstHolds == IInv => UsersGoFirst
<1> SUFFICES ASSUME IInv PROVE UsersGoFirst
  OBVIOUS
<1>1. Made(locals, members, needs) /\ (Working \/ Unwinding)
  BY DEF IInv
<1>2. Alive = Range(locals) \cup members
  BY <1>1 DEF Made, Alive
<1>3. /\ \A o \in Alive : needs[o] \subseteq Alive
      /\ \A o \in Alive : Cardinality(needs[o]) = Cardinality(Needs[o[1]])
  BY <1>1, <1>2, MadeFromOneOfEach
<1>4. ASSUME todo # <<>>, step.op \notin {"make", "drop", "release"}, NEW name \in step.on
      PROVE  (IF step.op = "replace" THEN Local(name) ELSE Bound(name)) # {}
  <2>1. Working
    BY <1>1, <1>4, UnwindingDrops
  <2>2. PICK g \in {"idle", "busy", "own"} :
            Allowed(Now(g), step) /\ Now(g).locals = LocalNames /\ Now(g).members = Has
    BY <1>4, <2>1, StepAllowed
  <2>3. CASE step.op = "replace"
    <3>1. name \in LocalNames
      BY <1>4, <2>2, <2>3 DEF Allowed, MayReplace, Quiet
    <3> QED
      BY <1>1, <2>3, <3>1, LocalIs
  <2>4. CASE step.op # "replace"
    <3>1. name \in LocalNames \cup Has
      BY <1>4, <2>2, <2>4 DEF Allowed
    <3>2. Bound(name) = Binding(locals, members, name) /\ Has = NamesOf(members)
      BY <1>1, BoundIs
    <3>3. Binding(locals, members, name) # {}
      BY <3>1, <3>2 DEF Binding, LocalNames, NamesOf, Named
    <3> QED
      BY <2>4, <3>2, <3>3
  <2> QED
    BY <2>3, <2>4
<1> QED
  BY <1>3, <1>4 DEF UsersGoFirst

\* A step that may destroy something in use is not allowed.
LEMMA DestroyedIsDone ==
    ASSUME Made(locals, members, needs), Working \/ Unwinding, ~lost, todo # <<>>,
           step.op \in {"drop", "release", "replace"}
    PROVE  Destroyed \cap inUse = {}
<1>1. CASE Unwinding
  <2>1. /\ Len(locals) \in DOMAIN locals /\ step.op = "drop" /\ Name = locals[Len(locals)][1]
        /\ AtWork("busy")
    BY <1>1, UnwindingDrops
  <2>2. Destroyed = Named(Range(locals), Name)
    BY <2>1, LocalIs DEF Destroyed
  <2> QED
    BY <2>1, <2>2 DEF AtWork, Named
<1>2. CASE Working
  <2>1. PICK g \in {"idle", "busy", "own"} :
            /\ AtWork(g) /\ Allowed(Now(g), step)
            /\ Now(g).locals = LocalNames /\ Now(g).members = Has /\ Now(g).gpu = g
    BY <1>2, StepAllowed
  <2>2. g # "own"
    BY <2>1 DEF Allowed
  <2>3. CASE step.op = "drop"
    <3>1. Destroyed = Named(Range(locals), Name)
      BY <2>3, LocalIs DEF Destroyed
    <3> QED
      BY <2>1, <2>2, <3>1 DEF AtWork, Named
  <2>4. CASE step.op = "release"
    <3>1. Destroyed = Named(members, Name)
      BY <2>4, BoundIs DEF Destroyed
    <3>2. Name \in GpuNames => g = "idle"
      <4>1. PICK o : step.on = {o} /\ MayRelease(LocalNames, Has, g, o)
        BY <2>1, <2>4 DEF Allowed, Quiet
      <4> QED
        BY <4>1 DEF Name, MayRelease
    <3> QED
      BY <2>1, <3>1, <3>2 DEF AtWork, Named
  <2>5. CASE step.op = "replace"
    <3>1. g = "idle"
      BY <2>1, <2>5 DEF Allowed, MayReplace, Quiet
    <3> QED
      BY <2>1, <3>1 DEF AtWork
  <2> QED
    BY <2>3, <2>4, <2>5
<1> QED
  BY <1>1, <1>2

LEMMA GpuDoneFirstHolds == IInv => GpuDoneFirst
  BY DestroyedIsDone DEF IInv, GpuDoneFirst

LEMMA NothingOutlivesTheRunHolds == IInv => NothingOutlivesTheRun
<1> SUFFICES ASSUME IInv, phase = "done" PROVE Alive = {} /\ members = {}
  BY DEF NothingOutlivesTheRun
<1>1. Made(locals, members, needs) /\ todo = <<>>
  BY DEF IInv
<1>2. Working
  BY <1>1, UnwindingDrops DEF IInv
<1>3. PICK g \in {"idle", "busy", "own"} : Now(g) \in ShutEnds
  BY <1>1, <1>2, TypedUnfolds DEF Working, EndsOf
<1>4. LocalNames = {} /\ Has = {}
  BY <1>3, ModeHas DEF ShutEnds, Now
<1>5. Range(locals) = {} /\ members = {}
  <2>1. NamesOf(Range(locals)) = {} /\ NamesOf(members) = {}
    BY <1>1, <1>4, BoundIs DEF LocalNames
  <2> QED
    BY <2>1 DEF NamesOf
<1> QED
  BY <1>1, <1>5 DEF Made, Alive

\* What is left to show of a step that went well.
LEMMA StepDone ==
    ASSUME IInv, todo # <<>>, todo' = Tail(todo), UNCHANGED <<host, phase>>,
           NEW g \in {"idle", "busy", "own"}, NEW m,
           Typed(EndsOf(phase), m, Tail(todo)), m = Now(g)', AtWork(g)',
           Made(locals', members', needs')
    PROVE  IInv'
<1>1. Typed(EndsOf(phase'), Now(g)', todo')
  OBVIOUS
<1>2. Working'
  BY <1>1 DEF Working
<1> QED
  BY <1>2 DEF IInv

\* A step at work that succeeds.
LEMMA StepAtWork ==
    ASSUME IInv, todo # <<>>, Succeed, step.op # "drop"
    PROVE  \E g \in {"idle", "busy", "own"} :
              /\ AtWork(g) /\ Allowed(Now(g), step)
              /\ Now(g).locals = LocalNames /\ Now(g).members = Has /\ Now(g).gpu = g
              /\ step.op # "choose" => Typed(EndsOf(phase), After(Now(g), step), Tail(todo))
<1>1. Working
  BY UnwindingDrops DEF IInv
<1> QED
  BY <1>1, StepAllowed DEF Succeed

\* Steps that change nothing of what a mode says.
LEMMA QuietStep ==
    ASSUME IInv, todo # <<>>, Succeed, step.op \in Quiet \ {"choose", "stop"}, todo' = Tail(todo),
           UNCHANGED <<host, phase, running, locals, members, needs, inUse, lost>>
    PROVE  IInv'
<1>1. PICK g \in {"idle", "busy", "own"} :
          AtWork(g) /\ Typed(EndsOf(phase), After(Now(g), step), Tail(todo))
  BY StepAtWork DEF Quiet
<1>2. After(Now(g), step) = Now(g)
  BY ModeHas DEF Now, After, Mode, Quiet
<1>3. Now(g) = Now(g)' /\ AtWork(g)' /\ Made(locals', members', needs')
  BY <1>1 DEF Now, LocalNames, Has, AtWork, IInv
<1> QED
  BY <1>1, <1>2, <1>3, StepDone

LEMMA CallObjectKeeps == IInv /\ CallObject => IInv'
  BY QuietStep DEF CallObject, Doing, Quiet, given

LEMMA AccessImageKeeps == IInv /\ AccessImage => IInv'
  BY QuietStep DEF AccessImage, Doing, Quiet, given

LEMMA NoteChainKeeps == IInv /\ NoteChain => IInv'
  BY QuietStep DEF NoteChain, Doing, Quiet, given

LEMMA PassCatchKeeps == IInv /\ PassCatch => IInv'
  BY QuietStep DEF PassCatch, Doing, Quiet, given

LEMMA RequestStopKeeps == IInv /\ RequestStop => IInv'
<1> SUFFICES ASSUME IInv, RequestStop PROVE IInv'
  OBVIOUS
<1>1. /\ todo # <<>> /\ Succeed /\ step.op = "stop" /\ todo' = Tail(todo) /\ running' = FALSE
      /\ UNCHANGED <<host, phase, locals, members, needs, inUse, lost>>
  BY DEF RequestStop, Doing, given
<1>2. PICK g \in {"idle", "busy", "own"} :
          AtWork(g) /\ Typed(EndsOf(phase), After(Now(g), step), Tail(todo))
  BY <1>1, StepAtWork
<1>3. After(Now(g), step) = Now(g)'
  <2>1. After(Now(g), step) = Mode(LocalNames, Has, g, FALSE)
    BY <1>1, ModeHas DEF Now, After, Mode
  <2> QED
    BY <1>1, <2>1 DEF Now, LocalNames, Has
<1>4. AtWork(g)' /\ Made(locals', members', needs')
  BY <1>1, <1>2 DEF AtWork, IInv
<1> QED
  BY <1>1, <1>2, <1>3, <1>4, StepDone

LEMMA WaitForWorkKeeps == IInv /\ WaitForWork => IInv'
<1> SUFFICES ASSUME IInv, WaitForWork PROVE IInv'
  OBVIOUS
<1>1. /\ todo # <<>> /\ Succeed /\ step.op = "wait" /\ todo' = Tail(todo) /\ inUse' = {}
      /\ UNCHANGED <<host, phase, running, locals, members, needs, lost>>
  BY DEF WaitForWork, Doing, given
<1>2. PICK g \in {"idle", "busy", "own"} : Typed(EndsOf(phase), After(Now(g), step), Tail(todo))
  BY <1>1, StepAtWork
<1>3. After(Now(g), step) = Now("idle")'
  <2>1. After(Now(g), step) = Mode(LocalNames, Has, "idle", running)
    BY <1>1, ModeHas DEF Now, After, Mode
  <2> QED
    BY <1>1, <2>1 DEF Now, LocalNames, Has
<1>4. AtWork("idle")' /\ Made(locals', members', needs')
  BY <1>1 DEF AtWork, IInv
<1> QED
  BY <1>1, <1>2, <1>3, <1>4, StepDone

LEMMA SubmitWorkKeeps == IInv /\ SubmitWork => IInv'
<1> SUFFICES ASSUME IInv, SubmitWork PROVE IInv'
  OBVIOUS
<1>1. /\ todo # <<>> /\ Succeed /\ step.op = "submit" /\ todo' = Tail(todo)
      /\ inUse' = inUse \cup Bounds(step.on)
      /\ UNCHANGED <<host, phase, running, locals, members, needs, lost>>
  BY DEF SubmitWork, Doing, given
<1>2. PICK g \in {"idle", "busy", "own"} :
          /\ AtWork(g) /\ Allowed(Now(g), step)
          /\ Now(g).locals = LocalNames /\ Now(g).members = Has /\ Now(g).gpu = g
          /\ Typed(EndsOf(phase), After(Now(g), step), Tail(todo))
  BY <1>1, StepAtWork
<1>3. PICK g2 \in {"idle", "busy", "own"} : g2 = IF LocalNames = {} THEN "busy" ELSE "own"
  OBVIOUS
<1>8. After(Now(g), step) = Now(g2)'
  <2>1. After(Now(g), step) = Mode(LocalNames, Has, g2, running)
    BY <1>1, <1>3, ModeHas DEF Now, After, Mode
  <2> QED
    BY <1>1, <2>1 DEF Now, LocalNames, Has
<1>4. \A o \in Bounds(step.on) : o \in Range(locals) \cup members /\ o[1] \in GpuNames
  <2>1. step.on \subseteq GpuNames
    BY <1>1, <1>2 DEF Allowed, Quiet
  <2>2. Bounds(step.on) = UNION {Binding(locals, members, n) : n \in step.on}
    BY BoundIs DEF IInv
  <2>3. \A n : \A o \in Binding(locals, members, n) : o \in Range(locals) \cup members /\ o[1] = n
    BY DEF Binding, Named
  <2> QED
    BY <2>1, <2>2, <2>3
<1>5. LocalNames = {} => Range(locals) = {}
  BY DEF LocalNames, NamesOf
<1>6. AtWork(g2)'
  <2>1. CASE lost
    BY <1>1, <2>1 DEF AtWork
  <2>2. CASE ~lost
    <3>1. inUse \subseteq Range(locals) \cup members /\ \A o \in inUse : o[1] \in GpuNames
      BY <1>2, <2>2 DEF AtWork
    <3>2. inUse' \subseteq Range(locals') \cup members' /\ \A o \in inUse' : o[1] \in GpuNames
      BY <1>1, <1>4, <3>1
    <3>3. g2 # "idle" /\ (g2 = "busy" => Range(locals') = {})
      BY <1>1, <1>3, <1>5
    <3> QED
      BY <3>2, <3>3 DEF AtWork
  <2> QED
    BY <2>1, <2>2
<1>7. Made(locals', members', needs')
  BY <1>1 DEF IInv
<1> QED
  BY <1>1, <1>2, <1>6, <1>7, <1>8, StepDone

LEMMA DecideKeeps == IInv /\ Decide => IInv'
<1> SUFFICES ASSUME IInv, Decide PROVE IInv'
  OBVIOUS
<1>1. /\ todo # <<>> /\ Succeed /\ step.op = "choose"
      /\ UNCHANGED <<host, phase, running, locals, members, needs, inUse, lost>>
  BY DEF Decide, Doing, given
<1>2. PICK i \in DOMAIN step.with : todo' = step.with[i] \o Tail(todo)
  BY DEF Decide
<1>3. Working
  BY <1>1, UnwindingDrops DEF IInv
<1>4. PICK g \in {"idle", "busy", "own"} : AtWork(g) /\ Typed(EndsOf(phase), Now(g), todo')
  BY <1>1, <1>2, <1>3, StepAllowed
<1>5. Now(g)' = Now(g) /\ AtWork(g)' /\ Made(locals', members', needs') /\ phase # "done"
  BY <1>1, <1>4 DEF Now, LocalNames, Has, AtWork, IInv
<1>6. Working'
  BY <1>1, <1>4, <1>5 DEF Working
<1> QED
  BY <1>1, <1>5, <1>6 DEF IInv

LEMMA MakeObjectKeeps == IInv /\ MakeObject => IInv'
<1> SUFFICES ASSUME IInv, MakeObject PROVE IInv'
  OBVIOUS
<1> DEFINE taken == {p[2] : p \in {p \in Alive : p[1] = Name}}
           k == Min((0 .. Cardinality(Alive)) \ taken)
           e == <<Name, k>>
<1>1. /\ todo # <<>> /\ Succeed /\ step.op = "make" /\ todo' = Tail(todo)
      /\ locals' = Append(locals, e)
      /\ needs' = [p \in Alive \cup {e} |-> IF p = e THEN Bounds(Needs[Name]) ELSE needs[p]]
      /\ UNCHANGED <<host, phase, running, members, inUse, lost>>
  BY DEF MakeObject, Doing, given
<1>2. PICK g \in {"idle", "busy", "own"} :
          /\ AtWork(g) /\ Allowed(Now(g), step)
          /\ Now(g).locals = LocalNames /\ Now(g).members = Has /\ Now(g).gpu = g
          /\ Typed(EndsOf(phase), After(Now(g), step), Tail(todo))
  BY <1>1, StepAtWork
<1>3. PICK o : step.on = {o} /\ MayMake(LocalNames, Has, o)
  BY <1>1, <1>2 DEF Allowed, Quiet
<1>4. Name = o /\ g # "own"
  BY <1>1, <1>2, <1>3 DEF Name, Allowed
<1>5. Made(locals, members, needs) /\ Alive = Range(locals) \cup members
  <2>1. Made(locals, members, needs)
    BY DEF IInv
  <2> QED
    BY <2>1 DEF Made, Alive
<1>6. k \in Nat /\ <<o, k>> \notin Range(locals) \cup members
  <2>1. IsFiniteSet(Range(locals))
    BY <1>5, FiniteRange DEF Made
  <2>2. IsFiniteSet(Alive)
    BY <1>5, <2>1, FS_Union DEF Made
  <2>3. k \in Nat /\ <<Name, k>> \notin Alive
    BY <2>2, FreshNumber, Zenon
  <2> QED
    BY <1>4, <1>5, <2>3
<1> HIDE DEF k
<1>7. needs' = [p \in Range(locals) \cup members \cup {<<o, k>>} |->
                   IF p = <<o, k>> THEN UNION {Binding(locals, members, n) : n \in Needs[o]} ELSE needs[p]]
  <2>1. Bounds(Needs[o]) = UNION {Binding(locals, members, n) : n \in Needs[o]}
    BY <1>5, BoundIs
  <2>2. e = <<o, k>>
    BY <1>4
  <2> HIDE DEF e
  <2> QED
    BY <1>1, <1>4, <1>5, <2>1, <2>2
<1>8. /\ o \in Names \ NamesOf(Range(locals)) /\ Has = NamesOf(members)
      /\ Needs[o] \subseteq NamesOf(Range(locals)) \cup NamesOf(members)
      /\ o \in NamesOf(members) => \A x \in NamesOf(Range(locals)) : o \notin Needs[x]
  BY <1>3, <1>5, BoundIs DEF MayMake, LocalNames
<1>9. locals' = Append(locals, <<o, k>>)
  BY <1>1, <1>4
<1>10. Made(locals', members', needs')
  <2>1. Made(Append(locals, <<o, k>>), members, needs')
    BY <1>5, <1>6, <1>7, <1>8, MakeKeepsMade
  <2> QED
    BY <1>1, <1>9, <2>1
<1>11. Range(locals') = Range(locals) \cup {<<o, k>>} /\ LocalNames' = LocalNames \cup {o} /\ Has' = Has
  <2>1. locals \in Seq(Objects) /\ <<o, k>> \in Objects
    BY <1>5, <1>6, <1>8 DEF Made, Objects
  <2>2. Range(locals') = Range(locals) \cup {<<o, k>>}
    BY <1>9, <2>1, RangeOfAppend
  <2>3. \A S, p : NamesOf(S \cup {p}) = NamesOf(S) \cup {p[1]}
    BY DEF NamesOf
  <2>4. LocalNames' = LocalNames \cup {<<o, k>>[1]} /\ members' = members
    BY <1>1, <2>2, <2>3 DEF LocalNames
  <2> QED
    BY <2>2, <2>4 DEF Has
<1>12. After(Now(g), step) = Now(g)'
  <2>1. After(Now(g), step) = Mode(LocalNames \cup {o}, Has, g, running)
    BY <1>1, <1>3, ModeHas DEF Now, After, Mode
  <2> QED
    BY <1>1, <1>11, <2>1 DEF Now
<1>13. AtWork(g)'
  <2>1. CASE lost
    BY <1>1, <2>1 DEF AtWork
  <2>2. CASE ~lost
    <3>1. /\ inUse \subseteq Range(locals) \cup members
          /\ \A p \in inUse : p[1] \in GpuNames
          /\ g = "idle" => inUse = {}
          /\ g = "busy" => inUse \cap Range(locals) = {}
      BY <1>2, <2>2 DEF AtWork
    <3>2. <<o, k>> \notin inUse
      BY <1>6, <3>1
    <3> QED
      BY <1>1, <1>11, <3>1, <3>2 DEF AtWork
  <2> QED
    BY <2>1, <2>2
<1> QED
  BY <1>1, <1>2, <1>10, <1>12, <1>13, StepDone

LEMMA NothingNeedsLeaves == \A x \in Names : Needs[x] \cap Leaves = {}
  BY UsersAre, NamesAre DEF Leaves

\* A local that nothing was made from, and that the GPU is done with, goes.
LEMMA DropLocal ==
    ASSUME Made(locals, members, needs), NEW k \in DOMAIN locals,
           \A i \in DOMAIN locals : locals[k][1] \notin Needs[locals[i][1]],
           locals' = RemoveAt(locals, k), UNCHANGED <<members, inUse, lost>>,
           needs' = [p \in Alive \ {locals[k]} |-> needs[p]], AtWork("busy")
    PROVE  /\ Made(locals', members', needs')
           /\ LocalNames' = LocalNames \ {locals[k][1]} /\ Has' = Has
           /\ AtWork("busy")' /\ (AtWork("idle") => AtWork("idle")')
<1>1. Alive = Range(locals) \cup members
  BY DEF Made, Alive
<1>2. Made(RemoveAt(locals, k), members, needs')
  BY <1>1, DropKeepsMade
<1>3. /\ Range(locals') = Range(locals) \ {locals[k]}
      /\ NamesOf(Range(locals')) = NamesOf(Range(locals)) \ {locals[k][1]}
  BY WithoutLocal
<1>4. AtWork("busy")' /\ (AtWork("idle") => AtWork("idle")')
  <2>1. locals[k] \in Range(locals)
    BY DEF Range
  <2> QED
    BY <1>3, <2>1 DEF AtWork
<1> QED
  BY <1>2, <1>3, <1>4 DEF LocalNames, Has

\* What a step's object, if it destroys one, leaves.
LEMMA DestroyIs ==
    ASSUME Destroy
    PROVE  /\ todo # <<>> /\ Succeed /\ step.op \in {"drop", "release", "replace"} /\ todo' = Tail(todo)
           /\ needs' = [o \in Alive \ Destroyed |-> needs[o]]
           /\ locals' = IF step.op = "release" \/ LocalAt(Name) = 0 THEN locals
                        ELSE RemoveAt(locals, LocalAt(Name))
           /\ step.op = "drop" => members' = members
           /\ step.op = "release" => members' = members \ Destroyed
           /\ step.op = "replace" => members' = (members \ Destroyed) \cup Local(Name)
           /\ UNCHANGED <<host, phase, running, inUse, lost>>
  BY DEF Destroy, Doing, given

LEMMA DropKeeps == IInv /\ Working /\ Destroy /\ step.op = "drop" => IInv'
<1> SUFFICES ASSUME IInv, Working, Destroy, step.op = "drop" PROVE IInv'
  OBVIOUS
<1>1. /\ todo # <<>> /\ Succeed /\ todo' = Tail(todo) /\ members' = members
      /\ needs' = [o \in Alive \ Destroyed |-> needs[o]]
      /\ locals' = IF LocalAt(Name) = 0 THEN locals ELSE RemoveAt(locals, LocalAt(Name))
      /\ UNCHANGED <<host, phase, running, inUse, lost>>
  BY DestroyIs
<1>2. PICK g \in {"idle", "busy", "own"} :
          /\ AtWork(g) /\ Allowed(Now(g), step)
          /\ Now(g).locals = LocalNames /\ Now(g).members = Has /\ Now(g).gpu = g
          /\ FALSE \in step.fails => Typed(EndsOf(phase), After(Now(g), step), Tail(todo))
  BY <1>1, StepAllowed
<1>3. PICK o \in Leaves \cap LocalNames : step.on = {o}
  BY <1>2 DEF Allowed, Quiet
<1>4. Name = o /\ g \in {"idle", "busy"}
  BY <1>2, <1>3 DEF Name, Allowed
<1>5. Made(locals, members, needs)
  BY DEF IInv
<1> DEFINE k == LocalAt(o)
<1>6. k \in DOMAIN locals /\ locals[k][1] = o /\ k # 0 /\ Destroyed = {locals[k]}
  BY <1>3, <1>4, <1>5, LocalIs DEF Destroyed
<1>7. locals' = RemoveAt(locals, k) /\ needs' = [p \in Alive \ {locals[k]} |-> needs[p]]
  BY <1>1, <1>4, <1>6
<1>8. \A i \in DOMAIN locals : locals[k][1] \notin Needs[locals[i][1]]
  <2> TAKE i \in DOMAIN locals
  <2>1. locals[i] \in Objects
    BY <1>5 DEF Made
  <2>2. locals[i][1] \in Names
    BY <2>1 DEF Objects
  <2> QED
    BY <1>3, <1>6, <2>2, NothingNeedsLeaves
<1>9. AtWork("busy")
  BY <1>2, <1>4 DEF AtWork
<1> HIDE DEF k
<1>10. /\ Made(locals', members', needs') /\ LocalNames' = LocalNames \ {locals[k][1]} /\ Has' = Has
       /\ AtWork("busy")' /\ (AtWork("idle") => AtWork("idle")')
  BY <1>1, <1>5, <1>6, <1>7, <1>8, <1>9, DropLocal
<1>11. AtWork(g)'
  BY <1>2, <1>4, <1>10
<1>12. After(Now(g), step) = Now(g)'
  <2>1. After(Now(g), step) = Mode(LocalNames \ {o}, Has, g, running)
    BY <1>3, ModeHas DEF Now, After, Mode
  <2> QED
    BY <1>1, <1>6, <1>10, <2>1 DEF Now
<1> QED
  BY <1>1, <1>2, <1>10, <1>11, <1>12, StepDone DEF Succeed

LEMMA UnwindKeeps == IInv /\ Unwinding /\ Destroy => IInv'
<1> SUFFICES ASSUME IInv, Unwinding, Destroy PROVE IInv'
  OBVIOUS
<1> DEFINE k == Len(locals)
<1>1. Made(locals, members, needs) /\ locals \in Seq(Objects)
  BY DEF IInv, Made
<1>2. /\ k \in DOMAIN locals /\ todo # <<>> /\ step.op = "drop" /\ Name = locals[k][1]
      /\ AtWork("busy")
  BY <1>1, UnwindingDrops
<1>3. PICK g, handled :
          /\ g \in {"idle", "busy"}
          /\ Tail(todo) = UnwindOf(RemoveAt(locals, k)) \o handled
          /\ AtWork(g)
          /\ Typed(EndsOf(phase), Mode({}, Has, g, running), handled)
  BY <1>1, UnwindingDrops, SMTT(30)
<1>4. /\ todo' = Tail(todo) /\ members' = members
      /\ needs' = [o \in Alive \ Destroyed |-> needs[o]]
      /\ locals' = IF LocalAt(Name) = 0 THEN locals ELSE RemoveAt(locals, LocalAt(Name))
      /\ UNCHANGED <<host, phase, running, inUse, lost>>
  BY <1>2, DestroyIs
<1>5. LocalAt(Name) = k /\ LocalAt(Name) # 0 /\ Destroyed = {locals[k]}
  <2>1. Name \in LocalNames
    BY <1>2 DEF LocalNames, NamesOf, Range
  <2>2. /\ LocalAt(Name) \in DOMAIN locals /\ locals[LocalAt(Name)][1] = Name /\ LocalAt(Name) # 0
        /\ Local(Name) = {locals[LocalAt(Name)]}
    BY <1>1, <2>1, LocalIs
  <2>3. LocalAt(Name) = k
    BY <1>1, <1>2, <2>2 DEF Made
  <2> QED
    BY <1>2, <2>2, <2>3 DEF Destroyed
<1>6. locals' = RemoveAt(locals, k) /\ needs' = [p \in Alive \ {locals[k]} |-> needs[p]]
  BY <1>4, <1>5
<1>7. \A i \in DOMAIN locals : locals[k][1] \notin Needs[locals[i][1]]
  <2> TAKE i \in DOMAIN locals
  <2>1. locals[k][1] \in Needs[locals[i][1]] => k < i
    BY <1>1, <1>2 DEF Made
  <2>2. i <= k /\ i \in Nat /\ k \in Nat
    BY <1>1
  <2> QED
    BY <2>1, <2>2
<1> HIDE DEF k
<1>8. /\ Made(locals', members', needs') /\ LocalNames' = LocalNames \ {locals[k][1]} /\ Has' = Has
      /\ AtWork("busy")' /\ (AtWork("idle") => AtWork("idle")')
  BY <1>1, <1>2, <1>4, <1>6, <1>7, DropLocal
<1>9. AtWork(g)'
  BY <1>3, <1>8
<1>10. todo' = UnwindOf(locals') \o handled
  BY <1>3, <1>4, <1>6
<1>11. Typed(EndsOf(phase'), Mode({}, Has', g, running'), handled)
  BY <1>3, <1>4, <1>8
<1>12. CASE locals' = <<>>
  <2>1. IsProgram(handled)
    BY <1>11, TypedUnfolds
  <2>2. todo' = handled
    BY <1>10, <1>12, <2>1, NothingToUnwind
  <2>3. LocalNames' = {}
    BY <1>12 DEF LocalNames, NamesOf, Range
  <2>4. Now(g)' = Mode({}, Has', g, running')
    BY <2>3 DEF Now
  <2>5. Working'
    BY <1>3, <1>9, <1>11, <2>2, <2>4 DEF Working
  <2> QED
    BY <1>2, <1>4, <1>8, <2>5 DEF IInv
<1>13. CASE locals' # <<>>
  <2>1. Unwinding'
    BY <1>3, <1>8, <1>9, <1>10, <1>11, <1>13 DEF Unwinding
  <2> QED
    BY <1>2, <1>4, <1>8, <2>1 DEF IInv
<1> QED
  BY <1>12, <1>13

LEMMA ReleaseKeeps == IInv /\ Working /\ Destroy /\ step.op = "release" => IInv'
<1> SUFFICES ASSUME IInv, Working, Destroy, step.op = "release" PROVE IInv'
  OBVIOUS
<1>1. /\ todo # <<>> /\ Succeed /\ todo' = Tail(todo) /\ members' = members \ Destroyed
      /\ needs' = [o \in Alive \ Destroyed |-> needs[o]] /\ locals' = locals
      /\ UNCHANGED <<host, phase, running, inUse, lost>>
  BY DestroyIs
<1>2. PICK g \in {"idle", "busy", "own"} :
          /\ AtWork(g) /\ Allowed(Now(g), step)
          /\ Now(g).locals = LocalNames /\ Now(g).members = Has /\ Now(g).gpu = g
          /\ FALSE \in step.fails => Typed(EndsOf(phase), After(Now(g), step), Tail(todo))
  BY <1>1, StepAllowed
<1>3. PICK o : step.on = {o} /\ MayRelease(LocalNames, Has, g, o)
  BY <1>2 DEF Allowed, Quiet
<1>4. Name = o
  BY <1>3 DEF Name
<1>5. Made(locals, members, needs) /\ Alive = Range(locals) \cup members
  <2>1. Made(locals, members, needs)
    BY DEF IInv
  <2> QED
    BY <2>1 DEF Made, Alive
<1>6. Destroyed = Named(members, o) /\ Has = NamesOf(members)
  BY <1>4, <1>5, BoundIs DEF Destroyed
<1>7. o \in NamesOf(members) => \A x \in NamesOf(Range(locals)) \cup NamesOf(members) : o \notin Needs[x]
  BY <1>3, <1>6 DEF MayRelease, LocalNames
<1>8. needs' = [p \in (Range(locals) \cup members) \ Named(members, o) |-> needs[p]]
  BY <1>1, <1>5, <1>6
<1>9. /\ Made(locals, members \ Named(members, o), needs')
      /\ NamesOf(members \ Named(members, o)) = NamesOf(members) \ {o}
  <2>1. Made(locals, members, needs)
    BY <1>5
  <2>2. /\ Made(locals, members \ Named(members, o),
                [p \in (Range(locals) \cup members) \ Named(members, o) |-> needs[p]])
        /\ NamesOf(members \ Named(members, o)) = NamesOf(members) \ {o}
    BY <1>7, <2>1, ReleaseKeepsMade
  <2> QED
    BY <1>8, <2>2
<1>10. Made(locals', members', needs')
  BY <1>1, <1>6, <1>9
<1>11. Has' = Has \ {o} /\ LocalNames' = LocalNames
  <2>1. Has' = NamesOf(members')
    BY DEF Has, NamesOf
  <2> QED
    BY <1>1, <1>6, <1>9, <2>1 DEF LocalNames
<1>12. lost \/ Destroyed \cap inUse = {}
  BY <1>1, <1>5, DestroyedIsDone
<1>13. AtWork(g)'
  BY <1>1, <1>2, <1>12 DEF AtWork
<1>14. After(Now(g), step) = Now(g)'
  <2>1. After(Now(g), step) = Mode(LocalNames, Has \ {o}, g, running)
    BY <1>3, ModeHas DEF Now, After, Mode
  <2> QED
    BY <1>1, <1>11, <2>1 DEF Now
<1> QED
  BY <1>1, <1>2, <1>10, <1>13, <1>14, StepDone DEF Succeed

LEMMA ReplaceKeeps == IInv /\ Working /\ Destroy /\ step.op = "replace" => IInv'
<1> SUFFICES ASSUME IInv, Working, Destroy, step.op = "replace" PROVE IInv'
  OBVIOUS
<1>1. /\ todo # <<>> /\ Succeed /\ todo' = Tail(todo) /\ members' = (members \ Destroyed) \cup Local(Name)
      /\ needs' = [o \in Alive \ Destroyed |-> needs[o]]
      /\ locals' = IF LocalAt(Name) = 0 THEN locals ELSE RemoveAt(locals, LocalAt(Name))
      /\ UNCHANGED <<host, phase, running, inUse, lost>>
  BY DestroyIs
<1>2. PICK g \in {"idle", "busy", "own"} :
          /\ AtWork(g) /\ Allowed(Now(g), step)
          /\ Now(g).locals = LocalNames /\ Now(g).members = Has /\ Now(g).gpu = g
          /\ FALSE \in step.fails => Typed(EndsOf(phase), After(Now(g), step), Tail(todo))
  BY <1>1, StepAllowed
<1>3. PICK o : step.on = {o} /\ MayReplace(LocalNames, Has, g, o)
  BY <1>2 DEF Allowed, Quiet
<1>4. Name = o /\ o \in LocalNames /\ g = "idle"
  BY <1>3 DEF Name, MayReplace
<1>5. Made(locals, members, needs) /\ Alive = Range(locals) \cup members
  <2>1. Made(locals, members, needs)
    BY DEF IInv
  <2> QED
    BY <2>1 DEF Made, Alive
<1> DEFINE k == LocalAt(o)
<1>6. k \in DOMAIN locals /\ locals[k][1] = o /\ k # 0 /\ Local(Name) = {locals[k]}
  BY <1>4, <1>5, LocalIs
<1>7. Destroyed = Named(members, locals[k][1]) /\ Has = NamesOf(members)
  BY <1>4, <1>5, <1>6, BoundIs DEF Destroyed
<1>8. /\ Needs[locals[k][1]] \cap NamesOf(Range(locals)) = {}
      /\ \A x \in NamesOf(members) : locals[k][1] \notin Needs[x]
  BY <1>3, <1>6, <1>7 DEF MayReplace, LocalNames
<1>9. /\ locals' = RemoveAt(locals, k) /\ members' = (members \ Named(members, locals[k][1])) \cup {locals[k]}
      /\ needs' = [p \in (Range(locals) \cup members) \ Named(members, locals[k][1]) |-> needs[p]]
  BY <1>1, <1>4, <1>5, <1>6, <1>7
<1> HIDE DEF k
<1>10. /\ Made(RemoveAt(locals, k), (members \ Named(members, locals[k][1])) \cup {locals[k]}, needs')
       /\ NamesOf((members \ Named(members, locals[k][1])) \cup {locals[k]})
             = NamesOf(members) \cup {locals[k][1]}
  BY <1>5, <1>6, <1>8, <1>9, ReplaceKeepsMade
<1>11. Made(locals', members', needs')
  BY <1>9, <1>10
<1>12. Has' = Has \cup {o} /\ LocalNames' = LocalNames \ {o}
  <2>1. Has' = NamesOf(members')
    BY DEF Has, NamesOf
  <2>2. NamesOf(Range(RemoveAt(locals, k))) = NamesOf(Range(locals)) \ {locals[k][1]}
    BY <1>5, <1>6, WithoutLocal
  <2> QED
    BY <1>6, <1>7, <1>9, <1>10, <2>1, <2>2 DEF LocalNames
<1>13. AtWork(g)'
  BY <1>1, <1>2, <1>4 DEF AtWork
<1>14. After(Now(g), step) = Now(g)'
  <2>1. After(Now(g), step) = Mode(LocalNames \ {o}, Has \cup {o}, g, running)
    BY <1>3, ModeHas DEF Now, After, Mode
  <2> QED
    BY <1>1, <1>12, <2>1 DEF Now
<1> QED
  BY <1>1, <1>2, <1>11, <1>13, <1>14, StepDone DEF Succeed

LEMMA DestroyKeeps == IInv /\ Destroy => IInv'
  BY DropKeeps, UnwindKeeps, ReleaseKeeps, ReplaceKeeps, DestroyIs DEF IInv

LEMMA AdoptLocalsKeeps == IInv /\ AdoptLocals => IInv'
<1> SUFFICES ASSUME IInv, AdoptLocals PROVE IInv'
  OBVIOUS
<1>1. /\ todo # <<>> /\ Succeed /\ step.op = "adopt" /\ todo' = Tail(todo)
      /\ members' = members \cup Range(locals) /\ locals' = <<>>
      /\ UNCHANGED <<host, phase, running, needs, inUse, lost>>
  BY DEF AdoptLocals, Doing, given
<1>2. PICK g \in {"idle", "busy", "own"} :
          /\ AtWork(g) /\ Allowed(Now(g), step)
          /\ Now(g).locals = LocalNames /\ Now(g).members = Has /\ Now(g).gpu = g
          /\ Typed(EndsOf(phase), After(Now(g), step), Tail(todo))
  BY <1>1, StepAtWork
<1>3. LocalNames \cap Has = {}
  BY <1>1, <1>2 DEF Allowed, Quiet
<1>4. Made(locals, members, needs) /\ Has = NamesOf(members)
  BY BoundIs DEF IInv
<1>5. /\ Made(<<>>, members \cup Range(locals), needs)
      /\ NamesOf(members \cup Range(locals)) = NamesOf(members) \cup NamesOf(Range(locals))
  BY <1>3, <1>4, AdoptKeepsMade DEF LocalNames
<1>6. Made(locals', members', needs')
  BY <1>1, <1>5
<1>7. Has' = Has \cup LocalNames /\ LocalNames' = {} /\ Range(locals') = {}
  <2>1. Has' = NamesOf(members')
    BY DEF Has, NamesOf
  <2>2. Range(locals') = {}
    BY <1>1 DEF Range
  <2>3. NamesOf({}) = {}
    BY DEF NamesOf
  <2> QED
    BY <1>1, <1>4, <1>5, <2>1, <2>2, <2>3 DEF LocalNames
<1>8. AtWork(g)'
  BY <1>1, <1>2, <1>7 DEF AtWork
<1>9. After(Now(g), step) = Now(g)'
  <2>1. After(Now(g), step) = Mode({}, Has \cup LocalNames, g, running)
    BY <1>1, ModeHas DEF Now, After, Mode
  <2> QED
    BY <1>1, <1>7, <2>1 DEF Now
<1> QED
  BY <1>1, <1>2, <1>6, <1>8, <1>9, StepDone

LEMMA FailKeeps == IInv /\ Fail => IInv'
<1> SUFFICES ASSUME IInv, Fail PROVE IInv'
  OBVIOUS
<1> DEFINE catch == SelectInSeq(todo, LAMBDA s : s.op = "catch")
           h == todo[catch].with \o SubSeq(todo, catch + 1, Len(todo))
<1>1. /\ todo # <<>> /\ TRUE \in step.fails /\ todo' = Unwind \o h
      /\ lost' = (lost \/ step.op = "wait")
      /\ UNCHANGED <<host, phase, running, locals, members, needs, inUse>>
  BY DEF Fail, given
<1>2. Working
  BY <1>1, UnwindingDrops DEF IInv
<1>3. PICK g \in {"idle", "busy", "own"} :
          /\ AtWork(g) /\ Allowed(Now(g), step) /\ Now(g).gpu = g
          /\ \E handled : Caught(todo, handled) /\ Typed(EndsOf(phase), Fallen(Now(g), step), handled)
  BY <1>1, <1>2, StepAllowed
<1>4. PICK handled : Caught(todo, handled) /\ Typed(EndsOf(phase), Fallen(Now(g), step), handled)
  BY <1>3
<1>5. h = handled
  <2>1. IsProgram(todo)
    BY <1>2, TypedUnfolds DEF Working
  <2> QED
    BY <1>4, <2>1, CaughtIs, Zenon
<1> HIDE DEF h
<1>6. todo' = UnwindOf(locals) \o handled
  BY <1>1, <1>5 DEF Unwind, UnwindOf
<1>7. PICK n \in {"idle", "busy"} : n = IF step.op = "wait" THEN "idle" ELSE "busy"
  OBVIOUS
<1>8. Fallen(Now(g), step) = Mode({}, Has, n, running)
  BY <1>7, ModeHas DEF Fallen, Failed, Idle, Now
<1>9. AtWork("busy")' /\ AtWork(n)'
  <2>1. CASE step.op = "wait"
    BY <1>1, <2>1 DEF AtWork
  <2>2. CASE step.op # "wait"
    <3>1. g \in {"idle", "busy"} /\ n = "busy" /\ (lost => lost')
      BY <1>1, <1>3, <1>7, <2>2 DEF Allowed
    <3>2. AtWork("busy")
      BY <1>3, <3>1 DEF AtWork
    <3>3. AtWork("busy")'
      BY <1>1, <3>1, <3>2 DEF AtWork
    <3> QED
      BY <3>1, <3>3
  <2> QED
    BY <2>1, <2>2
<1>10. Typed(EndsOf(phase'), Mode({}, Has', n, running'), handled)
  BY <1>1, <1>4, <1>8 DEF Has
<1>11. CASE locals = <<>>
  <2>1. IsProgram(handled)
    BY <1>10, TypedUnfolds
  <2>2. todo' = handled
    BY <1>6, <1>11, <2>1, NothingToUnwind
  <2>3. LocalNames' = {}
    BY <1>1, <1>11 DEF LocalNames, NamesOf, Range
  <2>4. Now(n)' = Mode({}, Has', n, running')
    BY <2>3 DEF Now
  <2>5. Working'
    BY <1>9, <1>10, <2>2, <2>4 DEF Working
  <2> QED
    BY <1>1, <2>5 DEF IInv
<1>12. CASE locals # <<>>
  <2>1. Unwinding'
    BY <1>1, <1>6, <1>9, <1>10, <1>12 DEF Unwinding
  <2> QED
    BY <1>1, <2>1 DEF IInv
<1> QED
  BY <1>11, <1>12

\* With nothing left to do the mode is an end of the phase.
LEMMA AtAnEnd ==
    ASSUME IInv, todo = <<>>
    PROVE  \E g \in {"idle", "busy", "own"} :
              /\ AtWork(g) /\ Now(g) \in EndsOf(phase) /\ Typed(EndsOf(phase), Now(g), todo)
              /\ Now(g) \in Modes
              /\ Now(g).locals = LocalNames /\ Now(g).members = Has /\ Now(g).gpu = g
              /\ Now(g).running = running
<1>1. Working
  BY UnwindingDrops DEF IInv
<1>2. PICK g \in {"idle", "busy", "own"} : AtWork(g) /\ Typed(EndsOf(phase), Now(g), todo)
  BY <1>1 DEF Working
<1>3. Now(g) \in EndsOf(phase) /\ Now(g) \in Modes
  BY <1>2, TypedUnfolds
<1>4. /\ Now(g).locals = LocalNames /\ Now(g).members = Has /\ Now(g).gpu = g
      /\ Now(g).running = running
  BY ModeHas DEF Now
<1> QED
  BY <1>2, <1>3, <1>4, Zenon

LEMMA StartRunKeeps == IInv /\ StartRun => IInv'
<1> SUFFICES ASSUME IInv, StartRun PROVE IInv'
  OBVIOUS
<1>1. /\ phase = "boot" /\ todo = <<>> /\ phase' = "run"
      /\ UNCHANGED <<host, todo, running, locals, members, needs, inUse, lost>>
  BY DEF StartRun
<1>2. PICK g \in {"idle", "busy", "own"} : AtWork(g) /\ Typed(EndsOf(phase), Now(g), todo)
  BY <1>1, AtAnEnd
<1>3. AtWork(g)' /\ Now(g)' = Now(g) /\ EndsOf(phase') = EndsOf(phase)
  BY <1>1, <1>2 DEF AtWork, Now, LocalNames, Has, EndsOf
<1>4. Working'
  BY <1>1, <1>2, <1>3 DEF Working
<1> QED
  BY <1>1, <1>4 DEF IInv

LEMMA ExitKeeps == IInv /\ Exit => IInv'
<1> SUFFICES ASSUME IInv, Exit PROVE IInv'
  OBVIOUS
<1>1. /\ phase = "shutdown" /\ todo = <<>> /\ phase' = "done"
      /\ UNCHANGED <<host, todo, running, locals, members, needs, inUse, lost>>
  BY DEF Exit
<1>2. PICK g \in {"idle", "busy", "own"} : AtWork(g) /\ Typed(EndsOf(phase), Now(g), todo)
  BY <1>1, AtAnEnd
<1>3. AtWork(g)' /\ Now(g)' = Now(g) /\ EndsOf(phase') = EndsOf(phase)
  BY <1>1, <1>2 DEF AtWork, Now, LocalNames, Has, EndsOf
<1>4. Working'
  BY <1>1, <1>2, <1>3 DEF Working
<1> QED
  BY <1>1, <1>4 DEF IInv

\* What a frame or a shutdown begins with.
LEMMA BetweenSteps ==
    ASSUME IInv, todo = <<>>, phase \in {"boot", "run"}
    PROVE  /\ LocalNames = {} /\ Range(locals) = {} /\ CanEnd(Has) /\ running \in BOOLEAN
           /\ running => Ready(Has)
           /\ AtWork("busy")
<1>1. PICK g \in {"idle", "busy", "own"} :
          /\ AtWork(g) /\ Now(g) \in RunEnds
          /\ Now(g).locals = LocalNames /\ Now(g).members = Has /\ Now(g).gpu = g
          /\ Now(g).running = running
  BY AtAnEnd DEF EndsOf
<1>2. /\ LocalNames = {} /\ g # "own" /\ CanEnd(Has) /\ running \in BOOLEAN
      /\ running => Ready(Has)
  BY <1>1 DEF RunEnds, Modes
<1>3. Range(locals) = {}
  BY <1>2 DEF LocalNames, NamesOf
<1>4. AtWork("busy")
  BY <1>1, <1>2 DEF AtWork
<1> QED
  BY <1>2, <1>3, <1>4

\* The next steps are typed when nothing is at hand but the members.
LEMMA NewSteps ==
    ASSUME IInv, todo = <<>>, phase \in {"boot", "run"}, phase' # "done",
           UNCHANGED <<host, running, locals, members, needs, inUse, lost>>,
           Typed(EndsOf(phase'), Mode({}, Has, "busy", running), todo')
    PROVE  IInv'
<1>1. LocalNames = {} /\ AtWork("busy")
  BY BetweenSteps
<1>2. Now("busy")' = Mode({}, Has, "busy", running)
  BY <1>1 DEF Now, LocalNames, Has
<1>3. AtWork("busy")'
  BY <1>1 DEF AtWork
<1>4. Working'
  BY <1>2, <1>3 DEF Working
<1> QED
  BY <1>4 DEF IInv

LEMMA NextFrameKeeps == IInv /\ NextFrame => IInv'
<1> SUFFICES ASSUME IInv, NextFrame PROVE IInv'
  OBVIOUS
<1>1. /\ phase = "run" /\ phase' = "run" /\ todo = <<>> /\ running
      /\ UNCHANGED <<host, running, locals, members, needs, inUse, lost>>
  BY DEF NextFrame
<1>2. PICK size \in FramebufferSizes, surface \in host.surfaces, closing \in BOOLEAN :
          todo' = RunStep(host, Has, size, surface, closing)
  BY DEF NextFrame
<1>3. MipLevels(host.texture) \in 1 .. 32
  BY TextureAssumption DEF IInv
<1>4. Ready(Has) /\ running = TRUE
  BY <1>1, BetweenSteps
<1>5. Typed(RunEnds, Mode({}, Has, "busy", TRUE), RunStep(host, Has, size, surface, closing))
  BY <1>3, <1>4, TypedRunStep
<1>6. Typed(EndsOf(phase'), Mode({}, Has, "busy", running), todo')
  BY <1>1, <1>2, <1>4, <1>5 DEF EndsOf
<1> QED
  BY <1>1, <1>6, NewSteps

LEMMA BeginShutdownKeeps == IInv /\ BeginShutdown => IInv'
<1> SUFFICES ASSUME IInv, BeginShutdown PROVE IInv'
  OBVIOUS
<1>1. /\ phase \in {"boot", "run"} /\ phase' = "shutdown" /\ todo = <<>> /\ todo' = Shutdown(Has)
      /\ UNCHANGED <<host, running, locals, members, needs, inUse, lost>>
  BY DEF BeginShutdown
<1>2. CanEnd(Has) /\ running \in BOOLEAN
  BY <1>1, BetweenSteps
<1>3. Typed(ShutEnds, Mode({}, Has, "busy", running), Shutdown(Has))
  BY <1>2, TypedShutdown
<1>4. Typed(EndsOf(phase'), Mode({}, Has, "busy", running), todo')
  BY <1>1, <1>3 DEF EndsOf
<1> QED
  BY <1>1, <1>4, NewSteps

LEMMA InitHolds == Init => IInv
<1> SUFFICES ASSUME Init PROVE IInv
  OBVIOUS
<1>1. /\ host \in Hosts /\ capabilities \in Capabilities /\ phase = "boot" /\ running = TRUE
      /\ locals = <<>> /\ members = {} /\ needs = <<>> /\ inUse = {}
  BY DEF Init
<1>2. PICK size : todo = Boot(host, capabilities, size)
  BY DEF Init
<1>3. MipLevels(host.texture) \in 1 .. 32 /\ capabilities.presentation \in BOOLEAN
      /\ capabilities.rendering \in BOOLEAN
  BY <1>1, TextureAssumption, CapabilityAssumption
<1>4. Typed(RunEnds, Mode({}, {}, "busy", TRUE), Boot(host, capabilities, size))
  BY <1>3, TypedBoot, Zenon
<1>5. Range(locals) = {} /\ LocalNames = {} /\ Has = {}
  BY <1>1 DEF Range, LocalNames, NamesOf, Has
<1>6. Now("busy") = Mode({}, {}, "busy", TRUE)
  BY <1>1, <1>5 DEF Now
<1>7. AtWork("busy")
  BY <1>1 DEF AtWork
<1>8. Working
  BY <1>1, <1>2, <1>4, <1>6, <1>7 DEF Working, EndsOf
<1>9. Made(locals, members, needs)
  <2>1. IsFiniteSet({})
    BY FS_EmptySet
  <2>2. <<>> \in Seq(Objects) /\ DOMAIN <<>> = {} /\ <<>> = [o \in {} |-> needs[o]]
    OBVIOUS
  <2> QED
    BY <1>1, <1>5, <2>1, <2>2 DEF Made
<1> QED
  BY <1>1, <1>8, <1>9 DEF IInv

LEMMA Inductive == IInv /\ [Next]_vars => IInv'
<1> SUFFICES ASSUME IInv, [Next]_vars PROVE IInv'
  OBVIOUS
<1>1. CASE UNCHANGED vars
  <2>1. /\ UNCHANGED <<host, phase, running, todo, locals, members, needs, inUse, lost>>
    BY <1>1 DEF vars
  <2>2. \A g : AtWork(g)' = AtWork(g) /\ Now(g)' = Now(g)
    BY <2>1 DEF AtWork, Now, LocalNames, Has
  <2>3. (Working => Working') /\ (Unwinding => Unwinding')
    BY <2>1, <2>2 DEF Working, Unwinding, Has, AtWork
  <2> QED
    BY <2>1, <2>3 DEF IInv
<1>2. CASE Next
  BY <1>1, <1>2, MakeObjectKeeps, CallObjectKeeps, SubmitWorkKeeps, WaitForWorkKeeps, AccessImageKeeps,
     DestroyKeeps, AdoptLocalsKeeps, NoteChainKeeps, RequestStopKeeps, DecideKeeps, PassCatchKeeps,
     FailKeeps, StartRunKeeps, NextFrameKeeps, BeginShutdownKeeps, ExitKeeps DEF Next, Terminated
<1> QED
  BY <1>1, <1>2

LEMMA IInvAlways == Spec => []IInv
  BY InitHolds, Inductive, PTL DEF Spec

\* No object outlives one it was made from, and no step names one that is not
\* there, in every boot, run and shutdown of any machine, whatever fails.
THEOREM UsersAlwaysGoFirst == Spec => []UsersGoFirst
  BY IInvAlways, UsersGoFirstHolds, PTL

\* Nothing is destroyed that the GPU may still be at work on.
THEOREM GpuIsDoneFirst == Spec => []GpuDoneFirst
  BY IInvAlways, GpuDoneFirstHolds, PTL

\* However a run went, nothing is left when it is over.
THEOREM NothingOutlives == Spec => []NothingOutlivesTheRun
  BY IInvAlways, NothingOutlivesTheRunHolds, PTL
=============================================================================
