------------------------- MODULE EngineImagesProofs --------------------------
(***************************************************************************)
(* Every access of an image is in order, and what was chosen on the machine*)
(* is legal, for any machines, sizes of the window, number of frames and   *)
(* number of failing calls.  The proof is a second typing of the programs  *)
(* EngineLifecycleProofs types, in a sight: what the images, the chain and *)
(* the machine are like.  It is Hoare's logic: a program brings the sights *)
(* of one set into another.                                                *)
(***************************************************************************)
EXTENDS EngineLifecycleProofs

\* Chains, each with the choice that was made for its surface.
Chains == {[surface |-> surface, choice |-> SwapChainChoice(surface, size)] :
              surface \in UNION {{h.surface} \cup h.surfaces : h \in Hosts}, size \in FramebufferSizes}

Shown == {"msaa", "depth", "swapChain", "texture"}
Layouts == {"undefined", "colour", "depth", "present", "transferSrc", "transferDst", "shaderRead"}
Accesses == {"colourRead", "colourWrite", "depthWrite", "transferRead", "transferWrite", "sampledRead",
             "transition"}
ImageStates == [layout : Layouts, dirty : SUBSET Accesses, visible : SUBSET Accesses, extent : [1..2 -> Nat]]
ImageSets == UNION {[D -> ImageStates] : D \in SUBSET (Shown \X Nat)}

\* drawing: the renderer may have come up.
Sights == [host : Hosts, images : ImageSets, chain : {<<>>} \cup Chains, drawing : BOOLEAN,
           running : BOOLEAN]
Sight(h, im, c, d, r) == [host |-> h, images |-> im, chain |-> c, drawing |-> d, running |-> r]

\* Everything there is to choose on the machine was found.
Fit(h) ==
    /\ SelectPhysicalDevice(h.devices) # 0
    /\ FindGraphicsPresentQueueFamily(Device(h)) # 0
    /\ FindDepthFormat(Device(h)) # "none"

CanCapture(h, c) ==
    /\ "transferSource" \in c.choice.usage
    /\ Capturable(SelectSurfaceFormat(h.surface.formats))

\* What a step asks of the sight it is met in.
Fits(n, s) ==
    /\ s.op = "image" => s.with.image \in Shown \X Nat /\ s.with.extent \in [1..2 -> Nat]
    /\ s.op = "transition" => /\ s.with.image \in DOMAIN n.images
                              /\ TransitionAllowed(n.images[s.with.image], s.with)
                              /\ s.with.to \in Layouts /\ s.with.dst \in SUBSET Accesses
    /\ s.op = "use" => /\ s.with.image \in DOMAIN n.images
                       /\ UseAllowed(n.images[s.with.image], s.with)
    /\ s.op = "present" => /\ s.with.image \in DOMAIN n.images
                           /\ n.images[s.with.image].layout = "present"
    /\ s.op = "chain" => s.with \in Chains
    /\ s.op = "make" /\ s.on = {"swapViews"} => n.chain \in Chains
    /\ s.op = "make" /\ s.on = {"fences"} => Fit(n.host)
    /\ s.op = "make" /\ s.on = {"readback"} => CanCapture(n.host, n.chain)

\* im with image v at i
Put(im, i, v) == [j \in DOMAIN im \cup {i} |-> IF j = i THEN v ELSE im[j]]

ImagesAfter(im, s) ==
    LET i == s.with.image IN
    IF s.op = "image" THEN Put(im, i, NewImage(s.with.extent))
    ELSE IF s.op = "transition" THEN Put(im, i, Transitioned(im[i], s.with))
    ELSE IF s.op = "use" THEN Put(im, i, Used(im[i], s.with))
    ELSE IF s.op = "wait" THEN [j \in DOMAIN im |-> Available(im[j])]
    ELSE im

\* The sight after a step that went well; one that failed leaves it as it is.
Next2(n, s) ==
    Sight(n.host, ImagesAfter(n.images, s), IF s.op = "chain" THEN s.with ELSE n.chain,
          IF s.op = "make" /\ s.on = {"fences"} THEN TRUE ELSE n.drawing,
          IF s.op = "stop" THEN FALSE ELSE n.running)

Keeps(Ends, S, n, p) ==
    /\ n \in Sights /\ IsProgram(p)
    /\ p = <<>> => n \in Ends
    /\ p # <<>> =>
         LET s == Head(p) IN
         /\ Fits(n, s)
         /\ s.op = "choose" => \A i \in DOMAIN s.with : <<n, s.with[i] \o Tail(p)>> \in S
         /\ s.op # "choose" /\ FALSE \in s.fails => <<Next2(n, s), Tail(p)>> \in S
         /\ TRUE \in s.fails => \E handled : Caught(p, handled) /\ <<n, handled>> \in S

Kept(Ends, S) == \A n, p : <<n, p>> \in S => Keeps(Ends, S, n, p)

\* p never goes wrong from n on, and ends in Ends.
Orderly(Ends, n, p) == \E S : Kept(Ends, S) /\ <<n, p>> \in S

LEMMA KeepsInMore ==
    ASSUME NEW Ends, NEW S, NEW U, NEW n, NEW p, Kept(Ends, S), S \subseteq U, <<n, p>> \in S
    PROVE  Keeps(Ends, U, n, p)
<1>1. Keeps(Ends, S, n, p)
  BY DEF Kept
<1> QED
  BY <1>1 DEF Keeps

LEMMA KeptUnion ==
    ASSUME NEW Ends, NEW S, NEW T, Kept(Ends, S), Kept(Ends, T)
    PROVE  Kept(Ends, S \cup T)
<1> SUFFICES ASSUME NEW n, NEW p, <<n, p>> \in S \cup T PROVE Keeps(Ends, S \cup T, n, p)
  BY DEF Kept
<1>1. S \subseteq S \cup T /\ T \subseteq S \cup T
  OBVIOUS
<1> QED
  BY <1>1, KeepsInMore

LEMMA OrderlyUnfolds ==
    ASSUME NEW Ends, NEW n, NEW p, Orderly(Ends, n, p)
    PROVE  /\ n \in Sights /\ IsProgram(p)
           /\ p = <<>> => n \in Ends
           /\ p # <<>> =>
                LET s == Head(p) IN
                /\ Fits(n, s)
                /\ s.op = "choose" => \A i \in DOMAIN s.with : Orderly(Ends, n, s.with[i] \o Tail(p))
                /\ s.op # "choose" /\ FALSE \in s.fails => Orderly(Ends, Next2(n, s), Tail(p))
                /\ TRUE \in s.fails => \E handled : Caught(p, handled) /\ Orderly(Ends, n, handled)
<1>1. PICK S : Kept(Ends, S) /\ <<n, p>> \in S
  BY DEF Orderly
<1>2. Keeps(Ends, S, n, p)
  BY <1>1 DEF Kept
<1>3. \A k, q : <<k, q>> \in S => Orderly(Ends, k, q)
  BY <1>1 DEF Orderly
<1> QED
  BY <1>2, <1>3 DEF Keeps

\* An end is orderly.
LEMMA OrderlyEnd ==
    ASSUME NEW Ends, NEW n \in Sights, n \in Ends
    PROVE  Orderly(Ends, n, <<>>)
<1>1. IsProgram(<<>>)
  BY DEF IsProgram
<1>2. Keeps(Ends, {<<n, <<>>>>}, n, <<>>)
  BY <1>1 DEF Keeps
<1>3. Kept(Ends, {<<n, <<>>>>})
  BY <1>2 DEF Kept
<1> QED
  BY <1>3 DEF Orderly

LEMMA OrderlyStep ==
    ASSUME NEW Ends, NEW n \in Sights, NEW s, NEW p, IsProgram(p), Fits(n, s), s.op # "choose",
           FALSE \in s.fails => Orderly(Ends, Next2(n, s), p),
           TRUE \in s.fails => \E handled : Caught(<<s>> \o p, handled) /\ Orderly(Ends, n, handled)
    PROVE  Orderly(Ends, n, <<s>> \o p)
<1> DEFINE r == <<s>> \o p
<1>1. IsProgram(r) /\ r # <<>> /\ Head(r) = s /\ Tail(r) = p
  BY StepFirst
<1>0. Kept(Ends, {})
  BY DEF Kept
<1>2. PICK S : Kept(Ends, S) /\ (FALSE \in s.fails => <<Next2(n, s), p>> \in S)
  BY <1>0 DEF Orderly
<1>3. PICK T : /\ Kept(Ends, T)
               /\ TRUE \in s.fails => \E handled : Caught(r, handled) /\ <<n, handled>> \in T
  BY <1>0 DEF Orderly
<1> HIDE DEF r
<1> DEFINE U == (S \cup T) \cup {<<n, r>>}
<1>4. Kept(Ends, S \cup T)
  BY <1>2, <1>3, KeptUnion
<1>5. Kept(Ends, U)
  <2> SUFFICES ASSUME NEW k, NEW q, <<k, q>> \in U
               PROVE  Keeps(Ends, U, k, q)
    BY DEF Kept
  <2>1. CASE <<k, q>> \in S \cup T
    BY <1>4, <2>1, KeepsInMore
  <2>2. CASE k = n /\ q = r
    BY <1>1, <1>2, <1>3, <2>2 DEF Keeps
  <2> QED
    BY <2>1, <2>2
<1> QED
  BY <1>5 DEF Orderly, r

LEMMA OrderlyChoice ==
    ASSUME NEW Ends, NEW n \in Sights, NEW s, NEW p, IsProgram(p), Fits(n, s), s.op = "choose",
           s.fails = {FALSE}, \A i \in DOMAIN s.with : Orderly(Ends, n, s.with[i] \o p)
    PROVE  Orderly(Ends, n, <<s>> \o p)
<1> DEFINE r == <<s>> \o p
           Way(i) == CHOOSE S : Kept(Ends, S) /\ <<n, s.with[i] \o p>> \in S
           Ways == {Way(i) : i \in DOMAIN s.with}
           U == (UNION Ways) \cup {<<n, r>>}
<1>1. IsProgram(r) /\ r # <<>> /\ Head(r) = s /\ Tail(r) = p
  BY StepFirst
<1>2. \A i \in DOMAIN s.with : Kept(Ends, Way(i)) /\ <<n, s.with[i] \o p>> \in Way(i)
  BY DEF Orderly
<1>3. \A i \in DOMAIN s.with : <<n, s.with[i] \o p>> \in U
  BY <1>2
<1>4. \A S \in Ways : Kept(Ends, S) /\ S \subseteq U
  BY <1>2
<1>5. \A t \in U : t = <<n, r>> \/ \E S \in Ways : t \in S
  OBVIOUS
<1>6. <<n, r>> \in U
  OBVIOUS
<1> HIDE DEF r, Ways, U
<1>7. Kept(Ends, U)
  <2> SUFFICES ASSUME NEW k, NEW q, <<k, q>> \in U
               PROVE  Keeps(Ends, U, k, q)
    BY DEF Kept
  <2>1. CASE \E S \in Ways : <<k, q>> \in S
    BY <1>4, <2>1, KeepsInMore
  <2>2. CASE k = n /\ q = r
    BY <1>1, <1>3, <2>2 DEF Keeps
  <2> QED
    BY <1>5, <2>1, <2>2
<1> QED
  BY <1>6, <1>7 DEF Orderly, r

-----------------------------------------------------------------------------
(* Brings: from every sight in A, p goes to one in B, unless it fails in   *)
(* one of Handled.                                                         *)

Caters(Ends, Handled, rest) ==
    Handled # {} => \E handled : Caught(rest, handled) /\ \A n \in Handled : Orderly(Ends, n, handled)

Brings(Handled, A, p, B) ==
    /\ IsProgram(p) /\ \A i \in DOMAIN p : p[i].op # "catch"
    /\ \A Ends, rest :
          /\ IsProgram(rest) /\ Caters(Ends, Handled, rest)
          /\ \A n \in B : Orderly(Ends, n, rest)
          => \A n \in A : Orderly(Ends, n, p \o rest)

LEMMA BringsNowhere == \A Handled, A, B : A \subseteq B => Brings(Handled, A, <<>>, B)
<1>1. IsProgram(<<>>)
  BY DEF IsProgram
<1>2. ASSUME NEW rest, IsProgram(rest) PROVE <<>> \o rest = rest
  BY <1>2, ConcatEmptySeq DEF IsProgram
<1> QED
  BY <1>1, <1>2 DEF Brings

LEMMA BringsOn ==
    ASSUME NEW Handled, NEW A, NEW B, NEW C, NEW p, NEW q, Brings(Handled, A, p, B), Brings(Handled, B, q, C)
    PROVE  Brings(Handled, A, p \o q, C)
<1>1. IsProgram(p) /\ IsProgram(q) /\ IsProgram(p \o q)
  BY ConcatIsProgram DEF Brings
<1>2. \A i \in DOMAIN (p \o q) : (p \o q)[i].op # "catch"
  <2>1. PICK T : p \in Seq(T) /\ q \in Seq(T)
    BY <1>1, ConcatIsProgram
  <2>2. /\ p \o q \in Seq(T) /\ Len(p \o q) = Len(p) + Len(q) /\ Len(p) \in Nat /\ Len(q) \in Nat
        /\ \A j \in 1 .. Len(p \o q) : (p \o q)[j] = IF j <= Len(p) THEN p[j] ELSE q[j - Len(p)]
    BY <2>1
  <2>3. (\A i \in 1 .. Len(p) : p[i].op # "catch") /\ (\A i \in 1 .. Len(q) : q[i].op # "catch")
    BY <2>1 DEF Brings
  <2>4. TAKE i \in DOMAIN (p \o q)
  <2>5. i \in 1 .. Len(p) + Len(q)
    BY <2>2
  <2>6. i <= Len(p) \/ i - Len(p) \in 1 .. Len(q)
    BY <2>2, <2>5
  <2> QED
    BY <2>2, <2>3, <2>5, <2>6
<1>3. ASSUME NEW Ends, NEW rest, IsProgram(rest), Caters(Ends, Handled, rest),
             \A n \in C : Orderly(Ends, n, rest)
      PROVE  \A n \in A : Orderly(Ends, n, (p \o q) \o rest)
  <2>1. \A n \in B : Orderly(Ends, n, q \o rest)
    BY <1>3 DEF Brings
  <2>2. IsProgram(q \o rest)
    BY <1>1, <1>3, ConcatIsProgram
  <2>3. Caters(Ends, Handled, q \o rest)
    BY <1>1, <1>3, CaughtLater DEF Caters, Brings
  <2>4. \A n \in A : Orderly(Ends, n, p \o (q \o rest))
    BY <2>1, <2>2, <2>3 DEF Brings
  <2>5. (p \o q) \o rest = p \o (q \o rest)
    BY <1>1, <1>3, ProgramsAssociate
  <2> QED
    BY <2>4, <2>5
<1> QED
  BY <1>1, <1>2, <1>3 DEF Brings

LEMMA BringsInto ==
    ASSUME NEW Handled, NEW A, NEW p, NEW B, Brings(Handled, A, p, B),
           NEW C, C \subseteq A, NEW D, B \subseteq D
    PROVE  Brings(Handled, C, p, D)
BY DEF Brings

LEMMA CallIsProgram ==
    ASSUME NEW s, s.op # "catch"
    PROVE  IsProgram(<<s>>) /\ \A i \in DOMAIN <<s>> : <<s>>[i].op # "catch"
<1>1. <<s>> \in Seq({s}) /\ DOMAIN <<s>> = {1} /\ <<s>>[1] = s
  OBVIOUS
<1>2. IsProgram(<<s>>)
  BY <1>1 DEF IsProgram
<1> QED
  BY <1>1, <1>2

LEMMA BringsStep ==
    ASSUME NEW Handled, NEW A \in SUBSET Sights, NEW s, NEW B, s.op \notin {"choose", "catch"},
           \A n \in A : /\ Fits(n, s)
                        /\ FALSE \in s.fails => Next2(n, s) \in B
                        /\ TRUE \in s.fails => n \in Handled
    PROVE  Brings(Handled, A, <<s>>, B)
<1>1. IsProgram(<<s>>) /\ \A i \in DOMAIN <<s>> : <<s>>[i].op # "catch"
  BY CallIsProgram
<1>2. ASSUME NEW Ends, NEW rest, IsProgram(rest), Caters(Ends, Handled, rest),
             \A n \in B : Orderly(Ends, n, rest), NEW n \in A
      PROVE  Orderly(Ends, n, <<s>> \o rest)
  <2>1. TRUE \in s.fails => \E handled : Caught(<<s>> \o rest, handled) /\ Orderly(Ends, n, handled)
    BY <1>1, <1>2, CaughtLater DEF Caters
  <2>2. Fits(n, s) /\ n \in Sights /\ (FALSE \in s.fails => Orderly(Ends, Next2(n, s), rest))
    BY <1>2
  <2> QED
    BY <1>2, <2>1, <2>2, OrderlyStep
<1> QED
  BY <1>1, <1>2 DEF Brings

LEMMA BringsChoice ==
    ASSUME NEW Handled, NEW A \in SUBSET Sights, NEW B, NEW alternatives,
           \A i \in DOMAIN alternatives : Brings(Handled, A, alternatives[i], B)
    PROVE  Brings(Handled, A, Choose(alternatives), B)
<1> DEFINE s == [op |-> "choose", on |-> {}, fails |-> {FALSE}, with |-> alternatives]
<1>1. Choose(alternatives) = <<s>>
  BY DEF Choose, Step
<1>2. s.op = "choose" /\ s.fails = {FALSE} /\ s.with = alternatives
  OBVIOUS
<1> HIDE DEF s
<1>3. \A n : Fits(n, s)
  BY <1>2 DEF Fits
<1>4. IsProgram(<<s>>) /\ \A i \in DOMAIN <<s>> : <<s>>[i].op # "catch"
  BY <1>2, CallIsProgram
<1>5. ASSUME NEW Ends, NEW rest, IsProgram(rest), Caters(Ends, Handled, rest),
             \A n \in B : Orderly(Ends, n, rest), NEW n \in A
      PROVE  Orderly(Ends, n, <<s>> \o rest)
  <2>1. \A i \in DOMAIN s.with : Orderly(Ends, n, s.with[i] \o rest)
    BY <1>2, <1>5 DEF Brings
  <2>2. n \in Sights /\ Fits(n, s)
    BY <1>3, <1>5
  <2> QED
    BY <1>2, <1>5, <2>1, <2>2, OrderlyChoice
<1> QED
  BY <1>1, <1>4, <1>5 DEF Brings

\* A body whose failures its handler makes up for.
LEMMA BringsGuarded ==
    ASSUME NEW Handled, NEW Inner, NEW A \in SUBSET Sights, NEW B \in SUBSET Sights, NEW body, NEW handler,
           Brings(Inner, A, body, B), Brings(Handled, Inner, handler, B)
    PROVE  Brings(Handled, A, Guarded(body, handler), B)
<1> DEFINE c == [op |-> "catch", on |-> {}, fails |-> {FALSE}, with |-> handler]
           guarded == body \o <<c>>
<1>1. Guarded(body, handler) = Choose(<<guarded>>)
  BY DEF Guarded, Catch, Step
<1>2. c.op = "catch" /\ c.fails = {FALSE} /\ c.with = handler
  OBVIOUS
<1> HIDE DEF c
<1>3. \A n \in Sights : Fits(n, c) /\ Next2(n, c) = n
  <2> TAKE n \in Sights
  <2>1. Next2(n, c) = Sight(n.host, n.images, n.chain, n.drawing, n.running)
    BY <1>2 DEF Next2, ImagesAfter
  <2>2. Next2(n, c) = n
    BY <2>1 DEF Sights, Sight
  <2> QED
    BY <1>2, <2>2 DEF Fits
<1> DEFINE s == [op |-> "choose", on |-> {}, fails |-> {FALSE}, with |-> <<guarded>>]
<1>4. Choose(<<guarded>>) = <<s>>
  BY DEF Choose, Step
<1>5. s.op = "choose" /\ s.fails = {FALSE} /\ s.with = <<guarded>>
  OBVIOUS
<1> HIDE DEF s
<1>6. \A n : Fits(n, s)
  BY <1>5 DEF Fits
<1>7. IsProgram(<<s>>) /\ \A i \in DOMAIN <<s>> : <<s>>[i].op # "catch"
  BY <1>5, CallIsProgram
<1>8. ASSUME NEW Ends, NEW rest, IsProgram(rest), Caters(Ends, Handled, rest),
             \A n \in B : Orderly(Ends, n, rest), NEW n \in A
      PROVE  Orderly(Ends, n, <<s>> \o rest)
  <2>1. \A b \in B : Orderly(Ends, b, <<c>> \o rest)
    <3> TAKE b \in B
    <3>1. b \in Sights /\ Fits(b, c) /\ Next2(b, c) = b /\ Orderly(Ends, b, rest)
      BY <1>3, <1>8
    <3> QED
      BY <1>2, <1>8, <3>1, OrderlyStep
  <2>2. Caters(Ends, Inner, <<c>> \o rest)
    <3>1. Caught(<<c>> \o rest, handler \o rest)
      BY <1>2, <1>8, CaughtHere
    <3>2. \A k \in Inner : Orderly(Ends, k, handler \o rest)
      BY <1>8 DEF Brings
    <3> QED
      BY <3>1, <3>2 DEF Caters
  <2>3. IsProgram(<<c>>) /\ IsProgram(<<c>> \o rest)
    BY <1>8, StepFirst
  <2>4. Orderly(Ends, n, body \o (<<c>> \o rest))
    BY <1>8, <2>1, <2>2, <2>3 DEF Brings
  <2>5. guarded \o rest = body \o (<<c>> \o rest)
    BY <1>8, <2>3, ProgramsAssociate, SMTT(40) DEF Brings
  <2> HIDE DEF guarded
  <2>6. \A i \in DOMAIN s.with : Orderly(Ends, n, s.with[i] \o rest)
    <3>1. DOMAIN s.with = {1} /\ s.with[1] = guarded
      BY <1>5
    <3> QED
      BY <2>4, <2>5, <3>1, Zenon
  <2>7. n \in Sights /\ Fits(n, s)
    BY <1>6, <1>8
  <2> QED
    BY <1>5, <1>8, <2>6, <2>7, OrderlyChoice
<1> HIDE DEF guarded
<1> QED
  BY <1>1, <1>4, <1>7, <1>8 DEF Brings

\* Parts that each bring one set further, one after the other.
LEMMA BringsFlattened ==
    ASSUME NEW Handled, NEW k \in Nat, NEW parts, parts = [i \in 1 .. k |-> parts[i]], NEW sets,
           \A i \in 1 .. k : Brings(Handled, sets[i - 1], parts[i], sets[i])
    PROVE  Brings(Handled, sets[0], FlattenSeq(parts), sets[k])
<1> DEFINE T == {parts[i] : i \in 1 .. k}
<1>1. parts \in Seq(T) /\ Len(parts) = k
  <2>1. \A i \in 1 .. k : parts[i] \in T
    OBVIOUS
  <2> HIDE DEF T
  <2>2. parts \in [1 .. k -> T]
    BY <2>1
  <2> QED
    BY <2>2, SeqDef, LenProperties
<1> HIDE DEF T
<1>2. CASE k = 0
  <2>1. parts = <<>> /\ FlattenSeq(parts) = parts
    BY <1>1, <1>2 DEF FlattenSeq
  <2>2. FlattenSeq(parts) = <<>>
    BY <2>1
  <2> QED
    BY <1>2, <2>2, BringsNowhere
<1>3. CASE k # 0
  <2> DEFINE flat == CHOOSE f : Joins(f, parts, k)
  <2>1. Joins(flat, parts, k)
    BY JoinsExists
  <2>2. FlattenSeq(parts) = flat[k]
    BY <1>1, <1>3 DEF FlattenSeq, Joins
  <2> HIDE DEF flat
  <2>3. \A i \in 1 .. k : flat[i] = IF i = 1 THEN parts[i] ELSE flat[i - 1] \o parts[i]
    BY <2>1 DEF Joins
  <2> DEFINE Good == {i \in 0 .. k : i = 0 \/ Brings(Handled, sets[0], flat[i], sets[i])}
  <2>4. 0 \in Good
    OBVIOUS
  <2>5. ASSUME NEW i \in 1 .. k, i - 1 \in Good PROVE i \in Good
    <3>1. Brings(Handled, sets[i - 1], parts[i], sets[i])
      OBVIOUS
    <3>2. CASE i = 1
      BY <2>3, <3>1, <3>2
    <3>3. CASE i # 1
      <4>1. flat[i] = flat[i - 1] \o parts[i]
        BY <2>3, <3>3, Zenon
      <4>0. i - 1 # 0
        BY <3>3
      <4>2. Brings(Handled, sets[0], flat[i - 1], sets[i - 1])
        BY <2>5, <4>0
      <4>3. Brings(Handled, sets[0], flat[i], sets[i])
        BY <3>1, <4>1, <4>2, BringsOn, Zenon
      <4> QED
        BY <4>3
    <3> QED
      BY <3>2, <3>3
  <2> HIDE DEF Good
  <2>6. k \in Good
    BY <2>4, <2>5, InductionUpTo
  <2> QED
    BY <1>3, <2>2, <2>6 DEF Good
<1> QED
  BY <1>2, <1>3

-----------------------------------------------------------------------------
(* Calm: programs that tell no sight from another and change none, but     *)
(* that they may wait for the GPU.                                         *)

Cleaned(n) == Sight(n.host, [i \in DOMAIN n.images |-> Available(n.images[i])], n.chain, n.drawing, n.running)

Steady(A) == A \in SUBSET Sights /\ \A n \in A : Cleaned(n) \in A

Calm(p) == \A Handled, A : Steady(A) /\ A \subseteq Handled => Brings(Handled, A, p, A)

\* And do not fail.
Sure(p) == \A Handled, A : Steady(A) => Brings(Handled, A, p, A)

Telling == {"swapViews", "fences", "readback"}

LEMMA SightIs ==
    /\ \A h, im, c, d, r : LET n == Sight(h, im, c, d, r) IN
          n.host = h /\ n.images = im /\ n.chain = c /\ n.drawing = d /\ n.running = r
    /\ \A n \in Sights : n = Sight(n.host, n.images, n.chain, n.drawing, n.running)
BY DEF Sight, Sights

LEMMA CalmStep ==
    ASSUME NEW op \in {"make", "call", "submit", "wait", "drop", "release", "replace", "adopt"},
           NEW on, op = "make" => \A o \in Telling : on # {o}, NEW fails, NEW with
    PROVE  Calm(Step(op, on, fails, with)) /\ (TRUE \notin fails => Sure(Step(op, on, fails, with)))
<1> DEFINE s == [op |-> op, on |-> on, fails |-> fails, with |-> with]
<1>1. s.op = op /\ s.on = on /\ s.fails = fails /\ Step(op, on, fails, with) = <<s>>
  BY DEF Step
<1> HIDE DEF s
<1>2. \A n \in Sights : Fits(n, s) /\ Next2(n, s) \in {n, Cleaned(n)}
  <2> TAKE n \in Sights
  <2>1. Fits(n, s)
    BY <1>1 DEF Fits, Telling
  <2>2. CASE op = "wait"
    <3>1. ImagesAfter(n.images, s) = [i \in DOMAIN n.images |-> Available(n.images[i])]
      BY <1>1, <2>2 DEF ImagesAfter
    <3>2. Next2(n, s) = Cleaned(n)
      BY <1>1, <2>2, <3>1 DEF Next2, Cleaned
    <3> QED
      BY <2>1, <3>2
  <2>3. CASE op # "wait"
    <3>1. ImagesAfter(n.images, s) = n.images
      BY <1>1, <2>3 DEF ImagesAfter
    <3>2. Next2(n, s) = Sight(n.host, n.images, n.chain, n.drawing, n.running)
      BY <1>1, <3>1 DEF Next2, Telling
    <3> QED
      BY <2>1, <3>2, SightIs
  <2> QED
    BY <2>2, <2>3
<1>3. ASSUME NEW Handled, NEW A, Steady(A), TRUE \in fails => A \subseteq Handled
      PROVE  Brings(Handled, A, <<s>>, A)
  <2>1. \A n \in A : Fits(n, s) /\ Next2(n, s) \in A /\ (TRUE \in s.fails => n \in Handled)
    BY <1>1, <1>2, <1>3 DEF Steady
  <2>2. A \in SUBSET Sights /\ s.op \notin {"choose", "catch"}
    BY <1>1, <1>3 DEF Steady
  <2> QED
    BY <2>1, <2>2, BringsStep
<1> QED
  BY <1>1, <1>3, ZenonT(40) DEF Calm, Sure

LEMMA CalmSteps ==
    /\ \A o : o \notin Telling => Calm(Make(o))
    /\ \A o : o \notin Telling => Calm(Own(o))
    /\ \A uses : Calm(Check(uses)) /\ Calm(Surely(uses)) /\ Calm(Submit(uses))
    /\ \A found : Calm(Needed(found))
    /\ \A o : Calm(Drop(o)) /\ Calm(Release(o)) /\ Calm(Replace(o))
    /\ Calm(Wait) /\ Calm(Adopt)
<1>1. \A o : o \notin Telling => \A p \in Telling : {o} # {p}
  OBVIOUS
<1>2. ASSUME NEW o, o \notin Telling PROVE Calm(Make(o)) /\ Calm(Own(o))
  BY <1>1, <1>2, CalmStep DEF Make, Own
<1>3. ASSUME NEW o PROVE Calm(Drop(o)) /\ Calm(Release(o)) /\ Calm(Replace(o))
  BY CalmStep DEF Drop, Release, Replace
<1>4. ASSUME NEW uses PROVE Calm(Check(uses)) /\ Calm(Surely(uses)) /\ Calm(Submit(uses))
  BY CalmStep DEF Check, Surely, Submit
<1>5. ASSUME NEW found PROVE Calm(Needed(found))
  BY CalmStep DEF Needed
<1>6. Calm(Wait) /\ Calm(Adopt)
  BY CalmStep DEF Wait, Adopt
<1> QED
  BY <1>2, <1>3, <1>4, <1>5, <1>6

LEMMA CalmNone == Calm(<<>>)
BY BringsNowhere DEF Calm

LEMMA CalmOn == \A p, q : Calm(p) /\ Calm(q) => Calm(p \o q)
BY BringsOn DEF Calm

LEMMA CalmChoice ==
    ASSUME NEW alternatives, \A i \in DOMAIN alternatives : Calm(alternatives[i])
    PROVE  Calm(Choose(alternatives))
BY BringsChoice DEF Calm, Steady

LEMMA CalmEither ==
    ASSUME NEW p, NEW q, Calm(p), Calm(q)
    PROVE  Calm(Choose(<<p, q>>))
<1>1. DOMAIN <<p, q>> = {1, 2} /\ <<p, q>>[1] = p /\ <<p, q>>[2] = q
  OBVIOUS
<1>2. \A i \in DOMAIN <<p, q>> : Calm(<<p, q>>[i])
  BY <1>1
<1> QED
  BY <1>2, CalmChoice

LEMMA CalmGuarded ==
    ASSUME NEW body, NEW handler, Calm(body), Calm(handler)
    PROVE  Calm(Guarded(body, handler))
<1> SUFFICES ASSUME NEW Handled, NEW A, Steady(A), A \subseteq Handled
             PROVE  Brings(Handled, A, Guarded(body, handler), A)
  BY DEF Calm
<1>1. Brings(A, A, body, A) /\ Brings(Handled, A, handler, A)
  BY DEF Calm
<1>2. A \in SUBSET Sights
  BY DEF Steady
<1> QED
  BY <1>1, <1>2, BringsGuarded

LEMMA SureSteps ==
    /\ Sure(<<>>)
    /\ \A uses : Sure(Surely(uses))
    /\ \A o : Sure(Release(o))
    /\ \A p, q : Sure(p) /\ Sure(q) => Sure(p \o q)
    /\ \A p : Calm(p) => Sure(Guarded(p, <<>>))
<1>1. Sure(<<>>) /\ \A p, q : Sure(p) /\ Sure(q) => Sure(p \o q)
  BY BringsNowhere, BringsOn DEF Sure
<1>2. (\A uses : Sure(Surely(uses))) /\ \A o : Sure(Release(o))
  BY CalmStep DEF Surely, Release
<1>3. ASSUME NEW p, Calm(p), NEW Handled, NEW A, Steady(A) PROVE Brings(Handled, A, Guarded(p, <<>>), A)
  <2>1. A \in SUBSET Sights /\ Brings(A, A, p, A) /\ Brings(Handled, A, <<>>, A)
    BY <1>3, BringsNowhere DEF Calm, Steady
  <2> QED
    BY <2>1, BringsGuarded
<1> QED
  BY <1>1, <1>2, <1>3 DEF Sure

LEMMA SureEach ==
    ASSUME NEW k \in Nat, NEW parts, parts = [i \in 1 .. k |-> parts[i]], \A i \in 1 .. k : Sure(parts[i])
    PROVE  Sure(FlattenSeq(parts))
<1> SUFFICES ASSUME NEW Handled, NEW A, Steady(A)
             PROVE  Brings(Handled, A, FlattenSeq(parts), A)
  BY DEF Sure
<1> DEFINE sets == [i \in 0 .. k |-> A]
<1>1. sets[0] = A /\ sets[k] = A /\ \A i \in 1 .. k : sets[i - 1] = A /\ sets[i] = A
  OBVIOUS
<1> HIDE DEF sets
<1>2. \A i \in 1 .. k : Brings(Handled, sets[i - 1], parts[i], sets[i])
  BY <1>1 DEF Sure
<1>3. Brings(Handled, sets[0], FlattenSeq(parts), sets[k])
  BY <1>2, BringsFlattened
<1> QED
  BY <1>1, <1>3

\* What only goes on if found.
LEMMA BringsNeeded ==
    ASSUME NEW Handled, NEW A \in SUBSET Sights, A \subseteq Handled, NEW found \in BOOLEAN
    PROVE  Brings(Handled, A, Needed(found), {n \in A : found})
<1> DEFINE s == [op |-> "call", on |-> {}, fails |-> {~found}, with |-> <<>>]
<1>1. s.op = "call" /\ s.fails = {~found} /\ Needed(found) = <<s>>
  BY DEF Needed, Step
<1> HIDE DEF s
<1>2. \A n \in A : Fits(n, s) /\ Next2(n, s) = n
  <2> TAKE n \in A
  <2>1. ImagesAfter(n.images, s) = n.images
    BY <1>1 DEF ImagesAfter
  <2>2. Next2(n, s) = Sight(n.host, n.images, n.chain, n.drawing, n.running)
    BY <1>1, <2>1 DEF Next2
  <2> QED
    BY <1>1, <2>2, SightIs DEF Fits
<1> DEFINE B == {n \in A : found}
<1>3. \A n \in A : FALSE \in s.fails => n \in B
  BY <1>1
<1> HIDE DEF B
<1>4. Brings(Handled, A, <<s>>, B)
  BY <1>1, <1>2, <1>3, BringsStep
<1> QED
  BY <1>1, <1>4 DEF B

-----------------------------------------------------------------------------
(* Calm functions.                                                         *)

LEMMA CalmBuffers ==
    /\ \A h, o, properties : o \notin Telling => Calm(CreateBufferResource(h, o, properties))
    /\ \A o : Calm(UploadToDeviceMemory(o))
    /\ Calm(BeginSingleTimeCommands)
    /\ \A uses : Calm(EndSingleTimeCommands(uses))
    /\ \A p, q : Calm(CopyBuffer(p, q))
    /\ \A h, o : o \notin Telling => Calm(CreateDeviceLocalBuffer(h, o))
<1>1. ASSUME NEW h, NEW o, NEW properties, o \notin Telling PROVE Calm(CreateBufferResource(h, o, properties))
  BY <1>1, CalmSteps, CalmOn DEF CreateBufferResource
<1>2. ASSUME NEW o PROVE Calm(UploadToDeviceMemory(o))
  BY CalmSteps DEF UploadToDeviceMemory
<1>3. Calm(BeginSingleTimeCommands)
  BY CalmSteps, CalmOn DEF BeginSingleTimeCommands, Telling
<1>4. ASSUME NEW uses PROVE Calm(EndSingleTimeCommands(uses))
  BY CalmSteps, CalmOn DEF EndSingleTimeCommands
<1>5. ASSUME NEW p, NEW q PROVE Calm(CopyBuffer(p, q))
  BY <1>3, <1>4, CalmSteps, CalmOn DEF CopyBuffer
<1>6. ASSUME NEW h, NEW o, o \notin Telling PROVE Calm(CreateDeviceLocalBuffer(h, o))
  <2>1. "staging" \notin Telling
    BY DEF Telling
  <2> QED
    BY <1>1, <1>2, <1>5, <1>6, <2>1, CalmSteps, CalmOn DEF CreateDeviceLocalBuffer
<1> QED
  BY <1>1, <1>2, <1>3, <1>4, <1>5, <1>6

LEMMA CalmBoot ==
    /\ Calm(BootPresentation)
    /\ \A h : Calm(BootDebugUi(h)) /\ Calm(AcquireMesh(h)) /\ Calm(CreateUniformBuffer(h))
    /\ Calm(InitializeDebugUiBackend) /\ Calm(StartIfRequested)
    /\ Calm(CreateGraphicsPipeline)
<1>1. {"server", "window", "ui", "backend", "channel", "shaders", "pipeline", "vertices", "indices",
       "uniforms"} \cap Telling = {}
  BY DEF Telling
<1>2. Calm(BootPresentation)
  BY <1>1, CalmSteps, CalmOn DEF BootPresentation
<1>3. ASSUME NEW h PROVE Calm(BootDebugUi(h))
  <2>1. Calm(Surely({"window"}) \o Own("ui") \o Adopt)
    BY <1>1, CalmSteps, CalmOn
  <2> QED
    BY <2>1, CalmNone DEF BootDebugUi
<1>4. ASSUME NEW h PROVE Calm(AcquireMesh(h)) /\ Calm(CreateUniformBuffer(h))
  <2>1. Calm(LoadMesh)
    BY CalmSteps DEF LoadMesh
  <2> QED
    BY <1>1, <2>1, CalmBuffers, CalmSteps, CalmOn DEF AcquireMesh, CreateUniformBuffer
<1>5. Calm(InitializeDebugUiBackend)
  <2>1. Calm(Make("backend") \o Adopt) /\ Calm(Release("ui"))
    BY <1>1, CalmSteps, CalmOn
  <2> QED
    BY <2>1, CalmGuarded DEF InitializeDebugUiBackend
<1>6. Calm(StartIfRequested)
  <2>1. Calm(Make("channel") \o Adopt)
    BY <1>1, CalmSteps, CalmOn
  <2>2. Calm(Guarded(Make("channel") \o Adopt, <<>>))
    BY <2>1, CalmNone, CalmGuarded
  <2> QED
    BY <2>2, CalmNone, CalmEither DEF StartIfRequested
<1>7. Calm(CreateGraphicsPipeline)
  <2>1. Calm(LoadShaderModule)
    BY <1>1, CalmSteps, CalmOn DEF LoadShaderModule
  <2> QED
    BY <1>1, <2>1, CalmSteps, CalmOn DEF CreateGraphicsPipeline
<1> QED
  BY <1>2, <1>3, <1>4, <1>5, <1>6, <1>7

LEMMA SureShutdown == \A has : Sure(Shutdown(has))
<1> SUFFICES ASSUME NEW has PROVE Sure(Shutdown(has))
  OBVIOUS
<1>0. Sure(Teardown)
  <2>1. Sure(Guarded(Wait, <<>>))
    BY CalmSteps, SureSteps
  <2> QED
    BY <2>1, SureSteps DEF Teardown
<1>1. Sure(ReleaseMembers)
  <2> DEFINE parts == [i \in DOMAIN Members |-> Release(Reverse(Members)[i])]
  <2>1. DOMAIN Members = 1 .. 26
    BY DEF Members
  <2>2. parts = [i \in 1 .. 26 |-> parts[i]] /\ \A i \in 1 .. 26 : Sure(parts[i])
    BY <2>1, SureSteps
  <2> HIDE DEF parts
  <2>3. Sure(FlattenSeq(parts))
    BY <2>2, SureEach
  <2> QED
    BY <2>3 DEF parts, ReleaseMembers
<1>2. Sure(Teardown \o ReleaseMembers) /\ Sure(Surely({"ui"}) \o Release("ui"))
  BY <1>1, <1>0, SureSteps
<1>3. Sure(ReleaseWindowServer)
  BY SureSteps DEF ReleaseWindowServer
<1> DEFINE renderer == IF "fences" \in has THEN Teardown \o ReleaseMembers ELSE <<>>
           ui == IF "ui" \in has THEN Surely({"ui"}) \o Release("ui") ELSE <<>>
<1>4. Sure(renderer) /\ Sure(ui)
  BY <1>2, SureSteps
<1>5. Shutdown(has) = Release("channel") \o Release("app") \o Release("ecs") \o renderer \o ui
                      \o ReleaseWindowServer
  BY DEF Shutdown
<1> HIDE DEF renderer, ui
<1> QED
  BY <1>3, <1>4, <1>5, SureSteps

\* What a frame does besides drawing.
LEMMA CalmFrame ==
    /\ \A has : Calm(BeginFrame(has)) /\ Calm(EndFrame(has)) /\ Calm(SetCursorShape(has))
    /\ \A h, has : Calm(SyncMeshCatalog(h, has))
<1>1. {"uiFrame", "cursor"} \cap Telling = {}
  BY DEF Telling
<1>2. ASSUME NEW has PROVE Calm(BeginFrame(has))
  <2>1. Calm(Surely({"window"} \cup ({"backend"} \cap has)) \o Own("uiFrame"))
    BY <1>1, CalmSteps, CalmOn
  <2> QED
    BY <2>1, CalmNone DEF BeginFrame
<1>3. ASSUME NEW has PROVE Calm(EndFrame(has))
  <2>1. Calm(Surely({"uiFrame"}) \o Drop("uiFrame"))
    BY <1>1, CalmSteps, CalmOn
  <2> QED
    BY <2>1, CalmNone DEF EndFrame
<1>4. ASSUME NEW has PROVE Calm(SetCursorShape(has))
  <2> DEFINE shape == IF "cursor" \in has THEN Surely({"cursor"}) ELSE Own("cursor") \o Adopt
  <2>1. Calm(Own("cursor") \o Adopt) /\ Calm(Surely({"cursor"}))
    BY <1>1, CalmSteps, CalmOn
  <2>2. Calm(shape)
    BY <2>1
  <2> HIDE DEF shape
  <2>3. Calm(Choose(<<<<>>, shape>>))
    BY <2>2, CalmNone, CalmEither
  <2> QED
    BY <2>3, CalmNone DEF SetCursorShape, shape
<1>5. ASSUME NEW h, NEW has PROVE Calm(SyncMeshCatalog(h, has))
  <2>1. Calm(Guarded(AcquireMesh(h), <<>>))
    BY CalmBoot, CalmNone, CalmGuarded
  <2>2. Calm(Choose(<<<<>>, Guarded(AcquireMesh(h), <<>>)>>))
    BY <2>1, CalmNone, CalmEither
  <2> QED
    BY <2>2, CalmNone DEF SyncMeshCatalog
<1> QED
  BY <1>2, <1>3, <1>4, <1>5

-----------------------------------------------------------------------------
(* Views: sets of sights by what the attachments and the chain's image     *)
(* look like at least, and what the texture's levels are exactly.          *)

\* One of the layouts, visible to these accesses, with no other write pending.
Look(layouts, visible, dirty) == [layouts |-> layouts, visible |-> visible, dirty |-> dirty]

Shows(image, look, c) ==
    /\ image.layout \in look.layouts /\ look.visible \subseteq image.visible
    /\ image.dirty \subseteq look.dirty
    /\ \A i \in 1..2 : c.choice.extent[i] <= image.extent[i]

Viewed(h, c, looks, levels, fact) ==
    {n \in Sights :
        /\ fact /\ n.host = h /\ n.chain = c
        /\ \A o \in DOMAIN looks : <<o, 0>> \in DOMAIN n.images /\ Shows(n.images[<<o, 0>>], looks[o], c)
        /\ \A l \in DOMAIN levels : /\ <<"texture", l>> \in DOMAIN n.images
                                    /\ n.images[<<"texture", l>>] = levels[l]}

LEMMA ViewedMore ==
    ASSUME NEW h, NEW c, NEW looks, NEW levels, NEW fact \in BOOLEAN,
           NEW looks2, \A o \in DOMAIN looks2 : /\ o \in DOMAIN looks
                                                /\ looks[o].layouts \subseteq looks2[o].layouts
                                                /\ looks2[o].visible \subseteq looks[o].visible
                                                /\ looks[o].dirty \subseteq looks2[o].dirty,
           NEW levels2, \A l \in DOMAIN levels2 : l \in DOMAIN levels /\ levels2[l] = levels[l],
           NEW fact2 \in BOOLEAN, fact => fact2
    PROVE  Viewed(h, c, looks, levels, fact) \subseteq Viewed(h, c, looks2, levels2, fact2)
<1> SUFFICES ASSUME NEW n \in Viewed(h, c, looks, levels, fact)
             PROVE  n \in Viewed(h, c, looks2, levels2, fact2)
  OBVIOUS
<1>1. ASSUME NEW o \in DOMAIN looks2
      PROVE  <<o, 0>> \in DOMAIN n.images /\ Shows(n.images[<<o, 0>>], looks2[o], c)
  <2>1. <<o, 0>> \in DOMAIN n.images /\ Shows(n.images[<<o, 0>>], looks[o], c)
    BY DEF Viewed
  <2> QED
    BY <2>1 DEF Shows
<1>2. \A l \in DOMAIN levels2 : /\ <<"texture", l>> \in DOMAIN n.images
                                /\ n.images[<<"texture", l>>] = levels2[l]
  BY DEF Viewed
<1> QED
  BY <1>1, <1>2 DEF Viewed

LEMMA ImagesAre ==
    /\ \A n \in Sights : /\ n.images \in [DOMAIN n.images -> ImageStates]
                         /\ DOMAIN n.images \subseteq Shown \X Nat
    /\ \A n \in Sights : \A im : im \in [DOMAIN im -> ImageStates] /\ DOMAIN im \subseteq Shown \X Nat
          => Sight(n.host, im, n.chain, n.drawing, n.running) \in Sights
<1>1. ASSUME NEW n \in Sights
      PROVE  n.images \in [DOMAIN n.images -> ImageStates] /\ DOMAIN n.images \subseteq Shown \X Nat
  <2>1. PICK D \in SUBSET (Shown \X Nat) : n.images \in [D -> ImageStates]
    BY DEF Sights, ImageSets
  <2> QED
    BY <2>1
<1>2. ASSUME NEW n \in Sights, NEW im, im \in [DOMAIN im -> ImageStates], DOMAIN im \subseteq Shown \X Nat
      PROVE  Sight(n.host, im, n.chain, n.drawing, n.running) \in Sights
  <2>1. im \in ImageSets
    BY <1>2 DEF ImageSets
  <2> QED
    BY <2>1 DEF Sights, Sight
<1> QED
  BY <1>1, <1>2

LEMMA AvailableIs ==
    ASSUME NEW image \in ImageStates
    PROVE  /\ Available(image) \in ImageStates
           /\ Available(image).layout = image.layout /\ Available(image).visible = image.visible
           /\ Available(image).extent = image.extent /\ Available(image).dirty = {}
           /\ image.dirty = {} => Available(image) = image
BY DEF Available, ImageStates

Dry(look) == Look(look.layouts, look.visible, {})

\* After a wait nothing is pending.
LEMMA CleanedViewed ==
    ASSUME NEW h, NEW c, NEW looks, NEW levels, NEW fact \in BOOLEAN,
           \A l \in DOMAIN levels : levels[l].dirty = {},
           NEW n \in Viewed(h, c, looks, levels, fact)
    PROVE  Cleaned(n) \in Viewed(h, c, [o \in DOMAIN looks |-> Dry(looks[o])], levels, fact)
<1> DEFINE im == [i \in DOMAIN n.images |-> Available(n.images[i])]
           k == Cleaned(n)
<1>0. n \in Sights /\ fact /\ n.host = h /\ n.chain = c
  BY DEF Viewed
<1>1. /\ \A i \in DOMAIN n.images : n.images[i] \in ImageStates
      /\ DOMAIN n.images \subseteq Shown \X Nat /\ DOMAIN im = DOMAIN n.images
      /\ \A i \in DOMAIN n.images : im[i] = Available(n.images[i])
  BY <1>0, ImagesAre
<1>2. im \in [DOMAIN im -> ImageStates]
  BY <1>1, AvailableIs
<1>3. /\ k \in Sights /\ k.host = h /\ k.chain = c /\ k.images = im
  BY <1>0, <1>1, <1>2, ImagesAre, SightIs DEF Cleaned
<1> HIDE DEF k, im
<1> DEFINE dry == [o \in DOMAIN looks |-> Dry(looks[o])]
<1>4. ASSUME NEW o \in DOMAIN looks
      PROVE  <<o, 0>> \in DOMAIN im /\ Shows(im[<<o, 0>>], dry[o], c)
  <2> DEFINE i == <<o, 0>>
  <2>1. i \in DOMAIN n.images /\ Shows(n.images[i], looks[o], c)
    BY DEF Viewed
  <2>2. dry[o].layouts = looks[o].layouts /\ dry[o].visible = looks[o].visible /\ dry[o].dirty = {}
    BY DEF Dry, Look
  <2> HIDE DEF i, dry
  <2>3. /\ im[i].layout = n.images[i].layout /\ im[i].visible = n.images[i].visible
        /\ im[i].extent = n.images[i].extent /\ im[i].dirty = {}
    BY <1>1, <2>1, AvailableIs
  <2>4. Shows(im[i], dry[o], c)
    BY <2>1, <2>2, <2>3 DEF Shows
  <2> QED
    BY <1>1, <2>1, <2>4 DEF i
<1>5. ASSUME NEW l \in DOMAIN levels
      PROVE  <<"texture", l>> \in DOMAIN im /\ im[<<"texture", l>>] = levels[l]
  <2> DEFINE i == <<"texture", l>>
  <2>1. i \in DOMAIN n.images /\ n.images[i] = levels[l]
    BY DEF Viewed
  <2> HIDE DEF i
  <2>2. im[i] = levels[l]
    BY <1>1, <2>1, AvailableIs
  <2> QED
    BY <1>1, <2>1, <2>2 DEF i
<1>6. DOMAIN dry = DOMAIN looks
  OBVIOUS
<1> HIDE DEF dry
<1>7. k \in Viewed(h, c, dry, levels, fact)
  BY <1>0, <1>3, <1>4, <1>5, <1>6 DEF Viewed
<1> QED
  BY <1>7 DEF dry, k

LEMMA ViewedSteady ==
    ASSUME NEW h, NEW c, NEW looks, NEW levels, NEW fact \in BOOLEAN, \A l \in DOMAIN levels : levels[l].dirty = {}
    PROVE  Steady(Viewed(h, c, looks, levels, fact))
<1> DEFINE dry == [o \in DOMAIN looks |-> Dry(looks[o])]
<1>1. \A n \in Viewed(h, c, looks, levels, fact) : Cleaned(n) \in Viewed(h, c, dry, levels, fact)
  BY CleanedViewed
<1>2. Viewed(h, c, dry, levels, fact) \subseteq Viewed(h, c, looks, levels, fact)
  <2>1. \A o \in DOMAIN looks : /\ o \in DOMAIN dry /\ dry[o].layouts = looks[o].layouts
                                /\ dry[o].visible = looks[o].visible /\ dry[o].dirty = {}
    BY DEF Dry, Look
  <2> HIDE DEF dry
  <2>2. \A o \in DOMAIN looks : /\ o \in DOMAIN dry /\ dry[o].layouts \subseteq looks[o].layouts
                                /\ looks[o].visible \subseteq dry[o].visible
                                /\ dry[o].dirty \subseteq looks[o].dirty
    BY <2>1
  <2> QED
    BY <2>2, ViewedMore
<1>3. Viewed(h, c, looks, levels, fact) \in SUBSET Sights
  BY DEF Viewed
<1> HIDE DEF dry
<1> QED
  BY <1>1, <1>2, <1>3 DEF Steady

LEMMA PutSight ==
    ASSUME NEW n \in Sights, NEW i \in Shown \X Nat, NEW v \in ImageStates
    PROVE  LET k == Sight(n.host, Put(n.images, i, v), n.chain, n.drawing, n.running) IN
           /\ k \in Sights /\ k.host = n.host /\ k.chain = n.chain
           /\ k.images = Put(n.images, i, v)
<1> DEFINE im == Put(n.images, i, v)
<1>1. /\ \A j \in DOMAIN n.images : n.images[j] \in ImageStates
      /\ DOMAIN n.images \subseteq Shown \X Nat
  BY ImagesAre
<1>2. DOMAIN im \subseteq Shown \X Nat /\ \A j \in DOMAIN im : im[j] \in ImageStates
  BY <1>1 DEF Put
<1>3. im = [j \in DOMAIN im |-> im[j]]
  BY DEF Put
<1> HIDE DEF im
<1>4. im \in [DOMAIN im -> ImageStates]
  BY <1>2, <1>3
<1>5. Sight(n.host, im, n.chain, n.drawing, n.running) \in Sights
  BY <1>2, <1>4, ImagesAre
<1> QED
  BY <1>5, SightIs DEF im

\* One attachment, or the chain's image, changes.
LEMMA PutLook ==
    ASSUME NEW h, NEW c, NEW looks, NEW levels, NEW fact \in BOOLEAN, NEW n \in Viewed(h, c, looks, levels, fact),
           NEW o \in Shown, o # "texture", NEW v \in ImageStates, NEW look, Shows(v, look, c)
    PROVE  Sight(n.host, Put(n.images, <<o, 0>>, v), n.chain, n.drawing, n.running)
              \in Viewed(h, c, Put(looks, o, look), levels, fact)
<1> DEFINE i == <<o, 0>>
           k == Sight(n.host, Put(n.images, i, v), n.chain, n.drawing, n.running)
           im == k.images
           new == Put(looks, o, look)
<1>0. n \in Sights /\ fact /\ n.host = h /\ n.chain = c /\ i \in Shown \X Nat
  BY DEF Viewed
<1>1. k \in Sights /\ k.host = h /\ k.chain = c /\ im = Put(n.images, i, v)
  BY <1>0, PutSight, Zenon
<1> HIDE DEF k
<1>2. /\ DOMAIN im = DOMAIN n.images \cup {i} /\ im[i] = v
      /\ \A j \in DOMAIN n.images : j # i => im[j] = n.images[j]
  BY <1>1 DEF Put
<1>3. DOMAIN new = DOMAIN looks \cup {o} /\ new[o] = look /\ \A p \in DOMAIN looks : p # o => new[p] = looks[p]
  BY DEF Put
<1> HIDE DEF new, im
<1>4. ASSUME NEW p \in DOMAIN new
      PROVE  <<p, 0>> \in DOMAIN im /\ Shows(im[<<p, 0>>], new[p], c)
  <2>1. CASE p = o
    BY <1>2, <1>3, <2>1
  <2>2. CASE p # o
    <3>1. p \in DOMAIN looks /\ <<p, 0>> # i
      BY <1>3, <2>2
    <3>2. <<p, 0>> \in DOMAIN n.images /\ Shows(n.images[<<p, 0>>], looks[p], c)
      BY <3>1 DEF Viewed
    <3> HIDE DEF i
    <3> QED
      BY <1>2, <1>3, <2>2, <3>1, <3>2
  <2> QED
    BY <2>1, <2>2
<1>5. ASSUME NEW l \in DOMAIN levels
      PROVE  <<"texture", l>> \in DOMAIN im /\ im[<<"texture", l>>] = levels[l]
  <2>1. <<"texture", l>> # i
    OBVIOUS
  <2>2. <<"texture", l>> \in DOMAIN n.images /\ n.images[<<"texture", l>>] = levels[l]
    BY DEF Viewed
  <2> HIDE DEF i
  <2> QED
    BY <1>2, <2>1, <2>2
<1>6. k \in Viewed(h, c, new, levels, fact)
  BY <1>0, <1>1, <1>4, <1>5 DEF Viewed, im
<1> QED
  BY <1>6 DEF k, new

\* One level of the texture changes.
LEMMA PutLevel ==
    ASSUME NEW h, NEW c, NEW looks, NEW levels, NEW fact \in BOOLEAN, NEW n \in Viewed(h, c, looks, levels, fact),
           "texture" \notin DOMAIN looks, NEW l \in Nat, NEW v \in ImageStates
    PROVE  Sight(n.host, Put(n.images, <<"texture", l>>, v), n.chain, n.drawing, n.running)
              \in Viewed(h, c, looks, Put(levels, l, v), fact)
<1> DEFINE i == <<"texture", l>>
           k == Sight(n.host, Put(n.images, i, v), n.chain, n.drawing, n.running)
           im == k.images
           new == Put(levels, l, v)
<1>0. n \in Sights /\ fact /\ n.host = h /\ n.chain = c /\ i \in Shown \X Nat
  <2>1. i \in Shown \X Nat
    BY DEF Shown
  <2> QED
    BY <2>1 DEF Viewed
<1>1. k \in Sights /\ k.host = h /\ k.chain = c /\ im = Put(n.images, i, v)
  BY <1>0, PutSight, Zenon
<1> HIDE DEF k
<1>2. /\ DOMAIN im = DOMAIN n.images \cup {i} /\ im[i] = v
      /\ \A j \in DOMAIN n.images : j # i => im[j] = n.images[j]
  BY <1>1 DEF Put
<1>3. DOMAIN new = DOMAIN levels \cup {l} /\ new[l] = v /\ \A p \in DOMAIN levels : p # l => new[p] = levels[p]
  BY DEF Put
<1> HIDE DEF new, im
<1>4. ASSUME NEW p \in DOMAIN new
      PROVE  <<"texture", p>> \in DOMAIN im /\ im[<<"texture", p>>] = new[p]
  <2>1. CASE p = l
    BY <1>2, <1>3, <2>1
  <2>2. CASE p # l
    <3>1. p \in DOMAIN levels /\ <<"texture", p>> # i
      BY <1>3, <2>2
    <3>2. <<"texture", p>> \in DOMAIN n.images /\ n.images[<<"texture", p>>] = levels[p]
      BY <3>1 DEF Viewed
    <3> HIDE DEF i
    <3> QED
      BY <1>2, <1>3, <2>2, <3>1, <3>2
  <2> QED
    BY <2>1, <2>2
<1>5. ASSUME NEW o \in DOMAIN looks
      PROVE  <<o, 0>> \in DOMAIN im /\ Shows(im[<<o, 0>>], looks[o], c)
  <2>1. <<o, 0>> # i
    OBVIOUS
  <2>2. <<o, 0>> \in DOMAIN n.images /\ Shows(n.images[<<o, 0>>], looks[o], c)
    BY DEF Viewed
  <2> HIDE DEF i
  <2> QED
    BY <1>2, <2>1, <2>2
<1>6. k \in Viewed(h, c, looks, new, fact)
  BY <1>0, <1>1, <1>4, <1>5 DEF Viewed, im
<1> QED
  BY <1>6 DEF k, new

-----------------------------------------------------------------------------
(* The steps that access images or depend on a choice.                     *)

LEMMA BringsImage ==
    ASSUME NEW H, NEW h, NEW c, NEW looks, NEW levels, NEW fact \in BOOLEAN,
           NEW o \in Shown \ {"texture"}, NEW extent \in [1..2 -> Nat],
           \A i \in 1..2 : c.choice.extent[i] <= extent[i]
    PROVE  Brings(H, Viewed(h, c, looks, levels, fact), Image(o, 0, extent),
                  Viewed(h, c, Put(looks, o, Look({"undefined"}, {}, {})), levels, fact))
<1> DEFINE with == [image |-> <<o, 0>>, extent |-> extent]
           s == [op |-> "image", on |-> {o}, fails |-> {FALSE}, with |-> with]
           look == Look({"undefined"}, {}, {})
           v == NewImage(extent)
           A == Viewed(h, c, looks, levels, fact)
           B == Viewed(h, c, Put(looks, o, look), levels, fact)
<1>1. s.op = "image" /\ s.fails = {FALSE} /\ s.with = with /\ Image(o, 0, extent) = <<s>>
  BY DEF Image, Step
<1>2. with.image = <<o, 0>> /\ with.extent = extent /\ <<o, 0>> \in Shown \X Nat
  OBVIOUS
<1>3. v \in ImageStates /\ Shows(v, look, c)
  BY DEF NewImage, ImageStates, Layouts, Shows, Look
<1> HIDE DEF s, with, look, v
<1>4. ASSUME NEW n \in A PROVE Fits(n, s) /\ Next2(n, s) \in B
  <2>1. Fits(n, s)
    BY <1>1, <1>2 DEF Fits
  <2>2. ImagesAfter(n.images, s) = Put(n.images, <<o, 0>>, v)
    BY <1>1, <1>2 DEF ImagesAfter, v
  <2>3. Next2(n, s) = Sight(n.host, Put(n.images, <<o, 0>>, v), n.chain, n.drawing, n.running)
    BY <1>1, <2>2 DEF Next2
  <2> QED
    BY <1>3, <2>1, <2>3, PutLook
<1>5. A \in SUBSET Sights
  BY DEF Viewed
<1> HIDE DEF A, B
<1>6. Brings(H, A, <<s>>, B)
  BY <1>1, <1>4, <1>5, BringsStep
<1> QED
  BY <1>1, <1>6 DEF A, B, look

LEMMA BringsTransition ==
    ASSUME NEW H, NEW h, NEW c, NEW looks, NEW levels, NEW fact \in BOOLEAN,
           NEW o \in Shown \ {"texture"}, o \in DOMAIN looks, NEW from, NEW to \in Layouts, NEW src,
           NEW dst \in SUBSET Accesses,
           from = "undefined" \/ looks[o].layouts \subseteq {from}, looks[o].dirty \subseteq src
    PROVE  Brings(H, Viewed(h, c, looks, levels, fact), TransitionImageLayout(o, 0, from, to, src, dst),
                  Viewed(h, c, Put(looks, o, Look({to}, dst, IF dst = {} THEN {"transition"} ELSE {})), levels, fact))
<1> DEFINE with == [image |-> <<o, 0>>, from |-> from, to |-> to, src |-> src, dst |-> dst]
           s == [op |-> "transition", on |-> {o}, fails |-> {FALSE}, with |-> with]
           look == Look({to}, dst, IF dst = {} THEN {"transition"} ELSE {})
           A == Viewed(h, c, looks, levels, fact)
           B == Viewed(h, c, Put(looks, o, look), levels, fact)
           i == <<o, 0>>
<1>1. s.op = "transition" /\ s.fails = {FALSE} /\ s.with = with
      /\ TransitionImageLayout(o, 0, from, to, src, dst) = <<s>>
  BY DEF TransitionImageLayout, Step
<1>2. with.image = i /\ with.from = from /\ with.to = to /\ with.src = src /\ with.dst = dst
  OBVIOUS
<1> HIDE DEF s, with
<1>3. ASSUME NEW n \in A PROVE Fits(n, s) /\ Next2(n, s) \in B
  <2> DEFINE image == n.images[i]
             v == Transitioned(image, with)
  <2>1. i \in DOMAIN n.images /\ Shows(image, looks[o], c) /\ n \in Sights
    BY DEF Viewed
  <2>2. image \in ImageStates
    BY <2>1, ImagesAre
  <2>3. image.layout \in looks[o].layouts /\ image.dirty \subseteq looks[o].dirty
        /\ \A j \in 1..2 : c.choice.extent[j] <= image.extent[j]
    BY <2>1 DEF Shows
  <2> HIDE DEF image
  <2>4. TransitionAllowed(image, with)
    BY <1>2, <2>3 DEF TransitionAllowed
  <2>5. v \in ImageStates
    BY <1>2, <2>2 DEF Transitioned, ImageStates, Accesses
  <2>6. /\ v.layout = to /\ v.visible = dst /\ v.dirty = IF dst = {} THEN {"transition"} ELSE {}
        /\ v.extent = image.extent
    BY <1>2, <2>2 DEF Transitioned, ImageStates
  <2> HIDE DEF v
  <2>7. Shows(v, look, c)
    BY <2>3, <2>6 DEF Shows, Look
  <2>8. Fits(n, s)
    BY <1>1, <1>2, <2>1, <2>4 DEF Fits, image
  <2>9. ImagesAfter(n.images, s) = Put(n.images, i, v)
    BY <1>1, <1>2 DEF ImagesAfter, v, image
  <2>10. Next2(n, s) = Sight(n.host, Put(n.images, i, v), n.chain, n.drawing, n.running)
    BY <1>1, <2>9 DEF Next2
  <2> HIDE DEF look
  <2> QED
    BY <2>5, <2>7, <2>8, <2>10, PutLook
<1>4. A \in SUBSET Sights
  BY DEF Viewed
<1> HIDE DEF A, B
<1>5. Brings(H, A, <<s>>, B)
  BY <1>1, <1>3, <1>4, BringsStep
<1> QED
  BY <1>1, <1>5 DEF A, B, look

LEMMA BringsUse ==
    ASSUME NEW H, NEW h, NEW c, NEW looks, NEW levels, NEW fact \in BOOLEAN,
           NEW o \in Shown \ {"texture"}, o \in DOMAIN looks, NEW layout, NEW access \in SUBSET Accesses,
           looks[o].layouts \subseteq {layout}, access \subseteq looks[o].visible, looks[o].dirty = {}
    PROVE  Brings(H, Viewed(h, c, looks, levels, fact), Use(o, 0, layout, access, c.choice.extent),
                  Viewed(h, c, Put(looks, o, Look({layout}, looks[o].visible, access \cap Writes)), levels, fact))
<1> DEFINE with == [image |-> <<o, 0>>, layout |-> layout, access |-> access, extent |-> c.choice.extent]
           s == [op |-> "use", on |-> {o}, fails |-> {FALSE}, with |-> with]
           look == Look({layout}, looks[o].visible, access \cap Writes)
           A == Viewed(h, c, looks, levels, fact)
           B == Viewed(h, c, Put(looks, o, look), levels, fact)
           i == <<o, 0>>
<1>1. s.op = "use" /\ s.fails = {FALSE} /\ s.with = with
      /\ Use(o, 0, layout, access, c.choice.extent) = <<s>>
  BY DEF Use, Step
<1>2. with.image = i /\ with.layout = layout /\ with.access = access /\ with.extent = c.choice.extent
  OBVIOUS
<1> HIDE DEF s, with
<1>3. ASSUME NEW n \in A PROVE Fits(n, s) /\ Next2(n, s) \in B
  <2> DEFINE image == n.images[i]
             v == Used(image, with)
  <2>1. i \in DOMAIN n.images /\ Shows(image, looks[o], c) /\ n \in Sights
    BY DEF Viewed
  <2>2. image \in ImageStates
    BY <2>1, ImagesAre
  <2>3. image.layout \in looks[o].layouts /\ image.dirty \subseteq looks[o].dirty
        /\ looks[o].visible \subseteq image.visible
        /\ \A j \in 1..2 : c.choice.extent[j] <= image.extent[j]
    BY <2>1 DEF Shows
  <2> HIDE DEF image
  <2>4. UseAllowed(image, with)
    BY <1>2, <2>3 DEF UseAllowed
  <2>5. v \in ImageStates
    BY <1>2, <2>2 DEF Used, ImageStates
  <2>6. /\ v.layout = image.layout /\ v.visible = image.visible /\ v.dirty = access \cap Writes
        /\ v.extent = image.extent
    BY <1>2, <2>2 DEF Used, ImageStates
  <2> HIDE DEF v
  <2>7. Shows(v, look, c)
    BY <2>3, <2>6 DEF Shows, Look
  <2>8. Fits(n, s)
    BY <1>1, <1>2, <2>1, <2>4 DEF Fits, image
  <2>9. ImagesAfter(n.images, s) = Put(n.images, i, v)
    BY <1>1, <1>2 DEF ImagesAfter, v, image
  <2>10. Next2(n, s) = Sight(n.host, Put(n.images, i, v), n.chain, n.drawing, n.running)
    BY <1>1, <2>9 DEF Next2
  <2> HIDE DEF look
  <2> QED
    BY <2>5, <2>7, <2>8, <2>10, PutLook
<1>4. A \in SUBSET Sights
  BY DEF Viewed
<1> HIDE DEF A, B
<1>5. Brings(H, A, <<s>>, B)
  BY <1>1, <1>3, <1>4, BringsStep
<1> QED
  BY <1>1, <1>5 DEF A, B, look

\* Reading with no write pending changes nothing.
LEMMA BringsPresent ==
    ASSUME NEW H, NEW h, NEW c, NEW looks, NEW levels, NEW fact \in BOOLEAN,
           "swapChain" \in DOMAIN looks, looks["swapChain"].layouts \subseteq {"present"}
    PROVE  Brings(H, Viewed(h, c, looks, levels, fact), Present, Viewed(h, c, looks, levels, fact))
<1> DEFINE with == [image |-> <<"swapChain", 0>>]
           s == [op |-> "present", on |-> {"swapChain", "renderFinished"}, fails |-> {FALSE}, with |-> with]
           A == Viewed(h, c, looks, levels, fact)
<1>1. s.op = "present" /\ s.fails = {FALSE} /\ s.with = with /\ Present = <<s>>
  BY DEF Present, Step
<1>2. with.image = <<"swapChain", 0>>
  OBVIOUS
<1> HIDE DEF s, with
<1>3. ASSUME NEW n \in A PROVE Fits(n, s) /\ Next2(n, s) \in A
  <2>1. /\ <<"swapChain", 0>> \in DOMAIN n.images
        /\ Shows(n.images[<<"swapChain", 0>>], looks["swapChain"], c) /\ n \in Sights
    BY DEF Viewed
  <2>2. n.images[<<"swapChain", 0>>].layout = "present"
    BY <2>1 DEF Shows
  <2>3. Fits(n, s)
    BY <1>1, <1>2, <2>1, <2>2 DEF Fits
  <2>4. ImagesAfter(n.images, s) = n.images
    BY <1>1 DEF ImagesAfter
  <2>5. Next2(n, s) = Sight(n.host, n.images, n.chain, n.drawing, n.running)
    BY <1>1, <2>4 DEF Next2
  <2> QED
    BY <2>1, <2>3, <2>5, SightIs
<1>4. A \in SUBSET Sights
  BY DEF Viewed
<1> HIDE DEF A
<1>5. Brings(H, A, <<s>>, A)
  BY <1>1, <1>3, <1>4, BringsStep
<1> QED
  BY <1>1, <1>5 DEF A

LEMMA BringsWait ==
    ASSUME NEW H, NEW h, NEW c, NEW looks, NEW levels, NEW fact \in BOOLEAN,
           Viewed(h, c, looks, levels, fact) \subseteq H, \A l \in DOMAIN levels : levels[l].dirty = {}
    PROVE  Brings(H, Viewed(h, c, looks, levels, fact), Wait,
                  Viewed(h, c, [o \in DOMAIN looks |-> Dry(looks[o])], levels, fact))
<1> DEFINE s == [op |-> "wait", on |-> {"device"}, fails |-> BOOLEAN, with |-> <<>>]
           A == Viewed(h, c, looks, levels, fact)
           B == Viewed(h, c, [o \in DOMAIN looks |-> Dry(looks[o])], levels, fact)
<1>1. s.op = "wait" /\ s.fails = BOOLEAN /\ Wait = <<s>>
  BY DEF Wait, Step
<1> HIDE DEF s
<1>2. ASSUME NEW n \in A PROVE Fits(n, s) /\ Next2(n, s) \in B /\ n \in H
  <2>1. Next2(n, s) = Cleaned(n)
    BY <1>1 DEF Next2, ImagesAfter, Cleaned
  <2>2. Cleaned(n) \in B
    BY CleanedViewed
  <2> QED
    BY <1>1, <2>1, <2>2 DEF Fits
<1>3. A \in SUBSET Sights
  BY DEF Viewed
<1> HIDE DEF A, B
<1>4. Brings(H, A, <<s>>, B)
  BY <1>1, <1>2, <1>3, BringsStep
<1> QED
  BY <1>1, <1>4 DEF A, B

\* A new chain: what was known of the images by the old one's size is not by its.
LEMMA BringsChain ==
    ASSUME NEW H, NEW h, NEW c, NEW looks, NEW levels, NEW fact \in BOOLEAN, NEW d \in Chains
    PROVE  Brings(H, Viewed(h, c, looks, levels, fact), Chain(d), Viewed(h, d, <<>>, levels, fact))
<1> DEFINE s == [op |-> "chain", on |-> {"swapChain"}, fails |-> {FALSE}, with |-> d]
           A == Viewed(h, c, looks, levels, fact)
           B == Viewed(h, d, <<>>, levels, fact)
<1>1. s.op = "chain" /\ s.fails = {FALSE} /\ s.with = d /\ Chain(d) = <<s>>
  BY DEF Chain, Step
<1> HIDE DEF s
<1>2. ASSUME NEW n \in A PROVE Fits(n, s) /\ Next2(n, s) \in B
  <2> DEFINE k == Next2(n, s)
  <2>1. n \in Sights /\ fact /\ n.host = h
        /\ \A l \in DOMAIN levels : /\ <<"texture", l>> \in DOMAIN n.images
                                    /\ n.images[<<"texture", l>>] = levels[l]
    BY DEF Viewed
  <2>2. ImagesAfter(n.images, s) = n.images
    BY <1>1 DEF ImagesAfter
  <2>3. k = Sight(n.host, n.images, d, n.drawing, n.running)
    BY <1>1, <2>2 DEF Next2
  <2>4. k \in Sights
    BY <2>1, <2>3 DEF Sights, Sight
  <2>5. k.host = h /\ k.chain = d /\ k.images = n.images
    BY <2>1, <2>3, SightIs
  <2> HIDE DEF k
  <2>6. k \in B
    BY <2>1, <2>4, <2>5 DEF Viewed
  <2> QED
    BY <1>1, <2>6 DEF Fits, k
<1>3. A \in SUBSET Sights
  BY DEF Viewed
<1> HIDE DEF A, B
<1>4. Brings(H, A, <<s>>, B)
  BY <1>1, <1>2, <1>3, BringsStep
<1> QED
  BY <1>1, <1>4 DEF A, B

\* Objects that are only made where the choices they depend on were.
LEMMA BringsMake ==
    ASSUME NEW H, NEW h, NEW c, NEW looks, NEW levels, NEW fact \in BOOLEAN,
           Viewed(h, c, looks, levels, fact) \subseteq H, NEW o \in Telling,
           o = "swapViews" => c \in Chains,
           o = "fences" /\ fact => Fit(h),
           o = "readback" /\ fact => CanCapture(h, c)
    PROVE  Brings(H, Viewed(h, c, looks, levels, fact), Make(o), Viewed(h, c, looks, levels, fact))
<1> DEFINE s == [op |-> "make", on |-> {o}, fails |-> BOOLEAN, with |-> <<>>]
           A == Viewed(h, c, looks, levels, fact)
<1>1. s.op = "make" /\ s.on = {o} /\ s.fails = BOOLEAN /\ Make(o) = <<s>>
  BY DEF Make, Step
<1> HIDE DEF s
<1>2. ASSUME NEW n \in A PROVE Fits(n, s) /\ Next2(n, s) \in A /\ n \in H
  <2> DEFINE k == Next2(n, s)
             d == IF s.op = "make" /\ s.on = {"fences"} THEN TRUE ELSE n.drawing
  <2>1. n \in Sights /\ fact /\ n.host = h /\ n.chain = c
        /\ (\A l \in DOMAIN levels : /\ <<"texture", l>> \in DOMAIN n.images
                                     /\ n.images[<<"texture", l>>] = levels[l])
        /\ (\A p \in DOMAIN looks : <<p, 0>> \in DOMAIN n.images /\ Shows(n.images[<<p, 0>>], looks[p], c))
    BY DEF Viewed
  <2>2. Fits(n, s)
    <3>1. s.on = {"swapViews"} => o = "swapViews"
      BY <1>1
    <3>2. s.on = {"fences"} => o = "fences"
      BY <1>1
    <3>3. s.on = {"readback"} => o = "readback"
      BY <1>1
    <3> QED
      BY <1>1, <2>1, <3>1, <3>2, <3>3 DEF Fits
  <2>3. ImagesAfter(n.images, s) = n.images
    BY <1>1 DEF ImagesAfter
  <2>4. k = Sight(n.host, n.images, n.chain, d, n.running)
    BY <1>1, <2>3 DEF Next2
  <2>5. d \in BOOLEAN
    BY <2>1 DEF Sights
  <2> HIDE DEF d
  <2>6. k \in Sights
    BY <2>1, <2>4, <2>5 DEF Sights, Sight
  <2>7. k.host = h /\ k.chain = c /\ k.images = n.images
    BY <2>1, <2>4, SightIs
  <2> HIDE DEF k
  <2>8. k \in A
    BY <2>1, <2>6, <2>7 DEF Viewed
  <2> QED
    BY <2>2, <2>8 DEF k
<1>3. A \in SUBSET Sights
  BY DEF Viewed
<1> HIDE DEF A
<1>4. Brings(H, A, <<s>>, A)
  BY <1>1, <1>2, <1>3, BringsStep
<1> QED
  BY <1>1, <1>4 DEF A

\* RequestStop: the sights do not tell.
LEMMA BringsStop ==
    ASSUME NEW H, NEW h, NEW c, NEW looks, NEW levels, NEW fact \in BOOLEAN
    PROVE  Brings(H, Viewed(h, c, looks, levels, fact), Stop, Viewed(h, c, looks, levels, fact))
<1> DEFINE s == [op |-> "stop", on |-> {}, fails |-> {FALSE}, with |-> <<>>]
           A == Viewed(h, c, looks, levels, fact)
<1>1. s.op = "stop" /\ s.fails = {FALSE} /\ Stop = <<s>>
  BY DEF Stop, Step
<1> HIDE DEF s
<1>2. ASSUME NEW n \in A PROVE Fits(n, s) /\ Next2(n, s) \in A
  <2> DEFINE k == Next2(n, s)
             r == FALSE
  <2>1. n \in Sights /\ fact /\ n.host = h /\ n.chain = c
        /\ (\A l \in DOMAIN levels : /\ <<"texture", l>> \in DOMAIN n.images
                                     /\ n.images[<<"texture", l>>] = levels[l])
        /\ (\A p \in DOMAIN looks : <<p, 0>> \in DOMAIN n.images /\ Shows(n.images[<<p, 0>>], looks[p], c))
    BY DEF Viewed
  <2>2. ImagesAfter(n.images, s) = n.images
    BY <1>1 DEF ImagesAfter
  <2>3. k = Sight(n.host, n.images, n.chain, n.drawing, r)
    BY <1>1, <2>2 DEF Next2
  <2>4. k \in Sights
    BY <2>1, <2>3 DEF Sights, Sight
  <2> HIDE DEF r
  <2>5. k.host = h /\ k.chain = c /\ k.images = n.images
    BY <2>1, <2>3, SightIs
  <2> HIDE DEF k
  <2>6. k \in A
    BY <2>1, <2>4, <2>5 DEF Viewed
  <2> QED
    BY <1>1, <2>6 DEF Fits, k
<1>3. A \in SUBSET Sights
  BY DEF Viewed
<1> HIDE DEF A
<1>4. Brings(H, A, <<s>>, A)
  BY <1>1, <1>2, <1>3, BringsStep
<1> QED
  BY <1>1, <1>4 DEF A

-----------------------------------------------------------------------------
(* The same of the texture's levels, whose states are known exactly.       *)

LEMMA BringsLevelImage ==
    ASSUME NEW H, NEW h, NEW c, NEW looks, NEW levels, NEW fact \in BOOLEAN,
           "texture" \notin DOMAIN looks, NEW l \in Nat, NEW extent \in [1..2 -> Nat]
    PROVE  Brings(H, Viewed(h, c, looks, levels, fact), Image("texture", l, extent),
                  Viewed(h, c, looks, Put(levels, l, NewImage(extent)), fact))
<1> DEFINE with == [image |-> <<"texture", l>>, extent |-> extent]
           s == [op |-> "image", on |-> {"texture"}, fails |-> {FALSE}, with |-> with]
           v == NewImage(extent)
           A == Viewed(h, c, looks, levels, fact)
           B == Viewed(h, c, looks, Put(levels, l, v), fact)
<1>1. s.op = "image" /\ s.fails = {FALSE} /\ s.with = with /\ Image("texture", l, extent) = <<s>>
  BY DEF Image, Step
<1>2. with.image = <<"texture", l>> /\ with.extent = extent /\ <<"texture", l>> \in Shown \X Nat
  BY DEF Shown
<1>3. v \in ImageStates
  BY DEF NewImage, ImageStates, Layouts
<1> HIDE DEF s, with, v
<1>4. ASSUME NEW n \in A PROVE Fits(n, s) /\ Next2(n, s) \in B
  <2>1. Fits(n, s)
    BY <1>1, <1>2 DEF Fits
  <2>2. ImagesAfter(n.images, s) = Put(n.images, <<"texture", l>>, v)
    BY <1>1, <1>2 DEF ImagesAfter, v
  <2>3. Next2(n, s) = Sight(n.host, Put(n.images, <<"texture", l>>, v), n.chain, n.drawing, n.running)
    BY <1>1, <2>2 DEF Next2
  <2> QED
    BY <1>3, <2>1, <2>3, PutLevel
<1>5. A \in SUBSET Sights
  BY DEF Viewed
<1> HIDE DEF A, B
<1>6. Brings(H, A, <<s>>, B)
  BY <1>1, <1>4, <1>5, BringsStep
<1> QED
  BY <1>1, <1>6 DEF A, B, v

LEMMA BringsLevelTransition ==
    ASSUME NEW H, NEW h, NEW c, NEW looks, NEW levels, NEW fact \in BOOLEAN,
           "texture" \notin DOMAIN looks, NEW l \in Nat, l \in DOMAIN levels, NEW from, NEW to \in Layouts,
           NEW src, NEW dst \in SUBSET Accesses,
           from \in {"undefined", levels[l].layout}, levels[l].dirty \subseteq src,
           NEW v, v = [layout |-> to, dirty |-> IF dst = {} THEN {"transition"} ELSE {}, visible |-> dst,
                       extent |-> levels[l].extent]
    PROVE  Brings(H, Viewed(h, c, looks, levels, fact), TransitionImageLayout("texture", l, from, to, src, dst),
                  Viewed(h, c, looks, Put(levels, l, v), fact))
<1> DEFINE with == [image |-> <<"texture", l>>, from |-> from, to |-> to, src |-> src, dst |-> dst]
           s == [op |-> "transition", on |-> {"texture"}, fails |-> {FALSE}, with |-> with]
           A == Viewed(h, c, looks, levels, fact)
           B == Viewed(h, c, looks, Put(levels, l, v), fact)
           i == <<"texture", l>>
<1>1. s.op = "transition" /\ s.fails = {FALSE} /\ s.with = with
      /\ TransitionImageLayout("texture", l, from, to, src, dst) = <<s>>
  BY DEF TransitionImageLayout, Step
<1>2. with.image = i /\ with.from = from /\ with.to = to /\ with.src = src /\ with.dst = dst
  OBVIOUS
<1> HIDE DEF s, with
<1>3. ASSUME NEW n \in A PROVE Fits(n, s) /\ Next2(n, s) \in B
  <2> DEFINE image == n.images[i]
  <2>1. i \in DOMAIN n.images /\ image = levels[l] /\ n \in Sights
    BY DEF Viewed
  <2>2. image \in ImageStates
    BY <2>1, ImagesAre
  <2> HIDE DEF image
  <2>4. TransitionAllowed(image, with)
    BY <1>2, <2>1 DEF TransitionAllowed
  <2>5. Transitioned(image, with) \in ImageStates
    BY <1>2, <2>2 DEF Transitioned, ImageStates, Accesses
  <2>6. Transitioned(image, with) = v
    <3> DEFINE dirty == IF dst = {} THEN {"transition"} ELSE {}
    <3>1. Transitioned(image, with) = [image EXCEPT !.layout = to, !.visible = dst, !.dirty = dirty]
      BY <1>2 DEF Transitioned
    <3>2. v = [layout |-> to, dirty |-> dirty, visible |-> dst, extent |-> image.extent]
      BY <2>1
    <3> HIDE DEF dirty
    <3> QED
      BY <2>2, <3>1, <3>2 DEF ImageStates
  <2>8. Fits(n, s)
    BY <1>1, <1>2, <2>1, <2>4 DEF Fits, image
  <2>9. ImagesAfter(n.images, s) = Put(n.images, i, v)
    BY <1>1, <1>2, <2>6 DEF ImagesAfter, image
  <2>10. Next2(n, s) = Sight(n.host, Put(n.images, i, v), n.chain, n.drawing, n.running)
    BY <1>1, <2>9 DEF Next2
  <2> QED
    BY <2>5, <2>6, <2>8, <2>10, PutLevel
<1>4. A \in SUBSET Sights
  BY DEF Viewed
<1> HIDE DEF A, B
<1>5. Brings(H, A, <<s>>, B)
  BY <1>1, <1>3, <1>4, BringsStep
<1> QED
  BY <1>1, <1>5 DEF A, B

LEMMA BringsLevelUse ==
    ASSUME NEW H, NEW h, NEW c, NEW looks, NEW levels, NEW fact \in BOOLEAN,
           "texture" \notin DOMAIN looks, NEW l \in Nat, l \in DOMAIN levels, NEW access \in SUBSET Accesses,
           NEW extent, \A i \in 1..2 : extent[i] <= levels[l].extent[i],
           access \subseteq levels[l].visible, levels[l].dirty = {},
           NEW v, v = [layout |-> levels[l].layout, dirty |-> access \cap Writes, visible |-> levels[l].visible,
                       extent |-> levels[l].extent]
    PROVE  Brings(H, Viewed(h, c, looks, levels, fact), Use("texture", l, levels[l].layout, access, extent),
                  Viewed(h, c, looks, Put(levels, l, v), fact))
<1> DEFINE with == [image |-> <<"texture", l>>, layout |-> levels[l].layout, access |-> access,
                    extent |-> extent]
           s == [op |-> "use", on |-> {"texture"}, fails |-> {FALSE}, with |-> with]
           A == Viewed(h, c, looks, levels, fact)
           B == Viewed(h, c, looks, Put(levels, l, v), fact)
           i == <<"texture", l>>
<1>1. s.op = "use" /\ s.fails = {FALSE} /\ s.with = with
      /\ Use("texture", l, levels[l].layout, access, extent) = <<s>>
  BY DEF Use, Step
<1>2. with.image = i /\ with.layout = levels[l].layout /\ with.access = access /\ with.extent = extent
  OBVIOUS
<1> HIDE DEF s, with
<1>3. ASSUME NEW n \in A PROVE Fits(n, s) /\ Next2(n, s) \in B
  <2> DEFINE image == n.images[i]
  <2>1. i \in DOMAIN n.images /\ image = levels[l] /\ n \in Sights
    BY DEF Viewed
  <2>2. image \in ImageStates
    BY <2>1, ImagesAre
  <2> HIDE DEF image
  <2>4. UseAllowed(image, with)
    BY <1>2, <2>1 DEF UseAllowed
  <2>5. Used(image, with) \in ImageStates
    BY <1>2, <2>2 DEF Used, ImageStates
  <2>6. Used(image, with) = v
    BY <1>2, <2>1, <2>2, SMTT(40) DEF Used, ImageStates
  <2>8. Fits(n, s)
    BY <1>1, <1>2, <2>1, <2>4 DEF Fits, image
  <2>9. ImagesAfter(n.images, s) = Put(n.images, i, v)
    BY <1>1, <1>2, <2>6 DEF ImagesAfter, image
  <2>10. Next2(n, s) = Sight(n.host, Put(n.images, i, v), n.chain, n.drawing, n.running)
    BY <1>1, <2>9 DEF Next2
  <2> QED
    BY <2>5, <2>6, <2>8, <2>10, PutLevel
<1>4. A \in SUBSET Sights
  BY DEF Viewed
<1> HIDE DEF A, B
<1>5. Brings(H, A, <<s>>, B)
  BY <1>1, <1>3, <1>4, BringsStep
<1> QED
  BY <1>1, <1>5 DEF A, B

-----------------------------------------------------------------------------
(* Sizes.                                                                  *)

LEMMA MaxOfTwo == \A x, y \in Nat : Max({x, y}) = IF x < y THEN y ELSE x
<1> SUFFICES ASSUME NEW x \in Nat, NEW y \in Nat PROVE Max({x, y}) = IF x < y THEN y ELSE x
  OBVIOUS
<1> DEFINE m == IF x < y THEN y ELSE x
<1>1. m \in {x, y} /\ \A z \in {x, y} : m >= z
  OBVIOUS
<1>2. \A k : k \in {x, y} /\ (\A z \in {x, y} : k >= z) => k = m
  OBVIOUS
<1> HIDE DEF m
<1>3. Max({x, y}) = m
  BY <1>1, <1>2 DEF Max
<1> QED
  BY <1>3 DEF m
\* From a value by a step to the next.
Iterates(f, k, T, base, next) ==
    /\ f \in [0 .. k -> T] /\ f[0] = base
    /\ \A i \in 1 .. k : f[i] = next[f[i - 1]]

LEMMA IterationExists ==
    ASSUME NEW k \in Nat, NEW T, NEW base \in T, NEW next \in [T -> T]
    PROVE  \E f : Iterates(f, k, T, base, next)
<1> DEFINE Good == {n \in 0 .. k : \E f : Iterates(f, n, T, base, next)}
<1>1. 0 \in Good
  <2> DEFINE f == [i \in 0 .. 0 |-> base]
  <2>1. Iterates(f, 0, T, base, next)
    BY DEF Iterates
  <2> HIDE DEF f
  <2> QED
    BY <2>1
<1>2. ASSUME NEW m \in 1 .. k, m - 1 \in Good PROVE m \in Good
  <2>1. m \in Nat /\ m - 1 \in Nat /\ m \in 0 .. k
    OBVIOUS
  <2>2. PICK before : Iterates(before, m - 1, T, base, next)
    BY <1>2
  <2> DEFINE f == [i \in 0 .. m |-> IF i = m THEN next[before[m - 1]] ELSE before[i]]
  <2>3. f \in [0 .. m -> T] /\ f[0] = base
    BY <2>1, <2>2 DEF Iterates
  <2>4. \A i \in 1 .. m : f[i] = next[f[i - 1]]
    <3>1. TAKE i \in 1 .. m
    <3>2. CASE i = m
      BY <2>1, <3>2
    <3>3. CASE i # m
      BY <2>1, <2>2, <3>3 DEF Iterates
    <3> QED
      BY <3>2, <3>3
  <2> HIDE DEF f
  <2>5. Iterates(f, m, T, base, next)
    BY <2>3, <2>4 DEF Iterates
  <2> QED
    BY <2>1, <2>5
<1> HIDE DEF Good
<1>3. k \in Good
  BY <1>1, <1>2, InductionUpTo
<1> QED
  BY <1>3 DEF Good

Powers(f, k) == f = [i \in 0 .. k |-> IF i = 0 THEN 1 ELSE 2 * f[i - 1]]

LEMMA PowersExist ==
    ASSUME NEW k \in Nat
    PROVE  \E f : Powers(f, k)
<1> DEFINE next == [x \in Nat |-> 2 * x]
<1>1. next \in [Nat -> Nat] /\ 1 \in Nat /\ \A x \in Nat : next[x] = 2 * x
  OBVIOUS
<1> HIDE DEF next
<1>2. PICK f : Iterates(f, k, Nat, 1, next)
  BY <1>1, IterationExists
<1>3. \A i \in 0 .. k : f[i] = IF i = 0 THEN 1 ELSE 2 * f[i - 1]
  <2> TAKE i \in 0 .. k
  <2>1. CASE i # 0
    <3>1. i \in 1 .. k /\ i - 1 \in 0 .. k
      BY <2>1
    <3> QED
      BY <1>1, <1>2, <2>1, <3>1 DEF Iterates
  <2> QED
    BY <1>2, <2>1 DEF Iterates
<1>4. f = [i \in 0 .. k |-> f[i]]
  BY <1>2 DEF Iterates
<1>5. Powers(f, k)
  BY <1>3, <1>4 DEF Powers
<1> QED
  BY <1>5

LEMMA PowersAgree ==
    ASSUME NEW k \in Nat, NEW m \in Nat, k <= m, NEW f, Powers(f, k), NEW g, Powers(g, m)
    PROVE  \A i \in 0 .. k : f[i] \in Nat \ {0} /\ f[i] = g[i]
<1> DEFINE Good == {i \in 0 .. k : f[i] \in Nat \ {0} /\ f[i] = g[i]}
<1>1. /\ \A i \in 0 .. k : f[i] = IF i = 0 THEN 1 ELSE 2 * f[i - 1]
      /\ \A i \in 0 .. m : g[i] = IF i = 0 THEN 1 ELSE 2 * g[i - 1]
  BY DEF Powers
<1>2. 0 \in Good
  BY <1>1
<1>3. ASSUME NEW i \in 1 .. k, i - 1 \in Good PROVE i \in Good
  BY <1>1, <1>3
<1> HIDE DEF Good
<1>4. \A i \in 0 .. k : i \in Good
  BY <1>2, <1>3, InductionUpTo
<1> QED
  BY <1>4 DEF Good

LEMMA PowerOfTwoIs ==
    /\ \A n \in Nat : PowerOfTwo(n) \in Nat \ {0}
    /\ PowerOfTwo(0) = 1
    /\ \A n \in Nat : PowerOfTwo(n + 1) = 2 * PowerOfTwo(n)
<1> DEFINE F(k) == CHOOSE f : Powers(f, k)
<1>1. \A k \in Nat : Powers(F(k), k)
  BY PowersExist
<1>2. \A k \in Nat : PowerOfTwo(k) = F(k)[k]
  BY DEF PowerOfTwo, Powers
<1> HIDE DEF F
<1>3. ASSUME NEW n \in Nat PROVE PowerOfTwo(n) \in Nat \ {0}
  <2>1. \A i \in 0 .. n : F(n)[i] \in Nat \ {0}
    BY <1>1, PowersAgree
  <2> QED
    BY <1>2, <2>1 DEF Iterates
<1>4. PowerOfTwo(0) = 1
  <2>1. Powers(F(0), 0) /\ PowerOfTwo(0) = F(0)[0]
    BY <1>1, <1>2
  <2> QED
    BY <2>1 DEF Powers
<1>5. ASSUME NEW n \in Nat PROVE PowerOfTwo(n + 1) = 2 * PowerOfTwo(n)
  <2>1. n + 1 \in Nat /\ n <= n + 1 /\ Powers(F(n), n) /\ Powers(F(n + 1), n + 1)
    BY <1>1
  <2>2. F(n)[n] = F(n + 1)[n]
    BY <2>1, PowersAgree
  <2>3. F(n + 1)[n + 1] = 2 * F(n + 1)[n]
    BY <2>1 DEF Powers
  <2> QED
    BY <1>2, <2>1, <2>2, <2>3
<1> QED
  BY <1>3, <1>4, <1>5

\* Half of a half is no more than a half of what is left.
LEMMA HalfOfPart ==
    ASSUME NEW e \in Nat, NEW p \in Nat \ {0}
    PROVE  (e \div p) \div 2 <= e \div (2 * p)
<1> DEFINE q == e \div p
           r == q \div 2
           s == e \div (2 * p)
<1>1. q \in Nat /\ q * p <= e
  OBVIOUS
<1>2. 2 * p \in Nat \ {0} /\ s \in Nat /\ e < (s + 1) * (2 * p)
  OBVIOUS
<1> HIDE DEF q, s
<1>3. r \in Nat /\ 2 * r <= q
  BY <1>1
<1> HIDE DEF r
<1>4. (2 * r) * p <= q * p
  BY <1>1, <1>3
<1>5. r * (2 * p) < (s + 1) * (2 * p)
  BY <1>1, <1>2, <1>3, <1>4
<1>6. r < s + 1
  BY <1>2, <1>3, <1>5
<1>7. r <= s
  BY <1>2, <1>3, <1>6
<1> QED
  BY <1>7 DEF q, r, s

LEMMA MipExtentIs ==
    ASSUME NEW extent \in [1..2 -> Nat]
    PROVE  /\ \A l \in Nat : /\ MipExtent(extent, l) \in [1..2 -> Nat]
                             /\ \A i \in 1..2 : /\ 1 <= MipExtent(extent, l)[i]
                                                /\ Max({1, MipExtent(extent, l)[i] \div 2}) <= MipExtent(extent, l + 1)[i]
           /\ \A i \in 1..2 : extent[i] <= MipExtent(extent, 0)[i]
<1> DEFINE part(l, i) == extent[i] \div PowerOfTwo(l)
<1>1. ASSUME NEW l \in Nat, NEW i \in 1..2
      PROVE  part(l, i) \in Nat /\ MipExtent(extent, l)[i] = IF 1 < part(l, i) THEN part(l, i) ELSE 1
  <2>1. PowerOfTwo(l) \in Nat \ {0} /\ extent[i] \in Nat
    BY PowerOfTwoIs
  <2>2. part(l, i) \in Nat
    BY <2>1
  <2>3. Max({1, part(l, i)}) = IF 1 < part(l, i) THEN part(l, i) ELSE 1
    BY <2>2, MaxOfTwo
  <2>4. MipExtent(extent, l)[i] = Max({1, part(l, i)})
    BY DEF MipExtent
  <2> QED
    BY <2>2, <2>3, <2>4
<1>2. ASSUME NEW l \in Nat PROVE MipExtent(extent, l) \in [1..2 -> Nat] /\ \A i \in 1..2 : 1 <= MipExtent(extent, l)[i]
  <2>1. \A i \in 1..2 : MipExtent(extent, l)[i] \in Nat /\ 1 <= MipExtent(extent, l)[i]
    BY <1>1
  <2>2. MipExtent(extent, l) = [i \in 1..2 |-> MipExtent(extent, l)[i]]
    BY DEF MipExtent
  <2> HIDE DEF part
  <2> QED
    BY <2>1, <2>2
<1>3. ASSUME NEW l \in Nat, NEW i \in 1..2
      PROVE  Max({1, MipExtent(extent, l)[i] \div 2}) <= MipExtent(extent, l + 1)[i]
  <2>1. l + 1 \in Nat /\ extent[i] \in Nat /\ PowerOfTwo(l) \in Nat \ {0} /\ PowerOfTwo(l + 1) = 2 * PowerOfTwo(l)
    BY PowerOfTwoIs
  <2>2. part(l, i) \div 2 <= part(l + 1, i)
    BY <2>1, HalfOfPart
  <2>3. part(l, i) \in Nat /\ part(l + 1, i) \in Nat
    BY <1>1, <2>1
  <2>4. /\ MipExtent(extent, l)[i] = IF 1 < part(l, i) THEN part(l, i) ELSE 1
        /\ MipExtent(extent, l + 1)[i] = IF 1 < part(l + 1, i) THEN part(l + 1, i) ELSE 1
    BY <1>1, <2>1
  <2> DEFINE half == MipExtent(extent, l)[i] \div 2
  <2> HIDE DEF part
  <2>5. half \in Nat /\ (1 < half => half <= part(l + 1, i))
    BY <2>2, <2>3, <2>4
  <2>6. Max({1, half}) = IF 1 < half THEN half ELSE 1
    BY <2>5, MaxOfTwo
  <2> HIDE DEF half
  <2>7. Max({1, half}) <= MipExtent(extent, l + 1)[i]
    BY <2>3, <2>4, <2>5, <2>6
  <2> QED
    BY <2>7 DEF half
<1>4. ASSUME NEW i \in 1..2 PROVE extent[i] <= MipExtent(extent, 0)[i]
  <2>1. part(0, i) = extent[i] /\ extent[i] \in Nat
    BY PowerOfTwoIs
  <2> QED
    BY <1>1, <2>1
<1> QED
  BY <1>2, <1>3, <1>4

\* The sizes GenerateMipmaps halves its way through.
Sizes(size, extent, levels) ==
    size = [l \in 0..levels |-> IF l = 0 THEN extent
                                ELSE [i \in 1..2 |-> Max({1, size[l - 1][i] \div 2})]]

LEMMA SizesExist ==
    ASSUME NEW extent \in [1..2 -> Nat], NEW levels \in Nat
    PROVE  \E size : Sizes(size, extent, levels)
<1> DEFINE T == [1..2 -> Nat]
           next == [s \in T |-> [i \in 1..2 |-> Max({1, s[i] \div 2})]]
<1>1. /\ next \in [T -> T] /\ extent \in T
      /\ \A s \in T : next[s] = [i \in 1..2 |-> Max({1, s[i] \div 2})]
  <2>1. \A s \in T : \A i \in 1..2 : Max({1, s[i] \div 2}) \in Nat
    BY MaxOfTwo
  <2> QED
    BY <2>1
<1> HIDE DEF next, T
<1>2. PICK size : Iterates(size, levels, T, extent, next)
  BY <1>1, IterationExists
<1>3. \A l \in 0 .. levels : size[l] = IF l = 0 THEN extent
                                       ELSE [i \in 1..2 |-> Max({1, size[l - 1][i] \div 2})]
  <2> TAKE l \in 0 .. levels
  <2>1. CASE l # 0
    <3>1. l \in 1 .. levels /\ l - 1 \in 0 .. levels
      BY <2>1
    <3> QED
      BY <1>1, <1>2, <2>1, <3>1 DEF Iterates
  <2> QED
    BY <1>2, <2>1 DEF Iterates
<1>4. size = [l \in 0 .. levels |-> size[l]]
  BY <1>2 DEF Iterates
<1>5. Sizes(size, extent, levels)
  BY <1>3, <1>4 DEF Sizes
<1> QED
  BY <1>5

LEMMA SizesFit ==
    ASSUME NEW extent \in [1..2 -> Nat], NEW levels \in Nat, NEW size, Sizes(size, extent, levels)
    PROVE  \A l \in 0 .. levels : \A i \in 1..2 : size[l][i] <= MipExtent(extent, l)[i]
<1> DEFINE Good == {l \in 0 .. levels : size[l] \in [1..2 -> Nat] /\ \A i \in 1..2 : size[l][i] <= MipExtent(extent, l)[i]}
<1>1. \A l \in 0 .. levels : size[l] = IF l = 0 THEN extent ELSE [i \in 1..2 |-> Max({1, size[l - 1][i] \div 2})]
  BY DEF Sizes
<1>2. 0 \in Good
  <2>1. size[0] = extent /\ \A i \in 1..2 : extent[i] <= MipExtent(extent, 0)[i]
    <3>1. \A i \in 1..2 : extent[i] <= MipExtent(extent, 0)[i]
      BY MipExtentIs
    <3>2. 0 \in 0 .. levels
      OBVIOUS
    <3> QED
      BY <1>1, <3>1, <3>2
  <2> QED
    BY <2>1
<1>3. ASSUME NEW l \in 1 .. levels, l - 1 \in Good PROVE l \in Good
  <2>1. /\ size[l - 1] \in [1..2 -> Nat] /\ l - 1 \in Nat /\ (l - 1) + 1 = l /\ l \in 0 .. levels
        /\ \A i \in 1..2 : size[l - 1][i] <= MipExtent(extent, l - 1)[i]
    BY <1>3
  <2>2. size[l] = [i \in 1..2 |-> Max({1, size[l - 1][i] \div 2})]
    BY <1>1
  <2>3. ASSUME NEW i \in 1..2 PROVE size[l][i] \in Nat /\ size[l][i] <= MipExtent(extent, l)[i]
    <3> DEFINE s == size[l - 1][i]
               e == MipExtent(extent, l - 1)[i]
    <3>1. s \in Nat /\ e \in Nat /\ s <= e
      BY <2>1, MipExtentIs
    <3>2. size[l][i] = Max({1, s \div 2}) /\ Max({1, e \div 2}) <= MipExtent(extent, l)[i]
          /\ MipExtent(extent, l)[i] \in Nat
      <4>1. Max({1, e \div 2}) <= MipExtent(extent, (l - 1) + 1)[i]
        BY <2>1, MipExtentIs
      <4>2. MipExtent(extent, l)[i] \in Nat
        <5>1. l \in Nat
          OBVIOUS
        <5>2. MipExtent(extent, l) \in [1..2 -> Nat]
          BY <5>1, MipExtentIs
        <5> QED
          BY <5>2
      <4> QED
        BY <2>1, <2>2, <4>1, <4>2
    <3> HIDE DEF s, e
    <3>3. s \div 2 \in Nat /\ e \div 2 \in Nat /\ s \div 2 <= e \div 2
      BY <3>1
    <3>4. /\ Max({1, s \div 2}) = IF 1 < s \div 2 THEN s \div 2 ELSE 1
          /\ Max({1, e \div 2}) = IF 1 < e \div 2 THEN e \div 2 ELSE 1
      BY <3>3, MaxOfTwo
    <3> QED
      BY <3>2, <3>3, <3>4
  <2>4. size[l] \in [1..2 -> Nat]
    BY <2>2, <2>3
  <2> QED
    BY <2>1, <2>3, <2>4
<1> HIDE DEF Good
<1>4. \A l \in 0 .. levels : l \in Good
  BY <1>2, <1>3, InductionUpTo
<1> QED
  BY <1>4 DEF Good
-----------------------------------------------------------------------------
(* What is chosen is legal.                                                *)

Surfaces == UNION {{h.surface} \cup h.surfaces : h \in Hosts}

LEMMA ChainIs ==
    ASSUME NEW d \in Chains
    PROVE  d.choice.extent \in [1..2 -> Nat] /\ LegalSwapChain(d.surface, d.choice)
<1>1. PICK surface \in Surfaces, size \in FramebufferSizes :
          d = [surface |-> surface, choice |-> SwapChainChoice(surface, size)]
  BY DEF Chains, Surfaces
<1>2. PICK h \in Hosts : surface \in {h.surface} \cup h.surfaces
  BY DEF Surfaces
<1>3. /\ surface.minExtent \in [1..2 -> Nat] /\ surface.maxExtent \in [1..2 -> Nat]
      /\ \A i \in 1..2 : surface.minExtent[i] <= surface.maxExtent[i]
      /\ surface.minCount \in Nat /\ surface.maxCount \in Nat
      /\ surface.maxCount = 0 \/ surface.minCount <= surface.maxCount
      /\ "fifo" \in surface.modes /\ "colour" \in surface.usages
  BY <1>2, SurfaceAssumption
<1>4. size \in [1..2 -> Nat]
  BY SizeAssumption
<1> DEFINE choice == SwapChainChoice(surface, size)
<1>5. d.surface = surface /\ d.choice = choice
  BY <1>1
<1>6. choice.extent = [i \in 1..2 |-> Clamp(size[i], surface.minExtent[i], surface.maxExtent[i])]
  BY DEF SwapChainChoice
<1>7. choice.mode = (IF "mailbox" \in surface.modes THEN "mailbox" ELSE "fifo") /\ choice.count = ImageCount(surface)
      /\ choice.usage = {"colour"} \cup ({"transferSource"} \cap surface.usages)
  BY DEF SwapChainChoice
<1> HIDE DEF choice
<1>8. ASSUME NEW i \in 1..2
      PROVE  choice.extent[i] \in Nat /\ surface.minExtent[i] <= choice.extent[i]
             /\ choice.extent[i] <= surface.maxExtent[i]
  <2>1. size[i] \in Nat /\ surface.minExtent[i] \in Nat /\ surface.maxExtent[i] \in Nat
    BY <1>3, <1>4
  <2> QED
    BY <1>3, <1>6, <2>1 DEF Clamp
<1>9. choice.extent \in [1..2 -> Nat]
  BY <1>6, <1>8
<1>10. surface.minCount <= choice.count /\ (surface.maxCount # 0 => choice.count <= surface.maxCount)
  <2>1. Max({3, surface.minCount}) = IF 3 < surface.minCount THEN surface.minCount ELSE 3
    BY <1>3, MaxOfTwo
  <2> QED
    BY <1>3, <1>7, <2>1 DEF ImageCount
<1>11. choice.mode \in surface.modes /\ choice.usage \subseteq surface.usages
  BY <1>3, <1>7
<1> QED
  BY <1>5, <1>8, <1>9, <1>10, <1>11 DEF LegalSwapChain

LEMMA LeastOfTheFit ==
    ASSUME NEW I \in SUBSET Nat, (IF I # {} THEN Min(I) ELSE 0) # 0
    PROVE  (IF I # {} THEN Min(I) ELSE 0) \in I
<1>1. I # {}
  OBVIOUS
<1>2. \E x \in I : \A y \in I : x <= y
  BY <1>1, LeastElement
<1>3. Min(I) \in I
  BY <1>2 DEF Min
<1> QED
  BY <1>1, <1>3

LEMMA FitIsLegal ==
    ASSUME NEW h \in Hosts, Fit(h)
    PROVE  LegalDevice(Device(h), FindGraphicsPresentQueueFamily(Device(h)), FindDepthFormat(Device(h)),
                       GetMaxUsableSampleCount(Device(h)))
<1> DEFINE n == SelectPhysicalDevice(h.devices)
           device == Device(h)
           family == FindGraphicsPresentQueueFamily(device)
           format == FindDepthFormat(device)
           samples == GetMaxUsableSampleCount(device)
<1>1. n \in 1 .. Len(h.devices) /\ IsPhysicalDeviceSuitable(h.devices[n])
  <2> DEFINE I == {i \in 1 .. Len(h.devices) : IsPhysicalDeviceSuitable(h.devices[i])}
  <2>1. n = IF I # {} THEN Min(I) ELSE 0
    BY DEF SelectPhysicalDevice, SelectInSeq
  <2>2. I \in SUBSET Nat
    OBVIOUS
  <2>3. n # 0
    BY DEF Fit
  <2> HIDE DEF I, n
  <2>4. n \in I
    BY <2>1, <2>2, <2>3, LeastOfTheFit
  <2> QED
    BY <2>4 DEF I
<1>2. device = h.devices[n]
  BY DEF Device
<1>3. device.families[family].graphics /\ device.families[family].present
  <2> DEFINE I == {i \in 1 .. Len(device.families) : device.families[i].graphics /\ device.families[i].present}
  <2>1. family = IF I # {} THEN Min(I) ELSE 0
    BY DEF FindGraphicsPresentQueueFamily, SelectInSeq
  <2>2. I \in SUBSET Nat
    OBVIOUS
  <2>3. family # 0
    BY DEF Fit
  <2> HIDE DEF I, family
  <2>4. family \in I
    BY <2>1, <2>2, <2>3, LeastOfTheFit
  <2> QED
    BY <2>4 DEF I
<1>4. format \in device.depthFormats
  <2> DEFINE I == {i \in 1 .. Len(DepthCandidates) : DepthCandidates[i] \in device.depthFormats}
             found == SelectInSeq(DepthCandidates, LAMBDA f : f \in device.depthFormats)
  <2>1. found = IF I # {} THEN Min(I) ELSE 0
    BY DEF SelectInSeq
  <2>2. I \in SUBSET Nat
    OBVIOUS
  <2>3. format = IF found = 0 THEN "none" ELSE DepthCandidates[found]
    BY DEF FindDepthFormat
  <2>4. format # "none"
    BY DEF Fit
  <2> HIDE DEF I, found, format
  <2>5. found \in I
    BY <2>1, <2>2, <2>3, <2>4, LeastOfTheFit
  <2> QED
    BY <2>3, <2>4, <2>5 DEF I
<1>5. samples \in device.colourSamples \cap device.depthSamples
  <2> DEFINE common == device.colourSamples \cap device.depthSamples
             S == {1} \cup (common \cap {2, 4, 8, 16, 32, 64})
  <2>1. 1 \in common
    BY <1>1, <1>2, SampleAssumption
  <2>2. S \in SUBSET (1 .. 64) /\ S \subseteq common
    BY <2>1
  <2>3. \E x \in S : \A y \in S : x >= y
    <3> DEFINE T == {64 - x : x \in S}
    <3>1. T \in SUBSET Nat /\ T # {}
      BY <2>2
    <3> HIDE DEF T
    <3>2. PICK t \in T : \A u \in T : t <= u
      BY <3>1, LeastElement
    <3>3. PICK x \in S : t = 64 - x
      BY DEF T
    <3>4. \A y \in S : 64 - x <= 64 - y
      <4>1. \A y \in S : 64 - y \in T
        BY DEF T
      <4> HIDE DEF S
      <4> QED
        BY <3>2, <3>3, <4>1
    <3> QED
      BY <2>2, <3>4
  <2>4. samples = Max(S)
    BY DEF GetMaxUsableSampleCount
  <2> HIDE DEF S
  <2>5. Max(S) \in S
    BY <2>3 DEF Max
  <2> QED
    BY <2>2, <2>4, <2>5
<1>6. /\ device.api >= 13 /\ "swapchain" \in device.extensions
      /\ RequiredFeatures \subseteq device.features
  BY <1>1, <1>2 DEF IsPhysicalDeviceSuitable, RequiredExtensions
<1> QED
  BY <1>3, <1>4, <1>5, <1>6 DEF LegalDevice

LEMMA CapturableFits == \A format : Capturable(format) => BytesPerPixel(format) <= 4
  BY DEF Capturable, BytesPerPixel
-----------------------------------------------------------------------------
(* What is drawn into.                                                     *)

LEMMA BringsCalm ==
    ASSUME NEW H, NEW h, NEW c, NEW looks, NEW levels, NEW fact \in BOOLEAN,
           Viewed(h, c, looks, levels, fact) \subseteq H, \A l \in DOMAIN levels : levels[l].dirty = {},
           NEW p, Calm(p)
    PROVE  Brings(H, Viewed(h, c, looks, levels, fact), p, Viewed(h, c, looks, levels, fact))
BY ViewedSteady DEF Calm

LEMMA BringsFound ==
    ASSUME NEW h, NEW c, NEW looks, NEW levels, NEW fact \in BOOLEAN, NEW found \in BOOLEAN
    PROVE  Brings(Sights, Viewed(h, c, looks, levels, fact), Needed(found),
                  Viewed(h, c, looks, levels, fact /\ found))
<1> DEFINE A == Viewed(h, c, looks, levels, fact)
<1>1. A \in SUBSET Sights
  BY DEF Viewed
<1>2. {n \in A : found} \subseteq Viewed(h, c, looks, levels, fact /\ found)
  BY DEF Viewed
<1> HIDE DEF A
<1>3. Brings(Sights, A, Needed(found), {n \in A : found})
  BY <1>1, BringsNeeded
<1> QED
  BY <1>2, <1>3, BringsInto DEF A

Fresh == Look({"undefined"}, {}, {})

LEMMA BringsAttachment ==
    ASSUME NEW h, NEW c \in Chains, NEW looks, NEW levels, NEW fact \in BOOLEAN,
           \A l \in DOMAIN levels : levels[l].dirty = {},
           NEW o \in {"msaa", "depth"}
    PROVE  Brings(Sights, Viewed(h, c, looks, levels, fact), CreateImage(h, o, c.choice.extent, 1),
                  Viewed(h, c, Put(looks, o, Fresh), levels, fact))
<1> DEFINE A == Viewed(h, c, looks, levels, fact)
           B == Viewed(h, c, Put(looks, o, Fresh), levels, fact)
           extent == c.choice.extent
           e == MipExtent(extent, 0)
           found == FindMemoryType(h.memory, h.imageTypes, DeviceLocal) # 0
           first == Make(o) \o Needed(found) \o Check({o}) \o Check({o})
           parts == [l \in 1 .. 1 |-> Image(o, l - 1, MipExtent(extent, l - 1))]
<1>1. extent \in [1..2 -> Nat]
  BY ChainIs
<1>2. e \in [1..2 -> Nat] /\ \A i \in 1..2 : extent[i] <= e[i]
  BY <1>1, MipExtentIs
<1>3. o \notin Telling /\ o \in Shown \ {"texture"}
  BY DEF Telling, Shown
<1>4. Calm(first)
  <2> HIDE DEF found
  <2> QED
    BY <1>3, CalmSteps, CalmOn
<1>5. CreateImage(h, o, extent, 1) = first \o FlattenSeq(parts)
  BY DEF CreateImage
<1>6. parts[1] = Image(o, 0, e) /\ parts = [i \in 1 .. 1 |-> parts[i]]
  OBVIOUS
<1> HIDE DEF e, first, parts, extent
<1>7. Brings(Sights, A, Image(o, 0, e), B)
  BY <1>2, <1>3, BringsImage DEF extent, Fresh
<1>8. A \subseteq Sights
  BY DEF Viewed
<1>9. Brings(Sights, A, first, A)
  BY <1>4, <1>8, BringsCalm
<1> HIDE DEF A, B
<1>10. Brings(Sights, A, FlattenSeq(parts), B)
  <2> DEFINE sets == [i \in 0 .. 1 |-> IF i = 0 THEN A ELSE B]
  <2>1. sets[0] = A /\ sets[1] = B /\ \A i \in 1 .. 1 : sets[i - 1] = A /\ sets[i] = B
    OBVIOUS
  <2> HIDE DEF sets
  <2>2. \A i \in 1 .. 1 : Brings(Sights, sets[i - 1], parts[i], sets[i])
    BY <1>6, <1>7, <2>1
  <2>3. Brings(Sights, sets[0], FlattenSeq(parts), sets[1])
    BY <1>6, <2>2, BringsFlattened
  <2> QED
    BY <2>1, <2>3
<1>11. Brings(Sights, A, first \o FlattenSeq(parts), B)
  BY <1>9, <1>10, BringsOn
<1> QED
  BY <1>5, <1>11 DEF A, B, extent

\* Both attachments, as large as the chain's images.
LEMMA BringsTargets ==
    ASSUME NEW h, NEW c \in Chains, NEW looks, NEW levels, NEW fact \in BOOLEAN,
           \A l \in DOMAIN levels : levels[l].dirty = {}
    PROVE  /\ Brings(Sights, Viewed(h, c, looks, levels, fact), CreateMultisampleColorResources(h, c.choice.extent),
                     Viewed(h, c, Put(looks, "msaa", Fresh), levels, fact))
           /\ Brings(Sights, Viewed(h, c, looks, levels, fact), CreateDepthResources(h, c.choice.extent),
                     Viewed(h, c, Put(looks, "depth", Fresh), levels, fact))
<1> DEFINE A == Viewed(h, c, looks, levels, fact)
           B(o) == Viewed(h, c, Put(looks, o, Fresh), levels, fact)
<1>1. Brings(Sights, A, CreateImage(h, "msaa", c.choice.extent, 1), B("msaa"))
      /\ Brings(Sights, A, CreateImage(h, "depth", c.choice.extent, 1), B("depth"))
  BY BringsAttachment
<1>2. \A o : B(o) \subseteq Sights
  BY DEF Viewed
<1>3. Calm(CreateImageView("msaaView")) /\ Calm(CreateImageView("depthView"))
  BY CalmSteps DEF CreateImageView, Telling
<1>4. /\ Brings(Sights, B("msaa"), CreateImageView("msaaView"), B("msaa"))
      /\ Brings(Sights, B("depth"), CreateImageView("depthView"), B("depth"))
  BY <1>2, <1>3, BringsCalm
<1> HIDE DEF A, B
<1>5. /\ Brings(Sights, A, CreateMultisampleColorResources(h, c.choice.extent), B("msaa"))
      /\ Brings(Sights, A, CreateDepthResources(h, c.choice.extent), B("depth"))
  BY <1>1, <1>4, BringsOn DEF CreateMultisampleColorResources, CreateDepthResources
<1> QED
  BY <1>5 DEF A, B

\* The chain and its images' views.
LEMMA BringsSwapChain ==
    ASSUME NEW h, NEW c, NEW looks, NEW levels, NEW fact \in BOOLEAN,
           \A l \in DOMAIN levels : levels[l].dirty = {},
           NEW surface \in Surfaces, NEW size \in FramebufferSizes,
           NEW d, d = [surface |-> surface, choice |-> SwapChainChoice(surface, size)]
    PROVE  /\ d \in Chains
           /\ Brings(Sights, Viewed(h, c, looks, levels, fact), CreateSwapChainResources(surface, size),
                     Viewed(h, d, <<>>, levels, fact))
<1> DEFINE A == Viewed(h, c, looks, levels, fact)
           B == Viewed(h, d, <<>>, levels, fact)
           first == Check({"device", "surface"}) \o Make("swapChain") \o Check({"swapChain"})
<1>1. d \in Chains
  BY DEF Chains, Surfaces
<1>2. Calm(first)
  BY CalmSteps, CalmOn DEF Telling
<1>3. A \subseteq Sights /\ B \subseteq Sights
  BY DEF Viewed
<1>4. Brings(Sights, A, first, A)
  BY <1>2, <1>3, BringsCalm
<1>5. Brings(Sights, A, Chain(d), B)
  BY <1>1, BringsChain
<1>6. Brings(Sights, B, Make("swapViews"), B)
  <2>1. "swapViews" \in Telling /\ "swapViews" # "fences" /\ "swapViews" # "readback"
    BY DEF Telling
  <2> QED
    BY <1>1, <1>3, <2>1, BringsMake
<1>7. CreateSwapChainResources(surface, size) = first \o Chain(d) \o Make("swapViews")
  BY DEF CreateSwapChainResources, CreateImageView
<1> HIDE DEF A, B, first
<1>8. Brings(Sights, A, CreateSwapChainResources(surface, size), B)
  BY <1>4, <1>5, <1>6, <1>7, BringsOn
<1> QED
  BY <1>1, <1>8 DEF A, B
-----------------------------------------------------------------------------
(* The texture: each level through its layouts.                            *)

LevelIs(layout, dirty, access, size) ==
    [layout |-> layout, dirty |-> dirty, visible |-> {access}, extent |-> size]

\* A level that is made, ready to be written, written, read from, and done with.
Blank(e) == LevelIs("transferDst", {}, "transferWrite", e)
Written(e) == LevelIs("transferDst", {"transferWrite"}, "transferWrite", e)
Source(e) == LevelIs("transferSrc", {}, "transferRead", e)
Sampled(e) == LevelIs("shaderRead", {}, "sampledRead", e)

\* The levels as they are made, as they are readied, and as they are written:
\* level j is written, those before it are done with.
MadeTo(extent, j) == [l \in 0 .. j - 1 |-> NewImage(MipExtent(extent, l))]
ReadyTo(extent, k, j) ==
    [l \in 0 .. k - 1 |-> IF l < j THEN Blank(MipExtent(extent, l)) ELSE NewImage(MipExtent(extent, l))]
WrittenTo(extent, k, j) ==
    [l \in 0 .. k - 1 |-> IF l < j THEN Sampled(MipExtent(extent, l))
                          ELSE IF l = j THEN Written(MipExtent(extent, l)) ELSE Blank(MipExtent(extent, l))]
AllSampled(extent, k) == [l \in 0 .. k - 1 |-> Sampled(MipExtent(extent, l))]

LEMMA LevelsAre ==
    /\ \A e : /\ Blank(e).layout = "transferDst" /\ Blank(e).dirty = {}
              /\ Blank(e).visible = {"transferWrite"} /\ Blank(e).extent = e
              /\ Written(e).layout = "transferDst" /\ Written(e).dirty = {"transferWrite"}
              /\ Written(e).visible = {"transferWrite"} /\ Written(e).extent = e
    /\ \A e : /\ Source(e).layout = "transferSrc" /\ Source(e).dirty = {}
              /\ Source(e).visible = {"transferRead"} /\ Source(e).extent = e
              /\ Sampled(e).layout = "shaderRead" /\ Sampled(e).dirty = {}
              /\ Sampled(e).visible = {"sampledRead"} /\ Sampled(e).extent = e
    /\ \A e : NewImage(e).layout = "undefined" /\ NewImage(e).dirty = {} /\ NewImage(e).extent = e
BY DEF Blank, Written, Source, Sampled, LevelIs, NewImage

\* Access to a single level, and what it becomes.
LEMMA LevelSteps ==
    ASSUME NEW h, NEW c, NEW looks, NEW levels, NEW fact \in BOOLEAN,
           "texture" \notin DOMAIN looks, NEW l \in Nat, l \in DOMAIN levels, NEW e
    PROVE  /\ levels[l] = NewImage(e) =>
                 Brings(Sights, Viewed(h, c, looks, levels, fact),
                        TransitionImageLayout("texture", l, "undefined", "transferDst", {}, {"transferWrite"}),
                        Viewed(h, c, looks, Put(levels, l, Blank(e)), fact))
           /\ levels[l] = Written(e) =>
                 Brings(Sights, Viewed(h, c, looks, levels, fact),
                        TransitionImageLayout("texture", l, "transferDst", "transferSrc",
                                              {"transferWrite"}, {"transferRead"}),
                        Viewed(h, c, looks, Put(levels, l, Source(e)), fact))
           /\ levels[l] = Source(e) =>
                 Brings(Sights, Viewed(h, c, looks, levels, fact),
                        TransitionImageLayout("texture", l, "transferSrc", "shaderRead",
                                              {"transferRead"}, {"sampledRead"}),
                        Viewed(h, c, looks, Put(levels, l, Sampled(e)), fact))
           /\ levels[l] = Written(e) =>
                 Brings(Sights, Viewed(h, c, looks, levels, fact),
                        TransitionImageLayout("texture", l, "transferDst", "shaderRead",
                                              {"transferWrite"}, {"sampledRead"}),
                        Viewed(h, c, looks, Put(levels, l, Sampled(e)), fact))
           /\ \A size : levels[l] = Source(e) /\ (\A i \in 1..2 : size[i] <= e[i]) =>
                 Brings(Sights, Viewed(h, c, looks, levels, fact),
                        Use("texture", l, "transferSrc", {"transferRead"}, size),
                        Viewed(h, c, looks, Put(levels, l, Source(e)), fact))
           /\ \A size : levels[l] = Blank(e) /\ (\A i \in 1..2 : size[i] <= e[i]) =>
                 Brings(Sights, Viewed(h, c, looks, levels, fact),
                        Use("texture", l, "transferDst", {"transferWrite"}, size),
                        Viewed(h, c, looks, Put(levels, l, Written(e)), fact))
<1>1. {"transferDst", "transferSrc", "shaderRead"} \subseteq Layouts
      /\ {"transferWrite", "transferRead", "sampledRead"} \subseteq Accesses
  BY DEF Layouts, Accesses
<1>2. /\ {"transferWrite"} # {} /\ {"transferRead"} # {} /\ {"sampledRead"} # {}
      /\ {"transferWrite"} \in SUBSET Accesses /\ {"transferRead"} \in SUBSET Accesses
      /\ {"sampledRead"} \in SUBSET Accesses
  BY <1>1
<1>3. ASSUME levels[l] = NewImage(e)
      PROVE  Brings(Sights, Viewed(h, c, looks, levels, fact),
                    TransitionImageLayout("texture", l, "undefined", "transferDst", {}, {"transferWrite"}),
                    Viewed(h, c, looks, Put(levels, l, Blank(e)), fact))
  <2>1. "undefined" \in {"undefined", levels[l].layout} /\ levels[l].dirty \subseteq {} /\ levels[l].extent = e
    BY <1>3, LevelsAre
  <2>2. Blank(e) = [layout |-> "transferDst",
                    dirty |-> IF {"transferWrite"} = {} THEN {"transition"} ELSE {},
                    visible |-> {"transferWrite"}, extent |-> levels[l].extent]
    BY <1>2, <2>1 DEF Blank, LevelIs
  <2> QED
    BY <1>1, <1>2, <2>1, <2>2, BringsLevelTransition
<1>4. ASSUME levels[l] = Written(e)
      PROVE  Brings(Sights, Viewed(h, c, looks, levels, fact),
                    TransitionImageLayout("texture", l, "transferDst", "transferSrc",
                                          {"transferWrite"}, {"transferRead"}),
                    Viewed(h, c, looks, Put(levels, l, Source(e)), fact))
  <2>1. "transferDst" \in {"undefined", levels[l].layout} /\ levels[l].dirty \subseteq {"transferWrite"}
        /\ levels[l].extent = e
    BY <1>4, LevelsAre
  <2>2. Source(e) = [layout |-> "transferSrc",
                     dirty |-> IF {"transferRead"} = {} THEN {"transition"} ELSE {},
                     visible |-> {"transferRead"}, extent |-> levels[l].extent]
    BY <1>2, <2>1 DEF Source, LevelIs
  <2> QED
    BY <1>1, <1>2, <2>1, <2>2, BringsLevelTransition
<1>5. ASSUME levels[l] = Source(e)
      PROVE  Brings(Sights, Viewed(h, c, looks, levels, fact),
                    TransitionImageLayout("texture", l, "transferSrc", "shaderRead",
                                          {"transferRead"}, {"sampledRead"}),
                    Viewed(h, c, looks, Put(levels, l, Sampled(e)), fact))
  <2>1. "transferSrc" \in {"undefined", levels[l].layout} /\ levels[l].dirty \subseteq {"transferRead"}
        /\ levels[l].extent = e
    BY <1>5, LevelsAre
  <2>2. Sampled(e) = [layout |-> "shaderRead",
                      dirty |-> IF {"sampledRead"} = {} THEN {"transition"} ELSE {},
                      visible |-> {"sampledRead"}, extent |-> levels[l].extent]
    BY <1>2, <2>1 DEF Sampled, LevelIs
  <2> QED
    BY <1>1, <1>2, <2>1, <2>2, BringsLevelTransition
<1>6. ASSUME levels[l] = Written(e)
      PROVE  Brings(Sights, Viewed(h, c, looks, levels, fact),
                    TransitionImageLayout("texture", l, "transferDst", "shaderRead",
                                          {"transferWrite"}, {"sampledRead"}),
                    Viewed(h, c, looks, Put(levels, l, Sampled(e)), fact))
  <2>1. "transferDst" \in {"undefined", levels[l].layout} /\ levels[l].dirty \subseteq {"transferWrite"}
        /\ levels[l].extent = e
    BY <1>6, LevelsAre
  <2>2. Sampled(e) = [layout |-> "shaderRead",
                      dirty |-> IF {"sampledRead"} = {} THEN {"transition"} ELSE {},
                      visible |-> {"sampledRead"}, extent |-> levels[l].extent]
    BY <1>2, <2>1 DEF Sampled, LevelIs
  <2> QED
    BY <1>1, <1>2, <2>1, <2>2, BringsLevelTransition
<1>7. ASSUME NEW size, levels[l] = Source(e), \A i \in 1..2 : size[i] <= e[i]
      PROVE  Brings(Sights, Viewed(h, c, looks, levels, fact),
                    Use("texture", l, "transferSrc", {"transferRead"}, size),
                    Viewed(h, c, looks, Put(levels, l, Source(e)), fact))
  <2>1. levels[l].layout = "transferSrc" /\ levels[l].dirty = {} /\ levels[l].visible = {"transferRead"}
        /\ levels[l].extent = e
    BY <1>7, LevelsAre
  <2>2. {"transferRead"} \cap Writes = {}
    BY DEF Writes
  <2>3. Source(e) = [layout |-> levels[l].layout, dirty |-> {"transferRead"} \cap Writes,
                     visible |-> levels[l].visible, extent |-> levels[l].extent]
    BY <2>1, <2>2 DEF Source, LevelIs
  <2>4. Brings(Sights, Viewed(h, c, looks, levels, fact),
               Use("texture", l, levels[l].layout, {"transferRead"}, size),
               Viewed(h, c, looks, Put(levels, l, Source(e)), fact))
    BY <1>2, <1>7, <2>1, <2>3, BringsLevelUse
  <2> QED
    BY <2>1, <2>4
<1>8. ASSUME NEW size, levels[l] = Blank(e), \A i \in 1..2 : size[i] <= e[i]
      PROVE  Brings(Sights, Viewed(h, c, looks, levels, fact),
                    Use("texture", l, "transferDst", {"transferWrite"}, size),
                    Viewed(h, c, looks, Put(levels, l, Written(e)), fact))
  <2>1. levels[l].layout = "transferDst" /\ levels[l].dirty = {} /\ levels[l].visible = {"transferWrite"}
        /\ levels[l].extent = e
    BY <1>8, LevelsAre
  <2>2. {"transferWrite"} \cap Writes = {"transferWrite"}
    BY DEF Writes
  <2>3. Written(e) = [layout |-> levels[l].layout, dirty |-> {"transferWrite"} \cap Writes,
                      visible |-> levels[l].visible, extent |-> levels[l].extent]
    BY <2>1, <2>2 DEF Written, LevelIs
  <2>4. Brings(Sights, Viewed(h, c, looks, levels, fact),
               Use("texture", l, levels[l].layout, {"transferWrite"}, size),
               Viewed(h, c, looks, Put(levels, l, Written(e)), fact))
    BY <1>2, <1>8, <2>1, <2>3, BringsLevelUse
  <2> QED
    BY <2>1, <2>4
<1> QED
  BY <1>3, <1>4, <1>5, <1>6, <1>7, <1>8
LEMMA ViewedLevels ==
    ASSUME NEW h, NEW c, NEW looks, NEW levels, NEW fact \in BOOLEAN,
           NEW levels2, \A l \in DOMAIN levels2 : l \in DOMAIN levels /\ levels2[l] = levels[l]
    PROVE  Viewed(h, c, looks, levels, fact) \subseteq Viewed(h, c, looks, levels2, fact)
BY DEF Viewed

LEMMA BringsMade ==
    ASSUME NEW h, NEW c, NEW looks, NEW fact \in BOOLEAN, "texture" \notin DOMAIN looks,
           NEW extent \in [1..2 -> Nat], NEW k \in Nat
    PROVE  Brings(Sights, Viewed(h, c, looks, <<>>, fact), CreateImage(h, "texture", extent, k),
                  Viewed(h, c, looks, MadeTo(extent, k), fact))
<1> DEFINE A(j) == Viewed(h, c, looks, MadeTo(extent, j), fact)
           found == FindMemoryType(h.memory, h.imageTypes, DeviceLocal) # 0
           first == Make("texture") \o Needed(found) \o Check({"texture"}) \o Check({"texture"})
           parts == [l \in 1 .. k |-> Image("texture", l - 1, MipExtent(extent, l - 1))]
           V0 == Viewed(h, c, looks, <<>>, fact)
<1>1. CreateImage(h, "texture", extent, k) = first \o FlattenSeq(parts)
  BY DEF CreateImage
<1>2. Brings(Sights, V0, first, V0)
  <2>1. Calm(first)
    <3> HIDE DEF found
    <3> QED
      BY CalmSteps, CalmOn DEF Telling
  <2>2. V0 \subseteq Sights /\ \A l \in DOMAIN <<>> : <<>>[l].dirty = {}
    BY DEF Viewed
  <2> HIDE DEF first
  <2> QED
    BY <2>1, <2>2, BringsCalm
<1>3. V0 \subseteq A(0)
  <2>1. \A l \in DOMAIN MadeTo(extent, 0) : l \in DOMAIN <<>> /\ MadeTo(extent, 0)[l] = <<>>[l]
    BY DEF MadeTo
  <2> QED
    BY <2>1, ViewedLevels
<1>4. ASSUME NEW j \in 1 .. k PROVE Brings(Sights, A(j - 1), parts[j], A(j))
  <2> DEFINE e == MipExtent(extent, j - 1)
             put == Put(MadeTo(extent, j - 1), j - 1, NewImage(e))
  <2>1. j - 1 \in Nat /\ e \in [1..2 -> Nat]
    <3>1. j - 1 \in Nat
      OBVIOUS
    <3> QED
      BY <3>1, MipExtentIs
  <2>2. parts[j] = Image("texture", j - 1, e)
    OBVIOUS
  <2>3. Brings(Sights, A(j - 1), Image("texture", j - 1, e), Viewed(h, c, looks, put, fact))
    <3> HIDE DEF e
    <3> QED
      BY <2>1, BringsLevelImage
  <2>4. Viewed(h, c, looks, put, fact) \subseteq A(j)
    <3>1. \A l \in DOMAIN MadeTo(extent, j) : l \in DOMAIN put /\ MadeTo(extent, j)[l] = put[l]
      <4>1. /\ DOMAIN put = DOMAIN MadeTo(extent, j - 1) \cup {j - 1} /\ put[j - 1] = NewImage(e)
            /\ \A l \in DOMAIN MadeTo(extent, j - 1) : l # j - 1 => put[l] = MadeTo(extent, j - 1)[l]
        <5> HIDE DEF e
        <5> QED
          BY DEF Put
      <4> HIDE DEF put
      <4> QED
        BY <2>1, <4>1 DEF MadeTo
    <3> HIDE DEF put
    <3> QED
      BY <3>1, ViewedLevels
  <2> HIDE DEF A, parts, put
  <2> QED
    BY <2>2, <2>3, <2>4, BringsInto
<1>5. parts = [i \in 1 .. k |-> parts[i]]
  OBVIOUS
<1> HIDE DEF first, parts, V0, A
<1>6. Brings(Sights, A(0), FlattenSeq(parts), A(k))
  <2> DEFINE sets == [i \in 0 .. k |-> A(i)]
  <2>1. sets[0] = A(0) /\ sets[k] = A(k) /\ \A i \in 1 .. k : sets[i - 1] = A(i - 1) /\ sets[i] = A(i)
    OBVIOUS
  <2> HIDE DEF sets
  <2>2. \A i \in 1 .. k : Brings(Sights, sets[i - 1], parts[i], sets[i])
    BY <1>4, <2>1
  <2>3. Brings(Sights, sets[0], FlattenSeq(parts), sets[k])
    BY <1>5, <2>2, BringsFlattened
  <2> QED
    BY <2>1, <2>3
<1>7. Brings(Sights, V0, first, A(0))
  BY <1>2, <1>3, BringsInto
<1>8. Brings(Sights, V0, first \o FlattenSeq(parts), A(k))
  BY <1>6, <1>7, BringsOn
<1> QED
  BY <1>1, <1>8 DEF A, V0

LEMMA BringsReadied ==
    ASSUME NEW h, NEW c, NEW looks, NEW fact \in BOOLEAN, "texture" \notin DOMAIN looks,
           NEW extent \in [1..2 -> Nat], NEW k \in Nat
    PROVE  Brings(Sights, Viewed(h, c, looks, MadeTo(extent, k), fact),
                  FlattenSeq([l \in 1 .. k |->
                      TransitionImageLayout("texture", l - 1, "undefined", "transferDst", {}, {"transferWrite"})]),
                  Viewed(h, c, looks, ReadyTo(extent, k, k), fact))
<1> DEFINE A(j) == Viewed(h, c, looks, ReadyTo(extent, k, j), fact)
           parts == [l \in 1 .. k |->
                      TransitionImageLayout("texture", l - 1, "undefined", "transferDst", {}, {"transferWrite"})]
           V0 == Viewed(h, c, looks, MadeTo(extent, k), fact)
<1>3. V0 \subseteq A(0)
  <2>1. \A l \in DOMAIN ReadyTo(extent, k, 0) :
            l \in DOMAIN MadeTo(extent, k) /\ ReadyTo(extent, k, 0)[l] = MadeTo(extent, k)[l]
    BY DEF MadeTo, ReadyTo
  <2> QED
    BY <2>1, ViewedLevels
<1>4. ASSUME NEW j \in 1 .. k PROVE Brings(Sights, A(j - 1), parts[j], A(j))
  <2> DEFINE e == MipExtent(extent, j - 1)
             levels == ReadyTo(extent, k, j - 1)
             put == Put(levels, j - 1, Blank(e))
             s == TransitionImageLayout("texture", j - 1, "undefined", "transferDst", {}, {"transferWrite"})
  <2>1. j - 1 \in Nat /\ j - 1 \in DOMAIN levels /\ levels[j - 1] = NewImage(e)
    BY DEF ReadyTo
  <2>2. parts[j] = s
    OBVIOUS
  <2>3. Brings(Sights, A(j - 1), s, Viewed(h, c, looks, put, fact))
    <3> HIDE DEF e, levels
    <3> QED
      BY <2>1, LevelSteps DEF levels
  <2>4. Viewed(h, c, looks, put, fact) \subseteq A(j)
    <3>1. \A l \in DOMAIN ReadyTo(extent, k, j) : l \in DOMAIN put /\ ReadyTo(extent, k, j)[l] = put[l]
      <4>1. /\ DOMAIN put = DOMAIN levels \cup {j - 1} /\ put[j - 1] = Blank(e)
            /\ \A l \in DOMAIN levels : l # j - 1 => put[l] = levels[l]
        <5> HIDE DEF e
        <5> QED
          BY DEF Put
      <4> HIDE DEF put
      <4> QED
        BY <2>1, <4>1 DEF ReadyTo
    <3> HIDE DEF put
    <3> QED
      BY <3>1, ViewedLevels
  <2> HIDE DEF A, parts, put, s
  <2> QED
    BY <2>2, <2>3, <2>4, BringsInto
<1>5. parts = [i \in 1 .. k |-> parts[i]]
  OBVIOUS
<1> HIDE DEF parts, V0, A
<1>6. Brings(Sights, A(0), FlattenSeq(parts), A(k))
  <2> DEFINE sets == [i \in 0 .. k |-> A(i)]
  <2>1. sets[0] = A(0) /\ sets[k] = A(k) /\ \A i \in 1 .. k : sets[i - 1] = A(i - 1) /\ sets[i] = A(i)
    OBVIOUS
  <2> HIDE DEF sets
  <2>2. \A i \in 1 .. k : Brings(Sights, sets[i - 1], parts[i], sets[i])
    BY <1>4, <2>1
  <2>3. Brings(Sights, sets[0], FlattenSeq(parts), sets[k])
    BY <1>5, <2>2, BringsFlattened
  <2> QED
    BY <2>1, <2>3
<1>8. Brings(Sights, V0, FlattenSeq(parts), A(k))
  BY <1>3, <1>6, BringsInto
<1> QED
  BY <1>8 DEF A, V0, parts
\* The image's pixels go to its first level.
LEMMA BringsCopied ==
    ASSUME NEW h, NEW c, NEW looks, NEW fact \in BOOLEAN, "texture" \notin DOMAIN looks,
           NEW extent \in [1..2 -> Nat], NEW k \in Nat \ {0}
    PROVE  Brings(Sights, Viewed(h, c, looks, ReadyTo(extent, k, k), fact), CopyBufferToImage(extent),
                  Viewed(h, c, looks, WrittenTo(extent, k, 0), fact))
<1> DEFINE e == MipExtent(extent, 0)
           levels == ReadyTo(extent, k, k)
           put == Put(levels, 0, Written(e))
<1>1. 0 \in Nat /\ 0 \in DOMAIN levels /\ levels[0] = Blank(e)
  BY DEF ReadyTo
<1>2. \A i \in 1..2 : extent[i] <= e[i]
  BY MipExtentIs
<1>3. Brings(Sights, Viewed(h, c, looks, levels, fact), CopyBufferToImage(extent), Viewed(h, c, looks, put, fact))
  <2> HIDE DEF e, levels
  <2> QED
    BY <1>1, <1>2, LevelSteps DEF CopyBufferToImage
<1>4. Viewed(h, c, looks, put, fact) \subseteq Viewed(h, c, looks, WrittenTo(extent, k, 0), fact)
  <2>1. \A l \in DOMAIN WrittenTo(extent, k, 0) : l \in DOMAIN put /\ WrittenTo(extent, k, 0)[l] = put[l]
    <3>1. /\ DOMAIN put = DOMAIN levels \cup {0} /\ put[0] = Written(e)
          /\ \A l \in DOMAIN levels : l # 0 => put[l] = levels[l]
      <4> HIDE DEF e
      <4> QED
        BY DEF Put
    <3> HIDE DEF put
    <3> QED
      BY <1>1, <3>1 DEF WrittenTo, ReadyTo
  <2> HIDE DEF put
  <2> QED
    BY <2>1, ViewedLevels
<1> HIDE DEF put, levels
<1>5. Brings(Sights, Viewed(h, c, looks, levels, fact), CopyBufferToImage(extent),
             Viewed(h, c, looks, WrittenTo(extent, k, 0), fact))
  BY <1>3, <1>4, BringsInto
<1> QED
  BY <1>5 DEF levels

\* A level is read into the one below and done with.
LEMMA BringsBlit ==
    ASSUME NEW h, NEW c, NEW looks, NEW fact \in BOOLEAN, "texture" \notin DOMAIN looks,
           NEW extent \in [1..2 -> Nat], NEW k \in Nat, NEW j \in 1 .. k - 1,
           NEW above, \A i \in 1..2 : above[i] <= MipExtent(extent, j - 1)[i],
           NEW below, \A i \in 1..2 : below[i] <= MipExtent(extent, j)[i]
    PROVE  Brings(Sights, Viewed(h, c, looks, WrittenTo(extent, k, j - 1), fact),
                  TransitionImageLayout("texture", j - 1, "transferDst", "transferSrc",
                                        {"transferWrite"}, {"transferRead"})
                  \o Use("texture", j - 1, "transferSrc", {"transferRead"}, above)
                  \o Use("texture", j, "transferDst", {"transferWrite"}, below)
                  \o TransitionImageLayout("texture", j - 1, "transferSrc", "shaderRead",
                                           {"transferRead"}, {"sampledRead"}),
                  Viewed(h, c, looks, WrittenTo(extent, k, j), fact))
<1> DEFINE d == MipExtent(extent, j - 1)
           e == MipExtent(extent, j)
           i == j - 1
           l0 == WrittenTo(extent, k, j - 1)
           l1 == Put(l0, i, Source(d))
           l2 == Put(l1, i, Source(d))
           l3 == Put(l2, j, Written(e))
           l4 == Put(l3, i, Sampled(d))
           V(levels) == Viewed(h, c, looks, levels, fact)
           s1 == TransitionImageLayout("texture", i, "transferDst", "transferSrc", {"transferWrite"}, {"transferRead"})
           s2 == Use("texture", i, "transferSrc", {"transferRead"}, above)
           s3 == Use("texture", j, "transferDst", {"transferWrite"}, below)
           s4 == TransitionImageLayout("texture", i, "transferSrc", "shaderRead", {"transferRead"}, {"sampledRead"})
<1>1. i \in Nat /\ j \in Nat /\ i # j /\ DOMAIN l0 = 0 .. k - 1 /\ i \in 0 .. k - 1 /\ j \in 0 .. k - 1
  BY DEF WrittenTo
<1>2. l0[i] = Written(d) /\ l0[j] = Blank(e)
  BY DEF WrittenTo
<1>3. (\A x \in 1..2 : above[x] <= d[x]) /\ (\A x \in 1..2 : below[x] <= e[x])
  OBVIOUS
<1>4. \A l \in 0 .. k - 1 : /\ WrittenTo(extent, k, j)[l] = IF l = i THEN Sampled(d) ELSE IF l = j THEN Written(e)
                                                            ELSE l0[l]
  BY DEF WrittenTo
<1>5. DOMAIN WrittenTo(extent, k, j) = 0 .. k - 1
  BY DEF WrittenTo
<1> HIDE DEF i, l0, d, e
<1>6. DOMAIN l1 = 0 .. k - 1 /\ l1[i] = Source(d) /\ \A l \in 0 .. k - 1 : l # i => l1[l] = l0[l]
  BY <1>1 DEF Put
<1>7. Brings(Sights, V(l0), s1, V(l1))
  BY <1>1, <1>2, LevelSteps
<1> HIDE DEF l1
<1>8. DOMAIN l2 = 0 .. k - 1 /\ l2[i] = Source(d) /\ \A l \in 0 .. k - 1 : l # i => l2[l] = l1[l]
  BY <1>1, <1>6 DEF Put
<1>9. Brings(Sights, V(l1), s2, V(l2))
  BY <1>1, <1>3, <1>6, LevelSteps
<1> HIDE DEF l2
<1>10. DOMAIN l3 = 0 .. k - 1 /\ l3[j] = Written(e) /\ \A l \in 0 .. k - 1 : l # j => l3[l] = l2[l]
  BY <1>1, <1>8 DEF Put
<1>11. Brings(Sights, V(l2), s3, V(l3))
  <2>1. l2[j] = Blank(e)
    BY <1>1, <1>2, <1>6, <1>8
  <2> QED
    BY <1>1, <1>3, <1>8, <2>1, LevelSteps
<1> HIDE DEF l3
<1>12. DOMAIN l4 = 0 .. k - 1 /\ l4[i] = Sampled(d) /\ \A l \in 0 .. k - 1 : l # i => l4[l] = l3[l]
  BY <1>1, <1>10 DEF Put
<1>13. Brings(Sights, V(l3), s4, V(l4))
  <2>1. l3[i] = Source(d)
    BY <1>1, <1>8, <1>10
  <2> QED
    BY <1>1, <1>10, <2>1, LevelSteps
<1> HIDE DEF l4
<1>14. V(l4) \subseteq V(WrittenTo(extent, k, j))
  <2>1. \A l \in DOMAIN WrittenTo(extent, k, j) : l \in DOMAIN l4 /\ WrittenTo(extent, k, j)[l] = l4[l]
    BY <1>1, <1>4, <1>5, <1>6, <1>8, <1>10, <1>12
  <2> QED
    BY <2>1, ViewedLevels
<1> HIDE DEF V, s1, s2, s3, s4
<1>15. Brings(Sights, V(l0), s1 \o s2 \o s3 \o s4, V(l4))
  BY <1>7, <1>9, <1>11, <1>13, BringsOn
<1>16. Brings(Sights, V(l0), s1 \o s2 \o s3 \o s4, V(WrittenTo(extent, k, j)))
  BY <1>14, <1>15, BringsInto
<1> QED
  BY <1>16 DEF V, s1, s2, s3, s4, l0, i

LEMMA BringsMipmaps ==
    ASSUME NEW h, NEW c, NEW looks, NEW fact \in BOOLEAN, "texture" \notin DOMAIN looks,
           NEW extent \in [1..2 -> Nat], NEW k \in Nat \ {0}
    PROVE  Brings(Sights, Viewed(h, c, looks, WrittenTo(extent, k, 0), fact), GenerateMipmaps(extent, k),
                  Viewed(h, c, looks, AllSampled(extent, k), fact))
<1> DEFINE A(j) == Viewed(h, c, looks, WrittenTo(extent, k, j), fact)
           B == Viewed(h, c, looks, AllSampled(extent, k), fact)
           size == CHOOSE s : Sizes(s, extent, k)
           Blit(l) ==
             TransitionImageLayout("texture", l - 1, "transferDst", "transferSrc",
                                   {"transferWrite"}, {"transferRead"})
             \o Use("texture", l - 1, "transferSrc", {"transferRead"}, size[l - 1])
             \o Use("texture", l, "transferDst", {"transferWrite"}, size[l])
             \o TransitionImageLayout("texture", l - 1, "transferSrc", "shaderRead",
                                      {"transferRead"}, {"sampledRead"})
           parts == [l \in 1 .. k - 1 |-> Blit(l)]
           last == TransitionImageLayout("texture", k - 1, "transferDst", "shaderRead",
                                         {"transferWrite"}, {"sampledRead"})
<1>0. k \in Nat /\ k - 1 \in Nat
  OBVIOUS
<1>1. GenerateMipmaps(extent, k) = FlattenSeq(parts) \o last
  <2>1. GenerateMipmapsButTheLast(extent, k) = FlattenSeq(parts)
    BY DEF GenerateMipmapsButTheLast, Sizes
  <2> HIDE DEF parts
  <2> QED
    BY <2>1 DEF GenerateMipmaps
<1>2. \A l \in 0 .. k : \A i \in 1..2 : size[l][i] <= MipExtent(extent, l)[i]
  <2>1. Sizes(size, extent, k)
    BY <1>0, SizesExist
  <2> HIDE DEF size
  <2> QED
    BY <1>0, <2>1, SizesFit
<1> HIDE DEF size
<1>3. ASSUME NEW j \in 1 .. k - 1 PROVE Brings(Sights, A(j - 1), parts[j], A(j))
  <2>1. parts[j] = Blit(j)
    OBVIOUS
  <2>2. j - 1 \in 0 .. k /\ j \in 0 .. k
    OBVIOUS
  <2>3. /\ \A i \in 1..2 : size[j - 1][i] <= MipExtent(extent, j - 1)[i]
        /\ \A i \in 1..2 : size[j][i] <= MipExtent(extent, j)[i]
    BY <1>2, <2>2
  <2>4. Brings(Sights, A(j - 1), Blit(j), A(j))
    BY <1>0, <2>3, BringsBlit
  <2> HIDE DEF parts, Blit, A
  <2> QED
    BY <2>1, <2>4
<1>4. parts = [i \in 1 .. k - 1 |-> parts[i]]
  OBVIOUS
<1>5. Brings(Sights, A(k - 1), last, B)
  <2> DEFINE e == MipExtent(extent, k - 1)
             levels == WrittenTo(extent, k, k - 1)
             put == Put(levels, k - 1, Sampled(e))
  <2>1. k - 1 \in Nat /\ k - 1 \in DOMAIN levels /\ levels[k - 1] = Written(e)
    BY DEF WrittenTo
  <2>2. Brings(Sights, Viewed(h, c, looks, levels, fact), last, Viewed(h, c, looks, put, fact))
    <3> HIDE DEF e, levels
    <3> QED
      BY <2>1, LevelSteps
  <2>3. Viewed(h, c, looks, put, fact) \subseteq B
    <3>1. \A l \in DOMAIN AllSampled(extent, k) : l \in DOMAIN put /\ AllSampled(extent, k)[l] = put[l]
      <4>1. /\ DOMAIN put = DOMAIN levels \cup {k - 1} /\ put[k - 1] = Sampled(e)
            /\ \A l \in DOMAIN levels : l # k - 1 => put[l] = levels[l]
        <5> HIDE DEF e
        <5> QED
          BY DEF Put
      <4> HIDE DEF put
      <4> QED
        BY <2>1, <4>1 DEF WrittenTo, AllSampled
    <3> HIDE DEF put
    <3> QED
      BY <3>1, ViewedLevels
  <2> HIDE DEF A, B, put, last, levels
  <2>4. Brings(Sights, Viewed(h, c, looks, levels, fact), last, B)
    BY <2>2, <2>3, BringsInto
  <2> QED
    BY <2>4 DEF A, levels
<1> HIDE DEF parts, A, B, last
<1>6. Brings(Sights, A(0), FlattenSeq(parts), A(k - 1))
  <2> DEFINE sets == [i \in 0 .. k - 1 |-> A(i)]
  <2>1. sets[0] = A(0) /\ sets[k - 1] = A(k - 1) /\ \A i \in 1 .. k - 1 : sets[i - 1] = A(i - 1) /\ sets[i] = A(i)
    OBVIOUS
  <2> HIDE DEF sets
  <2>2. \A i \in 1 .. k - 1 : Brings(Sights, sets[i - 1], parts[i], sets[i])
    BY <1>3, <2>1
  <2>3. Brings(Sights, sets[0], FlattenSeq(parts), sets[k - 1])
    BY <1>0, <1>4, <2>2, BringsFlattened
  <2> QED
    BY <2>1, <2>3
<1>7. Brings(Sights, A(0), FlattenSeq(parts) \o last, B)
  BY <1>5, <1>6, BringsOn
<1> QED
  BY <1>1, <1>7 DEF A, B

TextureLevels(h) == AllSampled(h.texture, MipLevels(h.texture))

LEMMA TextureIs ==
    ASSUME NEW h \in Hosts
    PROVE  /\ h.texture \in [1..2 -> Nat] /\ MipLevels(h.texture) \in Nat \ {0}
           /\ DOMAIN TextureLevels(h) = 0 .. MipLevels(h.texture) - 1
           /\ \A l \in DOMAIN TextureLevels(h) : TextureLevels(h)[l] = Sampled(MipExtent(h.texture, l))
           /\ \A l \in DOMAIN TextureLevels(h) : TextureLevels(h)[l].dirty = {}
<1>1. h.texture \in [1..2 -> Nat] /\ MipLevels(h.texture) \in 1 .. 32
  BY TextureAssumption
<1> QED
  BY <1>1, LevelsAre DEF TextureLevels, AllSampled

LEMMA BringsTexture ==
    ASSUME NEW h \in Hosts, NEW c, NEW looks, NEW fact \in BOOLEAN, "texture" \notin DOMAIN looks
    PROVE  Brings(Sights, Viewed(h, c, looks, <<>>, fact), CreateTextureImage(h),
                  Viewed(h, c, looks, TextureLevels(h), fact))
<1> DEFINE extent == h.texture
           k == MipLevels(h.texture)
           V(levels) == Viewed(h, c, looks, levels, fact)
           found == h.linearBlit
           first == Check({}) \o CreateBufferResource(h, "staging", HostVisible)
                    \o UploadToDeviceMemory("staging") \o Needed(found)
           ready == FlattenSeq([l \in 1 .. k |->
                      TransitionImageLayout("texture", l - 1, "undefined", "transferDst", {}, {"transferWrite"})])
           copy == CopyBufferToImage(extent)
           mipmaps == GenerateMipmaps(extent, k)
           image == CreateImage(h, "texture", extent, k)
           end == EndSingleTimeCommands({"staging", "texture"})
<1>1. extent \in [1..2 -> Nat] /\ k \in Nat \ {0} /\ k \in Nat
  BY TextureIs
<1>2. CreateTextureImage(h) = first \o image \o BeginSingleTimeCommands \o ready \o copy \o mipmaps
                              \o end \o Drop("single") \o Drop("staging")
  BY DEF CreateTextureImage
<1>3. \A levels : V(levels) \subseteq Sights
  BY DEF Viewed
<1>4. Calm(first) /\ Calm(end) /\ Calm(BeginSingleTimeCommands) /\ Calm(Drop("single")) /\ Calm(Drop("staging"))
  <2>1. "staging" \notin Telling
    BY DEF Telling
  <2> HIDE DEF found
  <2> QED
    BY <2>1, CalmBuffers, CalmSteps, CalmOn
<1>5. /\ \A l \in DOMAIN <<>> : <<>>[l].dirty = {}
      /\ \A l \in DOMAIN MadeTo(extent, k) : MadeTo(extent, k)[l].dirty = {}
      /\ \A l \in DOMAIN TextureLevels(h) : TextureLevels(h)[l].dirty = {}
  BY LevelsAre, TextureIs DEF MadeTo
<1> HIDE DEF first, end, extent, k
<1>6. Brings(Sights, V(<<>>), first, V(<<>>))
  BY <1>3, <1>4, <1>5, BringsCalm
<1>7. Brings(Sights, V(<<>>), image, V(MadeTo(extent, k)))
  BY <1>1, BringsMade
<1>8. Brings(Sights, V(MadeTo(extent, k)), BeginSingleTimeCommands, V(MadeTo(extent, k)))
  BY <1>3, <1>4, <1>5, BringsCalm
<1>9. Brings(Sights, V(MadeTo(extent, k)), ready, V(ReadyTo(extent, k, k)))
  BY <1>1, BringsReadied
<1>10. Brings(Sights, V(ReadyTo(extent, k, k)), copy, V(WrittenTo(extent, k, 0)))
  BY <1>1, BringsCopied
<1>11. Brings(Sights, V(WrittenTo(extent, k, 0)), mipmaps, V(TextureLevels(h)))
  <2>1. TextureLevels(h) = AllSampled(extent, k)
    BY DEF TextureLevels, extent, k
  <2>2. Brings(Sights, V(WrittenTo(extent, k, 0)), mipmaps, V(AllSampled(extent, k)))
    BY <1>1, BringsMipmaps
  <2> HIDE DEF V, mipmaps
  <2> QED
    BY <2>1, <2>2
<1>12. /\ Brings(Sights, V(TextureLevels(h)), end, V(TextureLevels(h)))
       /\ Brings(Sights, V(TextureLevels(h)), Drop("single"), V(TextureLevels(h)))
       /\ Brings(Sights, V(TextureLevels(h)), Drop("staging"), V(TextureLevels(h)))
  BY <1>3, <1>4, <1>5, BringsCalm
<1> HIDE DEF V, ready, copy, mipmaps, image
<1>13. Brings(Sights, V(<<>>), first \o image \o BeginSingleTimeCommands \o ready, V(ReadyTo(extent, k, k)))
  BY <1>6, <1>7, <1>8, <1>9, BringsOn
<1>14. Brings(Sights, V(<<>>), first \o image \o BeginSingleTimeCommands \o ready \o copy \o mipmaps,
              V(TextureLevels(h)))
  BY <1>10, <1>11, <1>13, BringsOn
<1>15. Brings(Sights, V(<<>>), CreateTextureImage(h), V(TextureLevels(h)))
  BY <1>2, <1>12, <1>14, BringsOn
<1> QED
  BY <1>15 DEF V
-----------------------------------------------------------------------------
(* The renderer comes up.                                                  *)

\* What a frame asks of the attachments: no write to them that its barriers do
\* not wait for.
Attachments ==
    [o \in {"msaa", "depth"} |->
        IF o = "msaa" THEN Look(Layouts, {}, {"colourWrite"}) ELSE Look(Layouts, {}, {"depthWrite"})]

LEMMA AttachmentsAre ==
    /\ DOMAIN Attachments = {"msaa", "depth"}
    /\ \A o \in DOMAIN Attachments : Attachments[o].layouts = Layouts /\ Attachments[o].visible = {}
    /\ Attachments["msaa"].dirty = {"colourWrite"} /\ Attachments["depth"].dirty = {"depthWrite"}
BY DEF Attachments, Look

\* A choice that is only looked for if there is what to look among.
LEMMA BringsFoundIf ==
    ASSUME NEW h, NEW c, NEW looks, NEW levels, NEW fact \in BOOLEAN, NEW none \in BOOLEAN, fact => ~none,
           NEW found \in BOOLEAN
    PROVE  Brings(Sights, Viewed(h, c, looks, levels, fact), IF none THEN <<>> ELSE Needed(found),
                  Viewed(h, c, looks, levels, fact /\ found))
<1>1. CASE none
  <2>1. Viewed(h, c, looks, levels, fact) \subseteq Viewed(h, c, looks, levels, fact /\ found)
    BY <1>1 DEF Viewed
  <2> QED
    BY <1>1, <2>1, BringsNowhere
<1>2. CASE ~none
  BY <1>2, BringsFound
<1> QED
  BY <1>1, <1>2

LEMMA BringsLogicalDevice ==
    ASSUME NEW h, NEW c, NEW looks, NEW fact \in BOOLEAN
    PROVE  Brings(Sights, Viewed(h, c, looks, <<>>, fact), CreateLogicalDevice(h),
                  Viewed(h, c, looks, <<>>, (fact /\ SelectPhysicalDevice(h.devices) # 0)
                                            /\ FindGraphicsPresentQueueFamily(Device(h)) # 0))
<1> DEFINE V(f) == Viewed(h, c, looks, <<>>, f)
           a == SelectPhysicalDevice(h.devices) # 0
           b == FindGraphicsPresentQueueFamily(Device(h)) # 0
           none == SelectPhysicalDevice(h.devices) = 0
           f1 == fact /\ a
           f2 == f1 /\ b
           family == IF none THEN <<>> ELSE Needed(b)
<1>1. CreateLogicalDevice(h) = Check({"instance"}) \o Needed(a) \o family \o Make("device")
  BY DEF CreateLogicalDevice
<1>2. a \in BOOLEAN /\ b \in BOOLEAN /\ none \in BOOLEAN /\ f1 \in BOOLEAN /\ f2 \in BOOLEAN /\ (f1 => ~none)
  OBVIOUS
<1> HIDE DEF a, b, none
<1>3. \A f : V(f) \subseteq Sights
  BY DEF Viewed
<1>4. \A l \in DOMAIN <<>> : <<>>[l].dirty = {}
  OBVIOUS
<1>5. Calm(Check({"instance"})) /\ Calm(Make("device"))
  BY CalmSteps DEF Telling
<1>6. Brings(Sights, V(fact), Check({"instance"}), V(fact))
  BY <1>3, <1>4, <1>5, BringsCalm
<1>7. Brings(Sights, V(fact), Needed(a), V(f1))
  BY <1>2, BringsFound
<1> HIDE DEF f1
<1>8. Brings(Sights, V(f1), family, V(f2))
  BY <1>2, BringsFoundIf
<1> HIDE DEF f2
<1>9. Brings(Sights, V(f2), Make("device"), V(f2))
  BY <1>2, <1>3, <1>4, <1>5, BringsCalm
<1> HIDE DEF V, family
<1>10. Brings(Sights, V(fact), CreateLogicalDevice(h), V(f2))
  BY <1>1, <1>6, <1>7, <1>8, <1>9, BringsOn
<1> QED
  BY <1>10 DEF V, f1, f2, a, b

LEMMA BringsDeviceAndTargets ==
    ASSUME NEW h \in Hosts, NEW fact \in BOOLEAN, NEW size \in FramebufferSizes,
           NEW d, d = [surface |-> h.surface, choice |-> SwapChainChoice(h.surface, size)],
           NEW fit \in BOOLEAN, fit = Fit(h)
    PROVE  /\ d \in Chains
           /\ Brings(Sights, Viewed(h, <<>>, <<>>, <<>>, fact), CreateDeviceAndTargets(h, size),
                     Viewed(h, d, Attachments, <<>>, fit))
<1> DEFINE V(f) == Viewed(h, <<>>, <<>>, <<>>, f)
           W(f) == Viewed(h, d, <<>>, <<>>, f)
           a == SelectPhysicalDevice(h.devices) # 0
           b == FindGraphicsPresentQueueFamily(Device(h)) # 0
           e == FindDepthFormat(Device(h)) # "none"
           none == SelectPhysicalDevice(h.devices) = 0
           f1 == (fact /\ a) /\ b
           f2 == f1 /\ e
           format == SelectSurfaceFormat(h.surface.formats) # "none"
           messenger == CreateDebugMessenger(h)
           first == CreateInstance(h) \o messenger \o CreateSurface
           formats == IF none THEN <<>> ELSE Needed(e)
           extent == d.choice.extent
           chainOf == CreateSwapChainResources(h.surface, size)
           colours == CreateMultisampleColorResources(h, extent)
           depths == CreateDepthResources(h, extent)
           end1 == Viewed(h, d, Put(<<>>, "msaa", Fresh), <<>>, f2)
           end2 == Viewed(h, d, Put(Put(<<>>, "msaa", Fresh), "depth", Fresh), <<>>, f2)
<1>1. CreateDeviceAndTargets(h, size) =
          first \o CreateLogicalDevice(h) \o Check({"device", "surface"}) \o Needed(format) \o chainOf
          \o formats \o colours \o depths
  <2>1. d.choice = SwapChainChoice(h.surface, size)
    OBVIOUS
  <2> QED
    BY <2>1 DEF CreateDeviceAndTargets
<1>2. /\ a \in BOOLEAN /\ b \in BOOLEAN /\ e \in BOOLEAN /\ none \in BOOLEAN
      /\ f1 \in BOOLEAN /\ f2 \in BOOLEAN /\ (f1 => ~none) /\ (f2 => fit)
  BY DEF Fit
<1>3. (\A f : V(f) \subseteq Sights) /\ (\A l \in DOMAIN <<>> : <<>>[l].dirty = {})
  BY DEF Viewed
<1>4. Calm(first)
  <2>1. Calm(CreateInstance(h)) /\ Calm(CreateSurface) /\ Calm(Make("messenger"))
    <3> DEFINE found == CollectRequired(h, h.dev)
    <3>1. CreateInstance(h) = Needed(found) \o Make("instance")
      BY DEF CreateInstance
    <3> HIDE DEF found
    <3> QED
      BY <3>1, CalmSteps, CalmOn DEF CreateSurface, Telling
  <2>2. Calm(messenger)
    BY <2>1, CalmNone DEF CreateDebugMessenger
  <2> HIDE DEF messenger
  <2> QED
    BY <2>1, <2>2, CalmOn
<1>5. Calm(Check({"device", "surface"})) /\ Calm(Needed(format))
  <2> HIDE DEF format
  <2> QED
    BY CalmSteps
<1>6. Brings(Sights, V(fact), first, V(fact))
  <2> HIDE DEF first
  <2> QED
    BY <1>3, <1>4, BringsCalm
<1>7. Brings(Sights, V(fact), CreateLogicalDevice(h), V(f1))
  BY BringsLogicalDevice
<1> HIDE DEF f1, a, b
<1>8. Brings(Sights, V(f1), Check({"device", "surface"}), V(f1)) /\ Brings(Sights, V(f1), Needed(format), V(f1))
  <2> HIDE DEF format
  <2> QED
    BY <1>2, <1>3, <1>5, BringsCalm
<1>9. h.surface \in Surfaces
  BY DEF Surfaces
<1>10. d \in Chains /\ Brings(Sights, V(f1), chainOf, W(f1))
  BY <1>2, <1>3, <1>9, BringsSwapChain
<1>11. Brings(Sights, W(f1), formats, W(f2))
  <2> HIDE DEF e, none
  <2> QED
    BY <1>2, BringsFoundIf
<1> HIDE DEF f2, e, none
<1>12. Brings(Sights, W(f2), colours, end1)
  BY <1>2, <1>3, <1>10, BringsTargets
<1>13. Brings(Sights, end1, depths, end2)
  <2> DEFINE looks == Put(<<>>, "msaa", Fresh)
  <2> HIDE DEF looks
  <2>1. Brings(Sights, Viewed(h, d, looks, <<>>, f2), depths, Viewed(h, d, Put(looks, "depth", Fresh), <<>>, f2))
    BY <1>2, <1>3, <1>10, BringsTargets
  <2> QED
    BY <2>1 DEF looks
<1>14. end2 \subseteq Viewed(h, d, Attachments, <<>>, fit)
  <2> DEFINE looks == Put(Put(<<>>, "msaa", Fresh), "depth", Fresh)
  <2>1. DOMAIN looks = {"msaa", "depth"} /\ \A o \in DOMAIN looks : looks[o] = Fresh
    BY DEF Put
  <2>2. Fresh.layouts = {"undefined"} /\ Fresh.visible = {} /\ Fresh.dirty = {} /\ "undefined" \in Layouts
    BY DEF Fresh, Look, Layouts
  <2> HIDE DEF looks
  <2>3. \A o \in DOMAIN Attachments : /\ o \in DOMAIN looks
                                      /\ looks[o].layouts \subseteq Attachments[o].layouts
                                      /\ Attachments[o].visible \subseteq looks[o].visible
                                      /\ looks[o].dirty \subseteq Attachments[o].dirty
    BY <2>1, <2>2, AttachmentsAre
  <2>4. \A l \in DOMAIN <<>> : l \in DOMAIN <<>> /\ <<>>[l] = <<>>[l]
    OBVIOUS
  <2>5. Viewed(h, d, looks, <<>>, f2) \subseteq Viewed(h, d, Attachments, <<>>, fit)
    BY <1>2, <2>3, <2>4, ViewedMore
  <2> QED
    BY <2>5 DEF looks
<1> DEFINE U == Viewed(h, d, Attachments, <<>>, fit)
<1> HIDE DEF U
<1>15. end2 \subseteq U
  BY <1>14 DEF U
<1> HIDE DEF V, W, first, format, chainOf, formats, colours, depths, end1, end2
<1>16. Brings(Sights, V(fact), first \o CreateLogicalDevice(h) \o Check({"device", "surface"}) \o Needed(format), V(f1))
  BY <1>6, <1>7, <1>8, BringsOn
<1>17. Brings(Sights, V(fact), first \o CreateLogicalDevice(h) \o Check({"device", "surface"}) \o Needed(format)
                               \o chainOf \o formats, W(f2))
  BY <1>10, <1>11, <1>16, BringsOn
<1>18. Brings(Sights, V(fact), CreateDeviceAndTargets(h, size), end2)
  BY <1>1, <1>12, <1>13, <1>17, BringsOn
<1>19. Brings(Sights, V(fact), CreateDeviceAndTargets(h, size), U)
  BY <1>15, <1>18, BringsInto
<1> QED
  BY <1>10, <1>19 DEF V, U

LEMMA BringsPipelineAndFrames ==
    ASSUME NEW h \in Hosts, NEW d, NEW fit \in BOOLEAN, fit = Fit(h)
    PROVE  Brings(Sights, Viewed(h, d, Attachments, <<>>, fit), CreatePipelineAndFrames(h),
                  Viewed(h, d, Attachments, TextureLevels(h), fit))
<1> DEFINE V == Viewed(h, d, Attachments, <<>>, fit)
           W == Viewed(h, d, Attachments, TextureLevels(h), fit)
           used == {"descriptorSets", "uniforms", "sampler", "textureView"}
           first == CreateDescriptorSetLayout \o CreatePipelineLayout \o CreateGraphicsPipeline \o CreateCommandPool
           texture == CreateTextureImage(h)
<1>1. CreatePipelineAndFrames(h) =
          first \o texture \o CreateImageView("textureView") \o CreateTextureSampler \o CreateUniformBuffer(h)
          \o CreateDescriptorPool \o CreateDescriptorSets \o Surely(used) \o AllocateCommandBuffers
          \o CreateSemaphores("renderFinished") \o CreateSemaphores("presentComplete")
          \o CreateSignaledFences \o Adopt
  BY DEF CreatePipelineAndFrames
<1>2. /\ V \subseteq Sights /\ W \subseteq Sights
      /\ (\A l \in DOMAIN <<>> : <<>>[l].dirty = {})
      /\ (\A l \in DOMAIN TextureLevels(h) : TextureLevels(h)[l].dirty = {})
  BY TextureIs DEF Viewed
<1>3. {"setLayout", "pipelineLayout", "commandPool", "textureView", "sampler", "descriptorPool", "descriptorSets",
       "commandBuffers", "renderFinished", "presentComplete"} \cap Telling = {}
  BY DEF Telling
<1>4. Calm(first)
  BY <1>3, CalmBoot, CalmSteps, CalmOn DEF CreateDescriptorSetLayout, CreatePipelineLayout, CreateCommandPool
<1>5. /\ Calm(CreateImageView("textureView")) /\ Calm(CreateTextureSampler) /\ Calm(CreateUniformBuffer(h))
      /\ Calm(CreateDescriptorPool) /\ Calm(CreateDescriptorSets) /\ Calm(Surely(used)) /\ Calm(AllocateCommandBuffers)
      /\ Calm(CreateSemaphores("renderFinished")) /\ Calm(CreateSemaphores("presentComplete")) /\ Calm(Adopt)
  <2> HIDE DEF used
  <2> QED
    BY <1>3, CalmBoot, CalmSteps, CalmOn DEF CreateImageView, CreateTextureSampler, CreateDescriptorPool,
       CreateDescriptorSets, AllocateCommandBuffers, CreateSemaphores
<1> HIDE DEF first, used
<1>6. Brings(Sights, V, first, V)
  BY <1>2, <1>4, BringsCalm
<1>7. Brings(Sights, V, texture, W)
  <2>1. "texture" \notin DOMAIN Attachments
    BY AttachmentsAre
  <2> QED
    BY <2>1, BringsTexture
<1>8. \A p : Calm(p) => Brings(Sights, W, p, W)
  BY <1>2, BringsCalm
<1>9. Brings(Sights, W, CreateSignaledFences, W)
  <2>1. "fences" \in Telling /\ "fences" # "swapViews" /\ "fences" # "readback"
    BY DEF Telling
  <2> QED
    BY <1>2, <2>1, BringsMake DEF CreateSignaledFences
<1> HIDE DEF V, W, texture
<1>10. Brings(Sights, V, first \o texture, W)
  BY <1>6, <1>7, BringsOn
<1>11. Brings(Sights, V, first \o texture \o CreateImageView("textureView") \o CreateTextureSampler
                         \o CreateUniformBuffer(h) \o CreateDescriptorPool, W)
  BY <1>5, <1>8, <1>10, BringsOn
<1>12. Brings(Sights, V, first \o texture \o CreateImageView("textureView") \o CreateTextureSampler
                         \o CreateUniformBuffer(h) \o CreateDescriptorPool \o CreateDescriptorSets
                         \o Surely(used) \o AllocateCommandBuffers, W)
  BY <1>5, <1>8, <1>11, BringsOn
<1>13. Brings(Sights, V, CreatePipelineAndFrames(h), W)
  BY <1>1, <1>5, <1>8, <1>9, <1>12, BringsOn
<1> QED
  BY <1>13 DEF V, W
-----------------------------------------------------------------------------
(* A frame.                                                                *)

\* The attachments and the chain's image.
Targets(msaa, depth, swapChain) ==
    [o \in {"msaa", "depth", "swapChain"} |->
        IF o = "msaa" THEN msaa ELSE IF o = "depth" THEN depth ELSE swapChain]

LEMMA TargetsAre ==
    ASSUME NEW m, NEW d, NEW s
    PROVE  /\ DOMAIN Targets(m, d, s) = {"msaa", "depth", "swapChain"}
           /\ Targets(m, d, s)["msaa"] = m /\ Targets(m, d, s)["depth"] = d /\ Targets(m, d, s)["swapChain"] = s
           /\ \A x : /\ Put(Targets(m, d, s), "msaa", x) = Targets(x, d, s)
                     /\ Put(Targets(m, d, s), "depth", x) = Targets(m, x, s)
                     /\ Put(Targets(m, d, s), "swapChain", x) = Targets(m, d, x)
<1>1. /\ DOMAIN Targets(m, d, s) = {"msaa", "depth", "swapChain"}
      /\ Targets(m, d, s)["msaa"] = m /\ Targets(m, d, s)["depth"] = d /\ Targets(m, d, s)["swapChain"] = s
  BY DEF Targets
<1>2. ASSUME NEW x PROVE Put(Targets(m, d, s), "msaa", x) = Targets(x, d, s)
  BY <1>1 DEF Targets, Put
<1>3. ASSUME NEW x PROVE Put(Targets(m, d, s), "depth", x) = Targets(m, x, s)
  BY <1>1 DEF Targets, Put
<1>4. ASSUME NEW x PROVE Put(Targets(m, d, s), "swapChain", x) = Targets(m, d, x)
  BY <1>1 DEF Targets, Put
<1> QED
  BY <1>1, <1>2, <1>3, <1>4

\* With one of the targets looser.
LEMMA TargetsLoosened ==
    ASSUME NEW h, NEW c, NEW levels, NEW fact \in BOOLEAN,
           NEW m, NEW d, NEW s, NEW m2, NEW d2, NEW s2,
           m.layouts \subseteq m2.layouts, m2.visible \subseteq m.visible, m.dirty \subseteq m2.dirty,
           d.layouts \subseteq d2.layouts, d2.visible \subseteq d.visible, d.dirty \subseteq d2.dirty,
           s.layouts \subseteq s2.layouts, s2.visible \subseteq s.visible, s.dirty \subseteq s2.dirty
    PROVE  /\ Viewed(h, c, Targets(m, d, s), levels, fact) \subseteq Viewed(h, c, Targets(m2, d2, s2), levels, fact)
           /\ Viewed(h, c, Targets(m, d, s), levels, fact)
                 \subseteq Viewed(h, c, [o \in {"msaa", "depth"} |-> IF o = "msaa" THEN m2 ELSE d2], levels, fact)
<1> DEFINE looks == Targets(m, d, s)
           looks2 == Targets(m2, d2, s2)
           looks3 == [o \in {"msaa", "depth"} |-> IF o = "msaa" THEN m2 ELSE d2]
<1>1. /\ DOMAIN looks = {"msaa", "depth", "swapChain"}
      /\ looks["msaa"] = m /\ looks["depth"] = d /\ looks["swapChain"] = s
      /\ DOMAIN looks2 = {"msaa", "depth", "swapChain"}
      /\ looks2["msaa"] = m2 /\ looks2["depth"] = d2 /\ looks2["swapChain"] = s2
  BY TargetsAre
<1>2. DOMAIN looks3 = {"msaa", "depth"} /\ looks3["msaa"] = m2 /\ looks3["depth"] = d2
  OBVIOUS
<1> HIDE DEF looks, looks2, looks3
<1>3. \A o \in DOMAIN looks2 : /\ o \in DOMAIN looks /\ looks[o].layouts \subseteq looks2[o].layouts
                               /\ looks2[o].visible \subseteq looks[o].visible /\ looks[o].dirty \subseteq looks2[o].dirty
  BY <1>1
<1>4. \A o \in DOMAIN looks3 : /\ o \in DOMAIN looks /\ looks[o].layouts \subseteq looks3[o].layouts
                               /\ looks3[o].visible \subseteq looks[o].visible /\ looks[o].dirty \subseteq looks3[o].dirty
  BY <1>1, <1>2
<1>5. \A l \in DOMAIN levels : l \in DOMAIN levels /\ levels[l] = levels[l]
  OBVIOUS
<1>6. Viewed(h, c, looks, levels, fact) \subseteq Viewed(h, c, looks2, levels, fact)
  BY <1>3, <1>5, ViewedMore
<1>7. Viewed(h, c, looks, levels, fact) \subseteq Viewed(h, c, looks3, levels, fact)
  BY <1>4, <1>5, ViewedMore
<1> QED
  BY <1>6, <1>7 DEF looks, looks2, looks3

\* Every level of the texture is sampled.
LEMMA BringsSampling ==
    ASSUME NEW H, NEW h \in Hosts, NEW c, NEW looks, NEW fact \in BOOLEAN, "texture" \notin DOMAIN looks
    PROVE  LET V == Viewed(h, c, looks, TextureLevels(h), fact) IN
           Brings(H, V, FlattenSeq([l \in 1 .. MipLevels(h.texture) |->
                            Use("texture", l - 1, "shaderRead", {"sampledRead"}, <<1, 1>>)]), V)
<1> DEFINE levels == TextureLevels(h)
           k == MipLevels(h.texture)
           V == Viewed(h, c, looks, levels, fact)
           parts == [l \in 1 .. k |-> Use("texture", l - 1, "shaderRead", {"sampledRead"}, <<1, 1>>)]
<1>1. /\ h.texture \in [1..2 -> Nat] /\ k \in Nat /\ DOMAIN levels = 0 .. k - 1
      /\ \A l \in DOMAIN levels : levels[l] = Sampled(MipExtent(h.texture, l))
  BY TextureIs
<1>2. ASSUME NEW l \in 1 .. k PROVE Brings(H, V, parts[l], V)
  <2> DEFINE e == MipExtent(h.texture, l - 1)
             one == <<1, 1>>
             access == {"sampledRead"}
             v == [layout |-> "shaderRead", dirty |-> {}, visible |-> {"sampledRead"}, extent |-> e]
  <2>1. l - 1 \in Nat /\ l - 1 \in DOMAIN levels /\ levels[l - 1] = Sampled(e)
    BY <1>1
  <2>2. \A i \in 1..2 : 1 <= e[i]
    BY <1>1, <2>1, MipExtentIs
  <2>3. one[1] = 1 /\ one[2] = 1
    OBVIOUS
  <2> HIDE DEF e, one
  <2>4. \A i \in 1..2 : one[i] <= e[i]
    BY <2>2, <2>3
  <2>5. /\ levels[l - 1].layout = "shaderRead" /\ levels[l - 1].dirty = {}
        /\ levels[l - 1].visible = {"sampledRead"} /\ levels[l - 1].extent = e
    BY <2>1, LevelsAre
  <2>6. v = Sampled(e)
    BY DEF Sampled, LevelIs
  <2>7. access \cap Writes = {} /\ access \in SUBSET Accesses
    BY DEF Writes, Accesses
  <2>8. parts[l] = Use("texture", l - 1, "shaderRead", access, one)
    BY DEF one
  <2>9. v = [layout |-> levels[l - 1].layout, dirty |-> access \cap Writes, visible |-> levels[l - 1].visible,
             extent |-> levels[l - 1].extent]
    BY <2>5, <2>7
  <2>10. \A i \in 1..2 : one[i] <= levels[l - 1].extent[i]
    BY <2>4, <2>5
  <2>11. access \subseteq levels[l - 1].visible /\ levels[l - 1].dirty = {}
    BY <2>5
  <2> HIDE DEF v, access, levels, parts
  <2>12. Brings(H, Viewed(h, c, looks, levels, fact), Use("texture", l - 1, levels[l - 1].layout, access, one),
                Viewed(h, c, looks, Put(levels, l - 1, v), fact))
    BY <2>1, <2>7, <2>9, <2>10, <2>11, BringsLevelUse
  <2>13. Viewed(h, c, looks, Put(levels, l - 1, v), fact) \subseteq Viewed(h, c, looks, levels, fact)
    <3> DEFINE put == Put(levels, l - 1, v)
    <3>1. \A j \in DOMAIN levels : j \in DOMAIN put /\ levels[j] = put[j]
      BY <2>1, <2>6 DEF Put
    <3> HIDE DEF put
    <3>2. Viewed(h, c, looks, put, fact) \subseteq Viewed(h, c, looks, levels, fact)
      BY <3>1, ViewedLevels
    <3> QED
      BY <3>2 DEF put
  <2> HIDE DEF V
  <2>14. Brings(H, Viewed(h, c, looks, levels, fact), parts[l], Viewed(h, c, looks, levels, fact))
    BY <2>5, <2>8, <2>12, <2>13, BringsInto
  <2> QED
    BY <2>14 DEF V
<1> DEFINE sets == [i \in 0 .. k |-> V]
<1>3. sets[0] = V /\ sets[k] = V /\ \A i \in 1 .. k : sets[i - 1] = V /\ sets[i] = V
  BY <1>1
<1>4. parts = [i \in 1 .. k |-> parts[i]]
  OBVIOUS
<1> HIDE DEF sets, parts, V
<1>5. \A i \in 1 .. k : Brings(H, sets[i - 1], parts[i], sets[i])
  BY <1>2, <1>3
<1> HIDE DEF k
<1>6. Brings(H, sets[0], FlattenSeq(parts), sets[k])
  BY <1>1, <1>4, <1>5, BringsFlattened
<1> QED
  BY <1>3, <1>6 DEF V, parts, k

\* A transition, or a use, of one target.
LEMMA BringsTargetTransition ==
    ASSUME NEW H, NEW h, NEW c, NEW levels, NEW fact \in BOOLEAN, NEW m, NEW d, NEW s,
           NEW from, NEW to \in Layouts, NEW src, NEW dst \in SUBSET Accesses,
           NEW after, after = Look({to}, dst, IF dst = {} THEN {"transition"} ELSE {})
    PROVE  /\ (from = "undefined" \/ m.layouts \subseteq {from}) /\ m.dirty \subseteq src =>
                 Brings(H, Viewed(h, c, Targets(m, d, s), levels, fact),
                        TransitionImageLayout("msaa", 0, from, to, src, dst),
                        Viewed(h, c, Targets(after, d, s), levels, fact))
           /\ (from = "undefined" \/ d.layouts \subseteq {from}) /\ d.dirty \subseteq src =>
                 Brings(H, Viewed(h, c, Targets(m, d, s), levels, fact),
                        TransitionImageLayout("depth", 0, from, to, src, dst),
                        Viewed(h, c, Targets(m, after, s), levels, fact))
           /\ (from = "undefined" \/ s.layouts \subseteq {from}) /\ s.dirty \subseteq src =>
                 Brings(H, Viewed(h, c, Targets(m, d, s), levels, fact),
                        TransitionImageLayout("swapChain", 0, from, to, src, dst),
                        Viewed(h, c, Targets(m, d, after), levels, fact))
<1> DEFINE looks == Targets(m, d, s)
<1>1. /\ DOMAIN looks = {"msaa", "depth", "swapChain"} /\ looks["msaa"] = m /\ looks["depth"] = d /\ looks["swapChain"] = s
      /\ Put(looks, "msaa", after) = Targets(after, d, s) /\ Put(looks, "depth", after) = Targets(m, after, s)
      /\ Put(looks, "swapChain", after) = Targets(m, d, after)
  BY TargetsAre
<1>2. \A o \in DOMAIN looks : o \in Shown \ {"texture"}
  BY <1>1 DEF Shown
<1> HIDE DEF looks
<1>3. ASSUME NEW o \in DOMAIN looks, from = "undefined" \/ looks[o].layouts \subseteq {from}, looks[o].dirty \subseteq src
      PROVE  Brings(H, Viewed(h, c, looks, levels, fact), TransitionImageLayout(o, 0, from, to, src, dst),
                    Viewed(h, c, Put(looks, o, after), levels, fact))
  BY <1>2, <1>3, BringsTransition
<1> QED
  BY <1>1, <1>3 DEF looks

LEMMA BringsTargetUse ==
    ASSUME NEW H, NEW h, NEW c, NEW levels, NEW fact \in BOOLEAN, NEW m, NEW d, NEW s,
           NEW layout, NEW access \in SUBSET Accesses, NEW before, NEW after,
           before.layouts = {layout}, access \subseteq before.visible, before.dirty = {},
           after = Look({layout}, before.visible, access \cap Writes)
    PROVE  /\ m = before => Brings(H, Viewed(h, c, Targets(m, d, s), levels, fact),
                                   Use("msaa", 0, layout, access, c.choice.extent),
                                   Viewed(h, c, Targets(after, d, s), levels, fact))
           /\ d = before => Brings(H, Viewed(h, c, Targets(m, d, s), levels, fact),
                                   Use("depth", 0, layout, access, c.choice.extent),
                                   Viewed(h, c, Targets(m, after, s), levels, fact))
           /\ s = before => Brings(H, Viewed(h, c, Targets(m, d, s), levels, fact),
                                   Use("swapChain", 0, layout, access, c.choice.extent),
                                   Viewed(h, c, Targets(m, d, after), levels, fact))
<1> DEFINE looks == Targets(m, d, s)
<1>1. /\ DOMAIN looks = {"msaa", "depth", "swapChain"} /\ looks["msaa"] = m /\ looks["depth"] = d /\ looks["swapChain"] = s
      /\ Put(looks, "msaa", after) = Targets(after, d, s) /\ Put(looks, "depth", after) = Targets(m, after, s)
      /\ Put(looks, "swapChain", after) = Targets(m, d, after)
  BY TargetsAre
<1>2. \A o \in DOMAIN looks : o \in Shown \ {"texture"}
  BY <1>1 DEF Shown
<1> HIDE DEF looks
<1>3. ASSUME NEW o \in DOMAIN looks, looks[o] = before
      PROVE  Brings(H, Viewed(h, c, looks, levels, fact), Use(o, 0, layout, access, c.choice.extent),
                    Viewed(h, c, Put(looks, o, after), levels, fact))
  <2>1. looks[o].layouts \subseteq {layout} /\ access \subseteq looks[o].visible /\ looks[o].dirty = {}
        /\ after = Look({layout}, looks[o].visible, access \cap Writes)
    BY <1>3
  <2> QED
    BY <1>2, <2>1, BringsUse
<1> QED
  BY <1>1, <1>3 DEF looks

\* Of a frame that was recorded: the image it presents awaits that, and the
\* attachments the barriers of the next.
Drawn == Targets(Attachments["msaa"], Attachments["depth"], Look({"present"}, {}, {"transition"}))

LEMMA BringsRecording ==
    ASSUME NEW h \in Hosts, NEW c \in Chains, NEW fact \in BOOLEAN, NEW looks,
           looks = Targets(Attachments["msaa"], Attachments["depth"], Fresh), NEW has
    PROVE  Brings(Sights, Viewed(h, c, looks, TextureLevels(h), fact),
                  RecordCommandBuffer(h, c.choice.extent, has),
                  Viewed(h, c, Drawn, TextureLevels(h), fact))
<1> DEFINE levels == TextureLevels(h)
           e == c.choice.extent
           V(m, d, s) == Viewed(h, c, Targets(m, d, s), levels, fact)
           m0 == Attachments["msaa"]
           d0 == Attachments["depth"]
           cleared == Look({"colour"}, Colour, {})
           coloured == Look({"colour"}, Colour, Colour)
           empty == Look({"depth"}, {"depthWrite"}, {})
           deep == Look({"depth"}, {"depthWrite"}, {"depthWrite"})
           both == {"colourRead", "colourWrite"}
           loaded == Look({"colour"}, both, {})
           overlaid == Look({"colour"}, both, Colour)
           shaded == Look({"colour"}, {}, Colour)
           ready == Look({"present"}, {}, {"transition"})
           check == Check({"commandBuffers"})
           t1 == TransitionImageLayout("swapChain", 0, "undefined", "colour", {}, Colour)
           t2 == TransitionImageLayout("msaa", 0, "undefined", "colour", Colour, Colour)
           t3 == TransitionImageLayout("depth", 0, "undefined", "depth", {"depthWrite"}, {"depthWrite"})
           u1 == Use("msaa", 0, "colour", Colour, e)
           u2 == Use("depth", 0, "depth", {"depthWrite"}, e)
           u3 == Use("swapChain", 0, "colour", Colour, e)
           sample == FlattenSeq([l \in 1 .. MipLevels(h.texture) |->
                         Use("texture", l - 1, "shaderRead", {"sampledRead"}, <<1, 1>>)])
           overlay == IF "backend" \in has THEN RecordDebugUiOverlay(e) ELSE <<>>
           t5 == TransitionImageLayout("swapChain", 0, "colour", "colour", Colour, both)
           u5 == Use("swapChain", 0, "colour", both, e)
           t6 == TransitionImageLayout("swapChain", 0, "colour", "present", Colour, {})
<1>1. RecordCommandBuffer(h, e, has) =
          check \o t1 \o t2 \o t3 \o u1 \o u2 \o u3 \o sample \o overlay \o t6 \o check
  BY DEF RecordCommandBuffer
<1>2. /\ m0.layouts = Layouts /\ m0.visible = {} /\ m0.dirty = {"colourWrite"}
      /\ d0.layouts = Layouts /\ d0.visible = {} /\ d0.dirty = {"depthWrite"}
      /\ Fresh.layouts = {"undefined"} /\ Fresh.visible = {} /\ Fresh.dirty = {}
  BY AttachmentsAre DEF Fresh, Look
<1>3. /\ cleared.layouts = {"colour"} /\ cleared.visible = Colour /\ cleared.dirty = {}
      /\ coloured.layouts = {"colour"} /\ coloured.visible = Colour /\ coloured.dirty = Colour
      /\ empty.layouts = {"depth"} /\ empty.visible = {"depthWrite"} /\ empty.dirty = {}
      /\ deep.layouts = {"depth"} /\ deep.visible = {"depthWrite"} /\ deep.dirty = {"depthWrite"}
      /\ loaded.layouts = {"colour"} /\ loaded.visible = both /\ loaded.dirty = {}
      /\ overlaid.layouts = {"colour"} /\ overlaid.visible = both /\ overlaid.dirty = Colour
      /\ shaded.layouts = {"colour"} /\ shaded.visible = {} /\ shaded.dirty = Colour
      /\ ready.layouts = {"present"} /\ ready.visible = {} /\ ready.dirty = {"transition"}
  BY DEF Look
<1>4. /\ {"msaa", "depth", "swapChain"} \subseteq Shown \ {"texture"}
      /\ {"colour", "depth", "present"} \subseteq Layouts
      /\ Colour = {"colourWrite"} /\ Colour \in SUBSET Accesses /\ {"depthWrite"} \in SUBSET Accesses
      /\ both \in SUBSET Accesses /\ {} \in SUBSET Accesses
      /\ Colour # {} /\ both # {}
      /\ Colour \cap Writes = Colour /\ {"depthWrite"} \cap Writes = {"depthWrite"} /\ both \cap Writes = Colour
  BY DEF Shown, Layouts, Accesses, Colour, Writes
<1>5. /\ Look({"colour"}, Colour, IF Colour = {} THEN {"transition"} ELSE {}) = cleared
      /\ Look({"depth"}, {"depthWrite"}, IF {"depthWrite"} = {} THEN {"transition"} ELSE {}) = empty
      /\ Look({"colour"}, both, IF both = {} THEN {"transition"} ELSE {}) = loaded
      /\ Look({"present"}, {}, IF {} = {} THEN {"transition"} ELSE {}) = ready
      /\ Look({"colour"}, cleared.visible, Colour \cap Writes) = coloured
      /\ Look({"depth"}, empty.visible, {"depthWrite"} \cap Writes) = deep
      /\ Look({"colour"}, loaded.visible, both \cap Writes) = overlaid
  BY <1>3, <1>4
<1>6. \A l \in DOMAIN levels : levels[l].dirty = {}
  BY TextureIs
<1>7. \A m, d, s : V(m, d, s) \subseteq Sights
  BY DEF Viewed
<1>8. V(m0, d0, Fresh) = Viewed(h, c, looks, levels, fact)
  OBVIOUS
<1>9. V(m0, d0, ready) = Viewed(h, c, Drawn, levels, fact)
  BY DEF Drawn
<1> HIDE DEF levels, m0, d0, cleared, coloured, empty, deep, both, loaded, overlaid, shaded, ready
<1>10. ASSUME NEW m, NEW d, NEW s
       PROVE  /\ \A p : Calm(p) => Brings(Sights, V(m, d, s), p, V(m, d, s))
              /\ Brings(Sights, V(m, d, s), sample, V(m, d, s))
  <2>1. V(m, d, s) \subseteq Sights
    BY <1>7
  <2>2. "texture" \notin DOMAIN Targets(m, d, s)
    BY TargetsAre
  <2>3. Brings(Sights, V(m, d, s), sample, V(m, d, s))
    BY <2>2, BringsSampling DEF levels
  <2> QED
    BY <1>6, <2>1, <2>3, BringsCalm
<1>11. Brings(Sights, V(m0, d0, Fresh), t1, V(m0, d0, cleared))
  BY <1>2, <1>4, <1>5, BringsTargetTransition
<1>12. Brings(Sights, V(m0, d0, cleared), t2, V(cleared, d0, cleared))
  BY <1>2, <1>4, <1>5, BringsTargetTransition, ZenonT(40)
<1>13. Brings(Sights, V(cleared, d0, cleared), t3, V(cleared, empty, cleared))
  BY <1>2, <1>4, <1>5, BringsTargetTransition, ZenonT(40)
<1>14. Brings(Sights, V(cleared, empty, cleared), u1, V(coloured, empty, cleared))
  <2>1. cleared.layouts = {"colour"} /\ Colour \subseteq cleared.visible /\ cleared.dirty = {}
    BY <1>3
  <2>2. coloured = Look({"colour"}, cleared.visible, Colour \cap Writes)
    BY <1>5
  <2>3. Colour \in SUBSET Accesses
    BY <1>4
  <2> QED
    BY <2>1, <2>2, <2>3, BringsTargetUse
<1>15. Brings(Sights, V(coloured, empty, cleared), u2, V(coloured, deep, cleared))
  <2>1. empty.layouts = {"depth"} /\ {"depthWrite"} \subseteq empty.visible /\ empty.dirty = {}
    BY <1>3
  <2>2. deep = Look({"depth"}, empty.visible, {"depthWrite"} \cap Writes)
    BY <1>5
  <2>3. {"depthWrite"} \in SUBSET Accesses
    BY <1>4
  <2> QED
    BY <2>1, <2>2, <2>3, BringsTargetUse
<1>16. Brings(Sights, V(coloured, deep, cleared), u3, V(coloured, deep, coloured))
  <2>1. cleared.layouts = {"colour"} /\ Colour \subseteq cleared.visible /\ cleared.dirty = {}
    BY <1>3
  <2>2. coloured = Look({"colour"}, cleared.visible, Colour \cap Writes)
    BY <1>5
  <2>3. Colour \in SUBSET Accesses
    BY <1>4
  <2> QED
    BY <2>1, <2>2, <2>3, BringsTargetUse
<1>17. Brings(Sights, V(coloured, deep, coloured), overlay, V(coloured, deep, shaded))
  <2>1. /\ V(coloured, deep, coloured) \subseteq V(coloured, deep, shaded)
        /\ V(coloured, deep, overlaid) \subseteq V(coloured, deep, shaded)
    BY <1>3, TargetsLoosened
  <2>2. Brings(Sights, V(coloured, deep, coloured), t5, V(coloured, deep, loaded))
    <3>1. coloured.layouts \subseteq {"colour"} /\ coloured.dirty \subseteq Colour
      BY <1>3
    <3>2. loaded = Look({"colour"}, both, IF both = {} THEN {"transition"} ELSE {})
      BY <1>5
    <3>3. "colour" \in Layouts /\ both \in SUBSET Accesses
      BY <1>4
    <3> QED
      BY <3>1, <3>2, <3>3, BringsTargetTransition
  <2>3. Brings(Sights, V(coloured, deep, loaded), u5, V(coloured, deep, overlaid))
    <3>1. loaded.layouts = {"colour"} /\ both \subseteq loaded.visible /\ loaded.dirty = {}
      BY <1>3
    <3>2. overlaid = Look({"colour"}, loaded.visible, both \cap Writes)
      BY <1>5
    <3>3. both \in SUBSET Accesses
      BY <1>4
    <3> QED
      BY <3>1, <3>2, <3>3, BringsTargetUse
  <2>4. Calm(Surely({"backend"}))
    BY CalmSteps
  <2>5. Brings(Sights, V(coloured, deep, overlaid), Surely({"backend"}), V(coloured, deep, overlaid))
    BY <1>10, <2>4
  <2>6. RecordDebugUiOverlay(e) = t5 \o u5 \o Surely({"backend"})
    BY DEF RecordDebugUiOverlay, both
  <2> HIDE DEF V, t5, u5
  <2>7. Brings(Sights, V(coloured, deep, coloured), RecordDebugUiOverlay(e), V(coloured, deep, overlaid))
    BY <2>2, <2>3, <2>5, <2>6, BringsOn
  <2>8. Brings(Sights, V(coloured, deep, coloured), RecordDebugUiOverlay(e), V(coloured, deep, shaded))
    BY <2>1, <2>7, BringsInto
  <2>9. Brings(Sights, V(coloured, deep, coloured), <<>>, V(coloured, deep, shaded))
    BY <2>1, BringsNowhere
  <2> QED
    BY <2>8, <2>9
<1>18. Brings(Sights, V(coloured, deep, shaded), t6, V(coloured, deep, ready))
  <2>1. shaded.layouts \subseteq {"colour"} /\ shaded.dirty \subseteq Colour
    BY <1>3
  <2>2. ready = Look({"present"}, {}, IF {} = {} THEN {"transition"} ELSE {})
    BY <1>5
  <2>3. "present" \in Layouts /\ {} \in SUBSET Accesses
    BY <1>4
  <2> QED
    BY <2>1, <2>2, <2>3, BringsTargetTransition
<1>19. V(coloured, deep, ready) \subseteq V(m0, d0, ready)
  <2>1. {"colour"} \subseteq Layouts /\ {"depth"} \subseteq Layouts
    BY DEF Layouts
  <2> QED
    BY <1>2, <1>3, <1>4, <2>1, TargetsLoosened
<1>20. Calm(check)
  BY CalmSteps
<1>21. /\ Brings(Sights, V(m0, d0, Fresh), check, V(m0, d0, Fresh))
       /\ Brings(Sights, V(coloured, deep, ready), check, V(coloured, deep, ready))
       /\ Brings(Sights, V(coloured, deep, coloured), sample, V(coloured, deep, coloured))
  BY <1>10, <1>20
<1> HIDE DEF V, check, t1, t2, t3, u1, u2, u3, sample, overlay, t6, e
<1>22. Brings(Sights, V(m0, d0, Fresh), check \o t1 \o t2 \o t3 \o u1, V(coloured, empty, cleared))
  BY <1>11, <1>12, <1>13, <1>14, <1>21, BringsOn
<1>23. Brings(Sights, V(m0, d0, Fresh), check \o t1 \o t2 \o t3 \o u1 \o u2 \o u3 \o sample, V(coloured, deep, coloured))
  BY <1>15, <1>16, <1>21, <1>22, BringsOn
<1>24. Brings(Sights, V(m0, d0, Fresh), RecordCommandBuffer(h, e, has), V(coloured, deep, ready))
  BY <1>1, <1>17, <1>18, <1>21, <1>23, BringsOn
<1>25. Brings(Sights, V(m0, d0, Fresh), RecordCommandBuffer(h, e, has), V(m0, d0, ready))
  BY <1>19, <1>24, BringsInto
<1> QED
  BY <1>8, <1>9, <1>25 DEF levels, e

\* The chain's image is read between submit and present, and is afterwards what
\* it was: whatever fails on the way finds it ready to present.
LEMMA BringsCapture ==
    ASSUME NEW h \in Hosts, NEW c \in Chains, NEW fact \in BOOLEAN, NEW D,
           D = Viewed(h, c, Drawn, TextureLevels(h), fact)
    PROVE  Brings(D, D, Wait \o CaptureSwapChainImage(h, c), D)
<1> DEFINE levels == TextureLevels(h)
           e == c.choice.extent
           m == Attachments["msaa"]
           d == Attachments["depth"]
           V(s, f) == Viewed(h, c, Targets(m, d, s), levels, f)
           ready == Look({"present"}, {}, {"transition"})
           still == Look({"present"}, {}, {})
           source == Look({"transferSrc"}, {"transferRead"}, {})
           a == "transferSource" \in c.choice.usage
           b == Capturable(SelectSurfaceFormat(h.surface.formats))
           f1 == fact /\ a
           f2 == f1 /\ b
           found == FindMemoryType(h.memory, h.bufferTypes, HostVisible) # 0
           need == Needed(found)
           look == Check({"readback"})
           buffer == CreateBufferResource(h, "readback", HostVisible)
           t1 == TransitionImageLayout("swapChain", 0, "present", "transferSrc", {}, {"transferRead"})
           use == Use("swapChain", 0, "transferSrc", {"transferRead"}, e)
           t2 == TransitionImageLayout("swapChain", 0, "transferSrc", "present", {"transferRead"}, {})
           end == EndSingleTimeCommands({"readback", "swapChain"})
           read == ReadImageToHost(h, "swapChain", "present", e)
<1>1. /\ buffer = Make("readback") \o need \o look \o look
      /\ read = buffer \o BeginSingleTimeCommands \o t1 \o use \o t2 \o end \o look \o Drop("single") \o Drop("readback")
      /\ CaptureSwapChainImage(h, c) = Needed(a) \o Needed(b) \o read \o Check({}) \o Check({})
  BY DEF CreateBufferResource, ReadImageToHost, CaptureSwapChainImage
<1>2. /\ Calm(need) /\ Calm(look) /\ Calm(end) /\ Calm(BeginSingleTimeCommands) /\ Calm(Check({}))
      /\ Calm(Drop("single")) /\ Calm(Drop("readback"))
  <2> HIDE DEF found
  <2> QED
    BY CalmBuffers, CalmSteps
<1>3. /\ a \in BOOLEAN /\ b \in BOOLEAN /\ f1 \in BOOLEAN /\ f2 \in BOOLEAN
      /\ (f1 => fact) /\ (f2 => fact) /\ (f2 => CanCapture(h, c))
  BY DEF CanCapture, Capturable
<1>4. /\ ready.layouts = {"present"} /\ ready.visible = {} /\ ready.dirty = {"transition"}
      /\ still.layouts = {"present"} /\ still.visible = {} /\ still.dirty = {}
      /\ source.layouts = {"transferSrc"} /\ source.visible = {"transferRead"} /\ source.dirty = {}
      /\ Look({"transferSrc"}, {"transferRead"}, IF {"transferRead"} = {} THEN {"transition"} ELSE {}) = source
      /\ Look({"present"}, {}, IF {} = {} THEN {"transition"} ELSE {}) = ready
  BY DEF Look
<1>5. D = V(ready, fact)
  BY DEF Drawn
<1>6. \A l \in DOMAIN levels : levels[l].dirty = {}
  BY TextureIs
<1>7. \A s, f : V(s, f) \subseteq Sights
  BY DEF Viewed
<1> HIDE DEF levels, need, look, end, buffer, read, f1, f2, a, b, ready, still, source, e
<1>8. ASSUME NEW f \in BOOLEAN, f => fact
      PROVE  V(still, f) \subseteq D /\ V(ready, f) \subseteq D
  <2>1. V(still, f) \subseteq V(ready, f)
    BY <1>4, TargetsLoosened
  <2>2. V(ready, f) \subseteq V(ready, fact)
    BY <1>8 DEF Viewed
  <2> QED
    BY <1>5, <2>1, <2>2
<1>9. ASSUME NEW f \in BOOLEAN, f => fact, NEW p, Calm(p)
      PROVE  Brings(D, V(still, f), p, V(still, f)) /\ Brings(D, V(ready, f), p, V(ready, f))
  BY <1>6, <1>8, <1>9, BringsCalm
<1>10. Brings(D, D, Wait, V(still, fact))
  <2> DEFINE looks == Targets(m, d, ready)
             dry == [o \in DOMAIN looks |-> Dry(looks[o])]
             looks2 == Targets(m, d, still)
  <2>1. Brings(D, Viewed(h, c, looks, levels, fact), Wait, Viewed(h, c, dry, levels, fact))
    BY <1>5, <1>6, BringsWait
  <2>2. /\ DOMAIN looks = {"msaa", "depth", "swapChain"} /\ looks["swapChain"] = ready
        /\ DOMAIN looks2 = {"msaa", "depth", "swapChain"} /\ looks2["swapChain"] = still
        /\ looks2["msaa"] = looks["msaa"] /\ looks2["depth"] = looks["depth"]
    BY TargetsAre
  <2> HIDE DEF looks, looks2
  <2>3. \A o \in DOMAIN looks2 : /\ o \in DOMAIN dry /\ dry[o].layouts = looks[o].layouts
                                 /\ dry[o].visible = looks[o].visible /\ dry[o].dirty = {}
    BY <2>2 DEF Dry, Look
  <2> HIDE DEF dry
  <2>4. \A o \in DOMAIN looks2 : /\ o \in DOMAIN dry /\ dry[o].layouts \subseteq looks2[o].layouts
                                 /\ looks2[o].visible \subseteq dry[o].visible /\ dry[o].dirty \subseteq looks2[o].dirty
    BY <1>4, <2>2, <2>3
  <2>5. \A l \in DOMAIN levels : l \in DOMAIN levels /\ levels[l] = levels[l]
    OBVIOUS
  <2>6. Viewed(h, c, dry, levels, fact) \subseteq Viewed(h, c, looks2, levels, fact)
    BY <2>4, <2>5, ViewedMore
  <2>7. Brings(D, Viewed(h, c, looks, levels, fact), Wait, Viewed(h, c, looks2, levels, fact))
    BY <2>1, <2>6, BringsInto
  <2> QED
    BY <1>5, <2>7 DEF looks, looks2
<1>11. ASSUME NEW f \in BOOLEAN, f => fact, NEW g \in BOOLEAN
       PROVE  Brings(D, V(still, f), Needed(g), V(still, f /\ g))
  <2> DEFINE A == V(still, f)
  <2>1. A \in SUBSET Sights /\ A \subseteq D
    BY <1>7, <1>8, <1>11
  <2>2. {n \in A : g} \subseteq V(still, f /\ g)
    BY DEF Viewed
  <2> HIDE DEF A, V
  <2>3. Brings(D, A, Needed(g), {n \in A : g})
    BY <2>1, BringsNeeded
  <2>4. Brings(D, A, Needed(g), V(still, f /\ g))
    BY <2>2, <2>3, BringsInto
  <2> QED
    BY <2>4 DEF A
<1>12. Brings(D, V(still, fact), Needed(a), V(still, f1)) /\ Brings(D, V(still, f1), Needed(b), V(still, f2))
  <2>1. Brings(D, V(still, fact), Needed(a), V(still, fact /\ a))
    BY <1>3, <1>11
  <2>2. Brings(D, V(still, f1), Needed(b), V(still, f1 /\ b))
    BY <1>3, <1>11
  <2> QED
    BY <2>1, <2>2 DEF f1, f2
<1>13. Brings(D, V(still, f2), buffer, V(still, f2))
  <2>1. "readback" \in Telling /\ "readback" # "swapViews" /\ "readback" # "fences"
    BY DEF Telling
  <2>2. V(still, f2) \subseteq D /\ (f2 => CanCapture(h, c))
    BY <1>3, <1>8
  <2>3. Brings(D, V(still, f2), Make("readback"), V(still, f2))
    BY <1>3, <2>1, <2>2, BringsMake
  <2>4. Brings(D, V(still, f2), need, V(still, f2)) /\ Brings(D, V(still, f2), look, V(still, f2))
    BY <1>2, <1>3, <1>9
  <2> HIDE DEF V
  <2> QED
    BY <1>1, <2>3, <2>4, BringsOn
<1>14. Brings(D, V(still, f2), t1, V(source, f2))
  <2>1. still.layouts \subseteq {"present"} /\ still.dirty \subseteq {}
    BY <1>4
  <2>2. source = Look({"transferSrc"}, {"transferRead"}, IF {"transferRead"} = {} THEN {"transition"} ELSE {})
    BY <1>4
  <2>3. "transferSrc" \in Layouts /\ {"transferRead"} \in SUBSET Accesses /\ f2 \in BOOLEAN
    BY <1>3 DEF Layouts, Accesses
  <2> QED
    BY <2>1, <2>2, <2>3, BringsTargetTransition
<1>15. Brings(D, V(source, f2), use, V(source, f2))
  <2>1. source.layouts = {"transferSrc"} /\ {"transferRead"} \subseteq source.visible /\ source.dirty = {}
    BY <1>4
  <2>2. source = Look({"transferSrc"}, source.visible, {"transferRead"} \cap Writes)
    BY <1>4 DEF Writes, source
  <2>3. {"transferRead"} \in SUBSET Accesses /\ f2 \in BOOLEAN
    BY <1>3 DEF Accesses
  <2> QED
    BY <2>1, <2>2, <2>3, BringsTargetUse DEF e
<1>16. Brings(D, V(source, f2), t2, V(ready, f2))
  <2>1. source.layouts \subseteq {"transferSrc"} /\ source.dirty \subseteq {"transferRead"}
    BY <1>4
  <2>2. ready = Look({"present"}, {}, IF {} = {} THEN {"transition"} ELSE {})
    BY <1>4
  <2>3. "present" \in Layouts /\ {} \in SUBSET Accesses /\ f2 \in BOOLEAN
    BY <1>3 DEF Layouts, Accesses
  <2> QED
    BY <2>1, <2>2, <2>3, BringsTargetTransition
<1>17. /\ Brings(D, V(still, f2), BeginSingleTimeCommands, V(still, f2))
       /\ Brings(D, V(ready, f2), end, V(ready, f2)) /\ Brings(D, V(ready, f2), look, V(ready, f2))
       /\ Brings(D, V(ready, f2), Drop("single"), V(ready, f2))
       /\ Brings(D, V(ready, f2), Drop("readback"), V(ready, f2))
       /\ Brings(D, V(ready, f2), Check({}), V(ready, f2))
  BY <1>2, <1>3, <1>9
<1>18. V(ready, f2) \subseteq D
  BY <1>3, <1>8
<1> HIDE DEF V, t1, use, t2
<1>19. Brings(D, V(still, f2), buffer \o BeginSingleTimeCommands \o t1 \o use \o t2, V(ready, f2))
  BY <1>13, <1>14, <1>15, <1>16, <1>17, BringsOn
<1>20. Brings(D, V(still, f2), read, V(ready, f2))
  BY <1>1, <1>17, <1>19, BringsOn
<1>21. Brings(D, V(still, fact), CaptureSwapChainImage(h, c), V(ready, f2))
  BY <1>1, <1>12, <1>17, <1>20, BringsOn
<1>22. Brings(D, V(still, fact), CaptureSwapChainImage(h, c), D)
  BY <1>18, <1>21, BringsInto
<1> QED
  BY <1>10, <1>22, BringsOn

LEMMA FreshAttachments ==
    ASSUME NEW h, NEW c, NEW levels, NEW fact \in BOOLEAN
    PROVE  Viewed(h, c, Put(Put(<<>>, "msaa", Fresh), "depth", Fresh), levels, fact)
              \subseteq Viewed(h, c, Attachments, levels, fact)
<1> DEFINE looks == Put(Put(<<>>, "msaa", Fresh), "depth", Fresh)
<1>1. DOMAIN looks = {"msaa", "depth"} /\ \A o \in DOMAIN looks : looks[o] = Fresh
  BY DEF Put
<1>2. Fresh.layouts = {"undefined"} /\ Fresh.visible = {} /\ Fresh.dirty = {} /\ "undefined" \in Layouts
  BY DEF Fresh, Look, Layouts
<1> HIDE DEF looks
<1>3. \A o \in DOMAIN Attachments : /\ o \in DOMAIN looks
                                    /\ looks[o].layouts \subseteq Attachments[o].layouts
                                    /\ Attachments[o].visible \subseteq looks[o].visible
                                    /\ looks[o].dirty \subseteq Attachments[o].dirty
  BY <1>1, <1>2, AttachmentsAre
<1>4. \A l \in DOMAIN levels : l \in DOMAIN levels /\ levels[l] = levels[l]
  OBVIOUS
<1>5. Viewed(h, c, looks, levels, fact) \subseteq Viewed(h, c, Attachments, levels, fact)
  BY <1>3, <1>4, ViewedMore
<1> QED
  BY <1>5 DEF looks

\* A new chain, with attachments of its size.
LEMMA BringsRecreated ==
    ASSUME NEW h \in Hosts, NEW c, NEW looks, NEW fact \in BOOLEAN,
           NEW surface \in Surfaces, NEW size \in FramebufferSizes,
           NEW d, d = [surface |-> surface, choice |-> SwapChainChoice(surface, size)]
    PROVE  /\ d \in Chains
           /\ Brings(Sights, Viewed(h, c, looks, TextureLevels(h), fact), RecreateSwapChain(h, surface, size),
                     Viewed(h, d, Attachments, TextureLevels(h), fact))
<1> DEFINE levels == TextureLevels(h)
           extent == d.choice.extent
           V(l) == Viewed(h, d, l, levels, fact)
           A == Viewed(h, c, looks, levels, fact)
           B == Viewed(h, d, Attachments, levels, fact)
           l1 == Put(<<>>, "msaa", Fresh)
           l2 == Put(l1, "depth", Fresh)
           chainOf == CreateSwapChainResources(surface, size)
           colours == CreateMultisampleColorResources(h, extent)
           depths == CreateDepthResources(h, extent)
           semaphores == Choose(<<<<>>, CreateSemaphores("renderFinished") \o Replace("renderFinished")>>)
<1>1. RecreateSwapChain(h, surface, size) =
          Wait \o Release("swapViews") \o Release("swapChain") \o chainOf
          \o Replace("swapChain") \o Replace("swapViews") \o colours
          \o Release("msaaView") \o Replace("msaa") \o Replace("msaaView")
          \o depths \o Release("depthView") \o Replace("depth") \o Replace("depthView") \o semaphores
  <2>1. d.choice = SwapChainChoice(surface, size)
    OBVIOUS
  <2> QED
    BY <2>1 DEF RecreateSwapChain
<1>2. \A l \in DOMAIN levels : levels[l].dirty = {}
  BY TextureIs
<1>3. A \subseteq Sights /\ \A l : V(l) \subseteq Sights
  BY DEF Viewed
<1> HIDE DEF levels
<1>4. d \in Chains /\ Brings(Sights, A, chainOf, V(<<>>))
  BY <1>2, BringsSwapChain
<1>5. Brings(Sights, V(<<>>), colours, V(l1))
  BY <1>2, <1>4, BringsTargets
<1>6. Brings(Sights, V(l1), depths, V(l2))
  <2> HIDE DEF l1
  <2> QED
    BY <1>2, <1>4, BringsTargets
<1>7. V(l2) \subseteq B
  BY FreshAttachments
<1>8. Calm(semaphores)
  <2>1. Calm(CreateSemaphores("renderFinished") \o Replace("renderFinished"))
    BY CalmSteps, CalmOn DEF CreateSemaphores, Telling
  <2> QED
    BY <2>1, CalmNone, CalmEither
<1>9. ASSUME NEW p, Calm(p) PROVE Brings(Sights, A, p, A) /\ \A l : Brings(Sights, V(l), p, V(l))
  BY <1>2, <1>3, <1>9, BringsCalm
<1>10. /\ Brings(Sights, A, Wait, A) /\ Brings(Sights, A, Release("swapViews"), A)
       /\ Brings(Sights, A, Release("swapChain"), A)
  BY <1>9, CalmSteps
<1>11. /\ Brings(Sights, V(<<>>), Replace("swapChain"), V(<<>>)) /\ Brings(Sights, V(<<>>), Replace("swapViews"), V(<<>>))
       /\ Brings(Sights, V(l1), Release("msaaView"), V(l1)) /\ Brings(Sights, V(l1), Replace("msaa"), V(l1))
       /\ Brings(Sights, V(l1), Replace("msaaView"), V(l1))
       /\ Brings(Sights, V(l2), Release("depthView"), V(l2)) /\ Brings(Sights, V(l2), Replace("depth"), V(l2))
       /\ Brings(Sights, V(l2), Replace("depthView"), V(l2)) /\ Brings(Sights, V(l2), semaphores, V(l2))
  <2> HIDE DEF V, A, semaphores
  <2> QED
    BY <1>8, <1>9, CalmSteps
<1> HIDE DEF V, A, B, l1, l2, chainOf, colours, depths, semaphores
<1>12. Brings(Sights, A, Wait \o Release("swapViews") \o Release("swapChain") \o chainOf
                         \o Replace("swapChain") \o Replace("swapViews"), V(<<>>))
  BY <1>4, <1>10, <1>11, BringsOn
<1>13. Brings(Sights, A, Wait \o Release("swapViews") \o Release("swapChain") \o chainOf
                         \o Replace("swapChain") \o Replace("swapViews") \o colours
                         \o Release("msaaView") \o Replace("msaa") \o Replace("msaaView"), V(l1))
  BY <1>5, <1>11, <1>12, BringsOn
<1>14. Brings(Sights, A, RecreateSwapChain(h, surface, size), V(l2))
  BY <1>1, <1>6, <1>11, <1>13, BringsOn
<1>15. Brings(Sights, A, RecreateSwapChain(h, surface, size), B)
  BY <1>7, <1>14, BringsInto
<1> QED
  BY <1>4, <1>15 DEF A, B, levels

\* With the machine fit or not to look at: t is what a sight knows of it.
LEMMA BringsFrame ==
    ASSUME NEW h \in Hosts, NEW c \in Chains, NEW fact \in BOOLEAN,
           NEW surface \in Surfaces, NEW size \in FramebufferSizes, NEW has, NEW B \in SUBSET Sights,
           \A d \in Chains : Viewed(h, d, Attachments, TextureLevels(h), fact) \subseteq B
    PROVE  Brings(Sights, Viewed(h, c, Attachments, TextureLevels(h), fact),
                  DrawFrame(h, surface, size, c, has), B)
<1> DEFINE levels == TextureLevels(h)
           e == c.choice.extent
           A == Viewed(h, c, Attachments, levels, fact)
           m == Attachments["msaa"]
           t == Attachments["depth"]
           R == Viewed(h, c, Targets(m, t, Fresh), levels, fact)
           D == Viewed(h, c, Drawn, levels, fact)
           recreate == RecreateSwapChain(h, surface, size)
           capture == Wait \o CaptureSwapChainImage(h, c)
           image == Image("swapChain", 0, e)
           record == RecordCommandBuffer(h, e, has)
           submit == Submit(FrameUses(has))
           captured == Choose(<<<<>>, Guarded(capture, <<>>)>>)
           shown == Check({"swapChain", "renderFinished"})
           after == Choose(<<recreate, shown>>)
           drawn == Check({"swapChain", "presentComplete"}) \o image
                    \o Check({"fences"}) \o Surely({"uniforms"}) \o Check({"commandBuffers"})
                    \o record \o submit \o captured \o Present \o after
<1>1. DrawFrame(h, surface, size, c, has) =
          IF size[1] = 0 \/ size[2] = 0 THEN <<>> ELSE Check({"fences"}) \o Choose(<<recreate, drawn>>)
  BY DEF DrawFrame
<1>2. \A l \in DOMAIN levels : levels[l].dirty = {}
  BY TextureIs
<1>3. A \in SUBSET Sights /\ R \in SUBSET Sights /\ D \in SUBSET Sights /\ A \subseteq B
  BY DEF Viewed
<1>4. \A looks : Brings(Sights, Viewed(h, c, looks, levels, fact), recreate, B)
  <2> DEFINE d == [surface |-> surface, choice |-> SwapChainChoice(surface, size)]
  <2> TAKE looks
  <2>1. d \in Chains
        /\ Brings(Sights, Viewed(h, c, looks, levels, fact), recreate, Viewed(h, d, Attachments, levels, fact))
    BY BringsRecreated
  <2> HIDE DEF d, recreate
  <2>2. Viewed(h, d, Attachments, levels, fact) \subseteq B
    BY <2>1
  <2> QED
    BY <2>1, <2>2, BringsInto
<1>5. ASSUME NEW p, Calm(p)
      PROVE  Brings(Sights, A, p, A) /\ Brings(Sights, R, p, R) /\ Brings(Sights, D, p, D)
  BY <1>2, <1>3, <1>5, BringsCalm
<1>6. Brings(Sights, A, image, R)
  <2>1. e \in [1..2 -> Nat] /\ (\A i \in 1..2 : e[i] <= e[i])
    BY ChainIs
  <2>2. "swapChain" \in Shown \ {"texture"}
    BY DEF Shown
  <2>3. Brings(Sights, A, image, Viewed(h, c, Put(Attachments, "swapChain", Fresh), levels, fact))
    BY <2>1, <2>2, BringsImage DEF Fresh
  <2>4. Put(Attachments, "swapChain", Fresh) = Targets(m, t, Fresh)
    BY AttachmentsAre DEF Put, Targets
  <2> HIDE DEF image, m, t, A
  <2> QED
    BY <2>3, <2>4
<1>7. Brings(Sights, R, record, D)
  BY BringsRecording
<1>8. Brings(Sights, D, captured, D)
  <2>1. Brings(D, D, capture, D)
    BY BringsCapture
  <2>2. Brings(Sights, D, <<>>, D)
    BY BringsNowhere
  <2> HIDE DEF capture, D
  <2>3. Brings(Sights, D, Guarded(capture, <<>>), D)
    BY <1>3, <2>1, <2>2, BringsGuarded
  <2> DEFINE ways == <<<<>>, Guarded(capture, <<>>)>>
  <2>4. DOMAIN ways = {1, 2} /\ ways[1] = <<>> /\ ways[2] = Guarded(capture, <<>>)
    OBVIOUS
  <2> HIDE DEF ways
  <2>5. \A i \in DOMAIN ways : Brings(Sights, D, ways[i], D)
    BY <2>2, <2>3, <2>4
  <2>6. Brings(Sights, D, Choose(ways), D)
    BY <1>3, <2>5, BringsChoice
  <2> QED
    BY <2>6 DEF ways
<1>9. Brings(Sights, D, Present, D)
  <2>1. "swapChain" \in DOMAIN Drawn /\ Drawn["swapChain"].layouts \subseteq {"present"}
    BY TargetsAre DEF Drawn, Look
  <2> QED
    BY <2>1, BringsPresent
<1>10. Brings(Sights, D, after, B)
  <2>1. D \subseteq Viewed(h, c, Attachments, levels, fact)
    <3>1. Attachments = [o \in {"msaa", "depth"} |-> IF o = "msaa" THEN m ELSE t]
      BY AttachmentsAre DEF Attachments
    <3>2. Viewed(h, c, Drawn, levels, fact)
             \subseteq Viewed(h, c, [o \in {"msaa", "depth"} |-> IF o = "msaa" THEN m ELSE t], levels, fact)
      <4> DEFINE ready == Look({"present"}, {}, {"transition"})
      <4>1. Drawn = Targets(m, t, ready)
        BY DEF Drawn
      <4> HIDE DEF ready, m, t
      <4> QED
        BY <4>1, TargetsLoosened
    <3> QED
      BY <3>1, <3>2
  <2>2. Calm(shown)
    BY CalmSteps
  <2>3. Brings(Sights, D, shown, D) /\ D \subseteq B
    BY <1>3, <1>5, <2>1, <2>2
  <2>4. Brings(Sights, D, recreate, B)
    BY <1>4
  <2> DEFINE ways == <<recreate, shown>>
  <2>5. DOMAIN ways = {1, 2} /\ ways[1] = recreate /\ ways[2] = shown
    OBVIOUS
  <2> HIDE DEF ways, recreate, shown, D
  <2>6. Brings(Sights, D, shown, B)
    BY <2>3, BringsInto
  <2>7. \A i \in DOMAIN ways : Brings(Sights, D, ways[i], B)
    BY <2>4, <2>5, <2>6
  <2>8. Brings(Sights, D, Choose(ways), B)
    BY <1>3, <2>7, BringsChoice
  <2> QED
    BY <2>8 DEF ways
<1>11. /\ Calm(Check({"swapChain", "presentComplete"})) /\ Calm(Check({"fences"})) /\ Calm(Surely({"uniforms"}))
       /\ Calm(Check({"commandBuffers"})) /\ Calm(submit)
  BY CalmSteps
<1>12. /\ Brings(Sights, A, Check({"swapChain", "presentComplete"}), A) /\ Brings(Sights, A, Check({"fences"}), A)
       /\ Brings(Sights, R, Check({"fences"}), R) /\ Brings(Sights, R, Surely({"uniforms"}), R)
       /\ Brings(Sights, R, Check({"commandBuffers"}), R) /\ Brings(Sights, D, submit, D)
  BY <1>5, <1>11
<1>13. Brings(Sights, A, recreate, B)
  BY <1>4
<1> HIDE DEF A, R, D, recreate, image, record, submit, captured, after
<1>14. Brings(Sights, A, Check({"swapChain", "presentComplete"}) \o image \o Check({"fences"})
                         \o Surely({"uniforms"}) \o Check({"commandBuffers"}), R)
  BY <1>6, <1>12, BringsOn
<1>15. Brings(Sights, A, drawn, B)
  BY <1>7, <1>8, <1>9, <1>10, <1>12, <1>14, BringsOn
<1> DEFINE ways == <<recreate, drawn>>
<1>16. DOMAIN ways = {1, 2} /\ ways[1] = recreate /\ ways[2] = drawn
  OBVIOUS
<1> HIDE DEF ways, drawn
<1>17. \A i \in DOMAIN ways : Brings(Sights, A, ways[i], B)
  BY <1>13, <1>15, <1>16
<1>18. Brings(Sights, A, Choose(ways), B)
  BY <1>3, <1>17, BringsChoice
<1>19. Brings(Sights, A, Check({"fences"}) \o Choose(ways), B)
  BY <1>12, <1>18, BringsOn
<1>20. Brings(Sights, A, <<>>, B)
  BY <1>3, BringsNowhere
<1>21. Brings(Sights, A, DrawFrame(h, surface, size, c, has), B)
  BY <1>1, <1>19, <1>20 DEF ways
<1> QED
  BY <1>21 DEF A
-----------------------------------------------------------------------------
(* Boot, a turn of Run and Shutdown.                                       *)

\* Between two turns, with the renderer up and no stop asked for, its images
\* are ready for a frame.
Settled ==
    {n \in Sights : n.running /\ n.drawing =>
        n.chain \in Chains /\ n \in Viewed(n.host, n.chain, Attachments, TextureLevels(n.host), Fit(n.host))}

EndsSeen(ph) == IF ph \in {"boot", "run"} THEN Settled ELSE Sights

\* Before the renderer came up there is nothing to be ready.
Undrawn == {n \in Sights : ~n.drawing}

LEMMA SettledAre ==
    /\ Settled \in SUBSET Sights /\ Undrawn \subseteq Settled
    /\ \A h, c : c \in Chains => Viewed(h, c, Attachments, TextureLevels(h), Fit(h)) \subseteq Settled
<1>1. Settled \in SUBSET Sights /\ Undrawn \subseteq Settled
  BY DEF Settled, Undrawn
<1>2. ASSUME NEW h, NEW c, c \in Chains, NEW n \in Viewed(h, c, Attachments, TextureLevels(h), Fit(h))
      PROVE  n \in Settled
  <2>1. n \in Sights /\ n.host = h /\ n.chain = c
    BY DEF Viewed
  <2> QED
    BY <1>2, <2>1 DEF Settled
<1> QED
  BY <1>1, <1>2

LEMMA SightsSteady == Steady(Sights) /\ Steady(Undrawn)
<1>1. ASSUME NEW n \in Sights PROVE Cleaned(n) \in Sights /\ Cleaned(n).drawing = n.drawing
  <2> DEFINE im == [i \in DOMAIN n.images |-> Available(n.images[i])]
  <2>1. /\ \A i \in DOMAIN n.images : n.images[i] \in ImageStates
        /\ DOMAIN n.images \subseteq Shown \X Nat /\ DOMAIN im = DOMAIN n.images
        /\ \A i \in DOMAIN n.images : im[i] = Available(n.images[i])
    BY ImagesAre
  <2>2. im \in [DOMAIN im -> ImageStates]
    BY <2>1, AvailableIs
  <2> QED
    BY <2>1, <2>2, ImagesAre, SightIs DEF Cleaned
<1> QED
  BY <1>1 DEF Steady, Undrawn

LEMMA BringsStopped ==
    ASSUME NEW H
    PROVE  /\ Brings(H, Sights, Stop, Settled)
           /\ Brings(H, Undrawn, Stop, Undrawn)
<1> DEFINE s == [op |-> "stop", on |-> {}, fails |-> {FALSE}, with |-> <<>>]
<1>1. s.op = "stop" /\ s.fails = {FALSE} /\ Stop = <<s>>
  BY DEF Stop, Step
<1> HIDE DEF s
<1>2. ASSUME NEW n \in Sights
      PROVE  /\ Fits(n, s) /\ Next2(n, s) \in Settled
             /\ n \in Undrawn => Next2(n, s) \in Undrawn
  <2> DEFINE r == FALSE
             k == Sight(n.host, n.images, n.chain, n.drawing, r)
  <2>1. ImagesAfter(n.images, s) = n.images /\ Fits(n, s)
    BY <1>1 DEF ImagesAfter, Fits
  <2>2. Next2(n, s) = k
    BY <1>1, <2>1 DEF Next2
  <2>3. r \in BOOLEAN /\ ~r
    OBVIOUS
  <2> HIDE DEF r
  <2>4. k \in Sights /\ k.running = r /\ k.drawing = n.drawing
    BY <2>3, SightIs DEF Sight, Sights
  <2> HIDE DEF k
  <2> QED
    BY <2>1, <2>2, <2>3, <2>4 DEF Settled, Undrawn
<1>3. Sights \in SUBSET Sights /\ Undrawn \in SUBSET Sights
  BY DEF Undrawn
<1>4. \A n \in Undrawn : n \in Sights
  BY DEF Undrawn
<1>5. Brings(H, Sights, <<s>>, Settled)
  BY <1>1, <1>2, <1>3, BringsStep
<1>6. Brings(H, Undrawn, <<s>>, Undrawn)
  BY <1>1, <1>2, <1>3, <1>4, BringsStep
<1> QED
  BY <1>1, <1>5, <1>6

\* main's handler: whatever failed, the run is asked to stop.
LEMMA OrderlyCaught ==
    ASSUME NEW A, NEW p, Brings(Sights, A, p, Settled)
    PROVE  \A n \in A : Orderly(Settled, n, p \o Catch(Stop))
<1> DEFINE c == [op |-> "catch", on |-> {}, fails |-> {FALSE}, with |-> Stop]
           none == <<>>
<1>1. c.op = "catch" /\ c.fails = {FALSE} /\ c.with = Stop /\ Catch(Stop) = <<c>>
  BY DEF Catch, Step
<1> HIDE DEF c
<1>2. IsProgram(none) /\ (<<c>> \o none = <<c>>) /\ IsProgram(<<c>>)
  <2>1. <<c>> \in Seq({c})
    OBVIOUS
  <2>2. <<c>> \o none = <<c>>
    BY <2>1, ConcatEmptySeq
  <2>3. IsProgram(none)
    BY DEF IsProgram
  <2> QED
    BY <2>1, <2>2, <2>3 DEF IsProgram
<1>3. Stop \o none = Stop
  BY DEF Stop, Step
<1>4. \A n \in Settled : Orderly(Settled, n, none)
  BY SettledAre, OrderlyEnd
<1>5. \A n \in Sights : Orderly(Settled, n, Stop)
  <2> DEFINE nobody == {}
  <2>1. Caters(Settled, nobody, none)
    BY DEF Caters
  <2> HIDE DEF nobody, none
  <2>2. Brings(nobody, Sights, Stop, Settled)
    BY BringsStopped
  <2> QED
    BY <1>2, <1>3, <1>4, <2>1, <2>2 DEF Brings
<1>6. \A n \in Settled : Orderly(Settled, n, <<c>>)
  <2> TAKE n \in Settled
  <2>1. n \in Sights
    BY SettledAre
  <2>2. Fits(n, c)
    BY <1>1 DEF Fits
  <2>3. Next2(n, c) = n
    <3>1. ImagesAfter(n.images, c) = n.images
      BY <1>1 DEF ImagesAfter
    <3>2. Next2(n, c) = Sight(n.host, n.images, n.chain, n.drawing, n.running)
      BY <1>1, <3>1 DEF Next2
    <3> QED
      BY <2>1, <3>2, SightIs
  <2> HIDE DEF none
  <2>4. c.op # "choose" /\ (FALSE \in c.fails => Orderly(Settled, Next2(n, c), none)) /\ TRUE \notin c.fails
    BY <1>1, <1>4, <2>3
  <2>5. Orderly(Settled, n, <<c>> \o none)
    BY <1>2, <2>1, <2>2, <2>4, OrderlyStep
  <2> QED
    BY <1>2, <2>5
<1>7. Caters(Settled, Sights, <<c>>)
  <2>1. Caught(<<c>> \o none, c.with \o none)
    BY <1>1, <1>2, CaughtHere
  <2>2. Caught(<<c>>, Stop)
    BY <1>1, <1>2, <1>3, <2>1
  <2> QED
    BY <1>5, <2>2 DEF Caters
<1> QED
  BY <1>1, <1>2, <1>6, <1>7 DEF Brings

LEMMA BootSeen ==
    ASSUME NEW h \in Hosts, NEW c \in Capabilities, NEW size \in FramebufferSizes,
           NEW f \in BOOLEAN, ~f, NEW t \in BOOLEAN, t,
           NEW n, n = Sight(h, <<>>, <<>>, f, t)
    PROVE  Orderly(Settled, n, Boot(h, c, size))
<1> DEFINE d == [surface |-> h.surface, choice |-> SwapChainChoice(h.surface, size)]
           fit == Fit(h)
           V == Viewed(h, <<>>, <<>>, <<>>, t)
           W == Viewed(h, d, Attachments, TextureLevels(h), fit)
           D == Viewed(h, d, Attachments, <<>>, fit)
           presentation == IF c.presentation THEN BootPresentation ELSE <<>>
           found == c.presentation
           ui == BootDebugUi(h)
           create == Create(h, size)
           backend == IF h.dev THEN InitializeDebugUiBackend ELSE <<>>
           rendering == IF c.rendering THEN BootRendering(h, c.presentation, size) ELSE <<>>
           rest == StartIfRequested \o Own("ecs") \o Own("app") \o Adopt
           body == presentation \o rendering \o StartIfRequested \o Own("ecs") \o Own("app") \o Adopt
<1>1. Boot(h, c, size) = body \o Catch(Stop)
  BY DEF Boot
<1>2. BootRendering(h, c.presentation, size) = Needed(found) \o ui \o create \o backend
  BY DEF BootRendering
<1>3. create = CreateDeviceAndTargets(h, size) \o CreatePipelineAndFrames(h)
  BY DEF Create
<1>4. n \in V /\ n \in Undrawn
  <2>1. <<>> \in [DOMAIN <<>> -> ImageStates] /\ DOMAIN <<>> = {} /\ {} \in SUBSET (Shown \X Nat)
    OBVIOUS
  <2>2. <<>> \in ImageSets
    BY <2>1 DEF ImageSets
  <2>3. n \in Sights /\ n.host = h /\ n.chain = <<>> /\ n.drawing = f
    BY <2>2, SightIs DEF Sight, Sights
  <2> QED
    BY <2>1, <2>3 DEF Viewed, Undrawn
<1>5. /\ Calm(presentation) /\ Calm(Needed(found)) /\ Calm(ui) /\ Calm(backend)
      /\ Calm(StartIfRequested) /\ Calm(Own("ecs")) /\ Calm(Own("app")) /\ Calm(Adopt)
  <2>1. Calm(presentation) /\ Calm(backend)
    BY CalmBoot, CalmNone
  <2>2. "ecs" \notin Telling /\ "app" \notin Telling
    BY DEF Telling
  <2> HIDE DEF presentation, backend, found
  <2> QED
    BY <2>1, <2>2, CalmBoot, CalmSteps
<1>6. /\ V \in SUBSET Sights /\ W \in SUBSET Sights /\ Undrawn \in SUBSET Sights
      /\ \A l \in DOMAIN <<>> : <<>>[l].dirty = {}
      /\ \A l \in DOMAIN TextureLevels(h) : TextureLevels(h)[l].dirty = {}
      /\ fit \in BOOLEAN
  BY TextureIs DEF Viewed, Undrawn, Fit
<1>7. ASSUME NEW p, Calm(p)
      PROVE  Brings(Sights, V, p, V) /\ Brings(Sights, W, p, W) /\ Brings(Sights, Undrawn, p, Undrawn)
  <2>1. Brings(Sights, V, p, V) /\ Brings(Sights, W, p, W)
    BY <1>6, <1>7, BringsCalm
  <2>2. Brings(Sights, Undrawn, p, Undrawn)
    BY <1>6, <1>7, SightsSteady DEF Calm
  <2> QED
    BY <2>1, <2>2
<1>8. CASE c.rendering
  <2>1. d \in Chains /\ Brings(Sights, V, CreateDeviceAndTargets(h, size), D)
    BY <1>6, BringsDeviceAndTargets
  <2>2. Brings(Sights, D, CreatePipelineAndFrames(h), W)
    BY <1>6, BringsPipelineAndFrames
  <2>3. W \subseteq Settled
    BY <2>1, SettledAre
  <2>4. rendering = Needed(found) \o ui \o create \o backend
    BY <1>2, <1>8
  <2>5. /\ Brings(Sights, V, presentation, V) /\ Brings(Sights, V, Needed(found), V) /\ Brings(Sights, V, ui, V)
        /\ Brings(Sights, W, backend, W) /\ Brings(Sights, W, StartIfRequested, W) /\ Brings(Sights, W, Own("ecs"), W)
        /\ Brings(Sights, W, Own("app"), W) /\ Brings(Sights, W, Adopt, W)
    BY <1>5, <1>7
  <2> HIDE DEF V, W, D, d, fit, presentation, found, ui, create, backend, rendering
  <2>6. Brings(Sights, V, create, W)
    BY <1>3, <2>1, <2>2, BringsOn
  <2>7. Brings(Sights, V, rendering, W)
    BY <2>4, <2>5, <2>6, BringsOn
  <2>8. Brings(Sights, V, body, W)
    BY <2>5, <2>7, BringsOn
  <2> HIDE DEF body
  <2>9. Brings(Sights, V, body, Settled)
    BY <2>3, <2>8, BringsInto
  <2>10. \A k \in V : Orderly(Settled, k, body \o Catch(Stop))
    BY <2>9, OrderlyCaught
  <2> QED
    BY <1>1, <1>4, <2>10
<1>9. CASE ~c.rendering
  <2>1. rendering = <<>>
    BY <1>9
  <2>2. /\ Brings(Sights, Undrawn, presentation, Undrawn) /\ Brings(Sights, Undrawn, <<>>, Undrawn)
        /\ Brings(Sights, Undrawn, StartIfRequested, Undrawn) /\ Brings(Sights, Undrawn, Own("ecs"), Undrawn)
        /\ Brings(Sights, Undrawn, Own("app"), Undrawn) /\ Brings(Sights, Undrawn, Adopt, Undrawn)
    BY <1>5, <1>7, CalmNone
  <2> HIDE DEF presentation, rendering
  <2>3. Brings(Sights, Undrawn, body, Undrawn)
    BY <2>1, <2>2, BringsOn
  <2> HIDE DEF body
  <2>4. Brings(Sights, Undrawn, body, Settled)
    BY <2>3, SettledAre, BringsInto
  <2>5. \A k \in Undrawn : Orderly(Settled, k, body \o Catch(Stop))
    BY <2>4, OrderlyCaught
  <2> QED
    BY <1>1, <1>4, <2>5
<1> QED
  BY <1>8, <1>9

LEMMA TurnSeen ==
    ASSUME NEW n \in Settled, n.running, NEW has, "fences" \in has => n.drawing,
           n.chain = chain, NEW size \in FramebufferSizes, NEW surface \in n.host.surfaces, NEW closing \in BOOLEAN
    PROVE  Orderly(Settled, n, RunStep(n.host, has, size, surface, closing))
<1> DEFINE h == n.host
           W == Viewed(h, chain, Attachments, TextureLevels(h), Fit(h))
           first == Surely({"server"} \cap has)
           close == IF closing THEN Stop ELSE <<>>
           begin == BeginFrame(has)
           simulate == Surely({"app", "ecs"})
           end == EndFrame(has)
           shape == SetCursorShape(has)
           sync == SyncMeshCatalog(h, has)
           frame == DrawFrame(h, surface, size, chain, has)
           draw == IF "fences" \in has THEN sync \o frame ELSE <<>>
           last == IF "server" \in has THEN <<>> ELSE Stop
           before == first \o close \o begin \o simulate \o end \o shape
           body == before \o draw \o last
<1>1. RunStep(h, has, size, surface, closing) = body \o Catch(Stop)
  BY DEF RunStep
<1>2. n \in Sights /\ h \in Hosts /\ Fit(h) \in BOOLEAN
  BY DEF Settled, Sights, Fit
<1>3. n.drawing => chain \in Chains /\ n \in W
  BY DEF Settled
<1>4. Calm(first) /\ Calm(begin) /\ Calm(simulate) /\ Calm(end) /\ Calm(shape) /\ Calm(sync)
  BY CalmSteps, CalmFrame
<1>5. \A H : Brings(H, Settled, Stop, Settled) /\ Brings(H, Undrawn, Stop, Undrawn) /\ Brings(H, W, Stop, W)
  <2>1. \A H : Brings(H, W, Stop, W)
    BY <1>2, BringsStop
  <2> HIDE DEF W
  <2> QED
    BY <2>1, BringsStopped, SettledAre, BringsInto
<1>6. W \in SUBSET Sights /\ Steady(W) /\ Steady(Undrawn) /\ Undrawn \in SUBSET Sights
  <2>1. \A l \in DOMAIN TextureLevels(h) : TextureLevels(h)[l].dirty = {}
    BY <1>2, TextureIs
  <2>2. Steady(W)
    BY <1>2, <2>1, ViewedSteady
  <2> QED
    BY <2>2, SightsSteady DEF Steady
<1>7. ASSUME NEW A \in SUBSET Sights, Steady(A), Brings(Sights, A, Stop, A)
      PROVE  Brings(Sights, A, before, A)
  <2>1. Brings(Sights, A, close, A)
    BY <1>7, BringsNowhere
  <2>2. /\ Brings(Sights, A, first, A) /\ Brings(Sights, A, begin, A) /\ Brings(Sights, A, simulate, A)
        /\ Brings(Sights, A, end, A) /\ Brings(Sights, A, shape, A)
    BY <1>4, <1>7 DEF Calm
  <2> HIDE DEF first, close, begin, simulate, end, shape
  <2> QED
    BY <2>1, <2>2, BringsOn
<1>8. Brings(Sights, Settled, last, Settled)
  BY <1>5, BringsNowhere
<1>9. CASE n.drawing
  <2>1. Brings(Sights, W, before, W)
    BY <1>5, <1>6, <1>7
  <2>2. W \subseteq Settled /\ chain \in Chains
    BY <1>3, <1>9, SettledAre
  <2>3. Brings(Sights, W, sync, W)
    BY <1>4, <1>6 DEF Calm
  <2>4. Brings(Sights, W, frame, Settled)
    <3>1. surface \in Surfaces
      BY <1>2 DEF Surfaces
    <3>2. \A d \in Chains : Viewed(h, d, Attachments, TextureLevels(h), Fit(h)) \subseteq Settled
      BY SettledAre
    <3>3. Settled \in SUBSET Sights
      BY SettledAre
    <3> QED
      BY <1>2, <2>2, <3>1, <3>2, <3>3, BringsFrame
  <2> HIDE DEF W, before, sync, frame
  <2>5. Brings(Sights, W, sync \o frame, Settled)
    BY <2>3, <2>4, BringsOn
  <2>6. Brings(Sights, W, <<>>, Settled)
    BY <2>2, BringsNowhere
  <2>7. Brings(Sights, W, draw, Settled)
    BY <2>5, <2>6
  <2> HIDE DEF draw, last
  <2>8. Brings(Sights, W, body, Settled)
    BY <1>8, <2>1, <2>7, BringsOn
  <2> HIDE DEF body
  <2>9. \A k \in W : Orderly(Settled, k, body \o Catch(Stop))
    BY <2>8, OrderlyCaught
  <2> QED
    BY <1>1, <1>3, <1>9, <2>9
<1>10. CASE ~n.drawing
  <2>1. Brings(Sights, Undrawn, before, Undrawn)
    BY <1>5, <1>6, <1>7
  <2>2. draw = <<>>
    BY <1>10
  <2>3. Brings(Sights, Undrawn, draw, Settled)
    BY <2>2, SettledAre, BringsNowhere
  <2> HIDE DEF before, draw, last
  <2>4. Brings(Sights, Undrawn, body, Settled)
    BY <1>8, <2>1, <2>3, BringsOn
  <2> HIDE DEF body
  <2>5. \A k \in Undrawn : Orderly(Settled, k, body \o Catch(Stop))
    BY <2>4, OrderlyCaught
  <2>6. n \in Undrawn
    BY <1>2, <1>10 DEF Undrawn
  <2> QED
    BY <1>1, <2>5, <2>6
<1> QED
  BY <1>9, <1>10

LEMMA ShutdownSeen ==
    ASSUME NEW n \in Sights, NEW has
    PROVE  Orderly(Sights, n, Shutdown(has))
<1> DEFINE p == Shutdown(has)
           none == <<>>
           nobody == {}
<1>1. Brings(nobody, Sights, p, Sights)
  BY SureShutdown, SightsSteady DEF Sure
<1>2. IsProgram(none) /\ \A k \in Sights : Orderly(Sights, k, none)
  BY OrderlyEnd DEF IsProgram
<1>3. Caters(Sights, nobody, none)
  BY DEF Caters
<1>4. p \o none = p
  BY <1>1, ConcatEmptySeq DEF Brings, IsProgram
<1> HIDE DEF p, none, nobody
<1>5. Orderly(Sights, n, p \o none)
  BY <1>1, <1>2, <1>3 DEF Brings
<1> QED
  BY <1>4, <1>5 DEF p

-----------------------------------------------------------------------------
(* The sights the model is in.                                             *)

Around == LocalNames \cup Has
Seen(drawing) == Sight(host, images, chain, drawing, running)

\* The steps ahead are orderly in the sight the machine, the images and the
\* chain make, with the renderer taken for up once its fences are there.
Onward ==
    \E drawing \in BOOLEAN :
        /\ "fences" \in Around => drawing
        /\ Orderly(EndsSeen(phase), Seen(drawing), todo)

\* What was chosen before an object was made.
Chosen ==
    /\ "fences" \in Around => Fit(host)
    /\ "swapViews" \in Around => chain \in Chains
    /\ "readback" \in LocalNames => CanCapture(host, chain)

\* The second inductive invariant, which rests on the first.
IInvSeen == Onward /\ Chosen

LEMMA FirstStepFits ==
    ASSUME Onward, todo # <<>>
    PROVE  \E drawing \in BOOLEAN :
              /\ "fences" \in Around => drawing
              /\ Seen(drawing) \in Sights /\ Fits(Seen(drawing), step)
              /\ step.op = "choose" => \A i \in DOMAIN step.with :
                    Orderly(EndsSeen(phase), Seen(drawing), step.with[i] \o Tail(todo))
              /\ step.op # "choose" /\ FALSE \in step.fails
                    => Orderly(EndsSeen(phase), Next2(Seen(drawing), step), Tail(todo))
              /\ TRUE \in step.fails => \E handled :
                    Caught(todo, handled) /\ Orderly(EndsSeen(phase), Seen(drawing), handled)
<1>1. PICK drawing \in BOOLEAN :
          ("fences" \in Around => drawing) /\ Orderly(EndsSeen(phase), Seen(drawing), todo)
  BY DEF Onward
<1>2. /\ Seen(drawing) \in Sights /\ Fits(Seen(drawing), step)
      /\ step.op = "choose" => \A i \in DOMAIN step.with :
            Orderly(EndsSeen(phase), Seen(drawing), step.with[i] \o Tail(todo))
      /\ step.op # "choose" /\ FALSE \in step.fails
            => Orderly(EndsSeen(phase), Next2(Seen(drawing), step), Tail(todo))
      /\ TRUE \in step.fails => \E handled :
            Caught(todo, handled) /\ Orderly(EndsSeen(phase), Seen(drawing), handled)
  BY <1>1, OrderlyUnfolds DEF step
<1> QED
  BY <1>1, <1>2, Zenon

LEMMA NextSeen ==
    \A drawing :
        Next2(Seen(drawing), step) =
            Sight(host, ImagesAfter(images, step), IF step.op = "chain" THEN step.with ELSE chain,
                  IF step.op = "make" /\ step.on = {"fences"} THEN TRUE ELSE drawing,
                  IF step.op = "stop" THEN FALSE ELSE running)
<1> TAKE drawing
<1> DEFINE n == Seen(drawing)
<1>1. n.host = host /\ n.images = images /\ n.chain = chain /\ n.drawing = drawing /\ n.running = running
  BY SightIs DEF Seen
<1>2. \A k : k.host = host /\ k.images = images /\ k.chain = chain /\ k.drawing = drawing /\ k.running = running
          => Next2(k, step) =
                Sight(host, ImagesAfter(images, step), IF step.op = "chain" THEN step.with ELSE chain,
                      IF step.op = "make" /\ step.on = {"fences"} THEN TRUE ELSE drawing,
                      IF step.op = "stop" THEN FALSE ELSE running)
  BY Zenon DEF Next2
<1> QED
  BY <1>1, <1>2, Zenon

\* A step that makes nothing.
LEMMA SeenStep ==
    ASSUME IInvSeen, todo # <<>>, Succeed, step.op \notin {"choose", "make"}, todo' = Tail(todo),
           UNCHANGED <<host, phase>>, images' = ImagesAfter(images, step),
           chain' = (IF step.op = "chain" THEN step.with ELSE chain),
           running' = (IF step.op = "stop" THEN FALSE ELSE running),
           Around' \subseteq Around, LocalNames' \subseteq LocalNames,
           step.op = "chain" => "readback" \notin LocalNames
    PROVE  IInvSeen'
<1>1. PICK drawing \in BOOLEAN :
          /\ "fences" \in Around => drawing
          /\ Fits(Seen(drawing), step)
          /\ Orderly(EndsSeen(phase), Next2(Seen(drawing), step), Tail(todo))
  BY FirstStepFits DEF IInvSeen, Succeed
<1>2. Next2(Seen(drawing), step) = Seen(drawing)'
  <2>1. Next2(Seen(drawing), step) = Sight(host, images', chain', drawing, running')
    <3>1. ~(step.op = "make" /\ step.on = {"fences"})
      OBVIOUS
    <3> QED
      BY <3>1, NextSeen
  <2> QED
    BY <2>1 DEF Seen
<1>3. Orderly(EndsSeen(phase)', Seen(drawing)', todo') /\ ("fences" \in Around' => drawing)
  BY <1>1, <1>2 DEF EndsSeen
<1>4. Onward'
  BY <1>3 DEF Onward
<1>5. Chosen'
  <2>1. step.op = "chain" => step.with \in Chains
    BY <1>1 DEF Fits
  <2> QED
    BY <2>1 DEF Chosen, IInvSeen
<1> QED
  BY <1>4, <1>5 DEF IInvSeen

\* An object more, whose making asked for what is known of it since.
LEMMA SeenMake == IInv /\ IInvSeen /\ MakeObject => IInvSeen'
<1> SUFFICES ASSUME IInv, IInvSeen, MakeObject PROVE IInvSeen'
  OBVIOUS
<1> DEFINE taken == {p[2] : p \in {p \in Alive : p[1] = Name}}
           k == Min((0 .. Cardinality(Alive)) \ taken)
           e == <<Name, k>>
<1>1. /\ todo # <<>> /\ Succeed /\ step.op = "make" /\ todo' = Tail(todo)
      /\ locals' = Append(locals, e)
      /\ UNCHANGED <<host, phase, running, members, images, chain>>
  BY DEF MakeObject, Doing, given
<1>2. PICK o : step.on = {o}
  BY <1>1, StepAtWork DEF Allowed, Quiet
<1>3. Name = o
  BY <1>2 DEF Name
<1>4. LocalNames' = LocalNames \cup {o} /\ Around' = Around \cup {o}
  <2> HIDE DEF k
  <2>1. locals \in Seq(Objects)
    BY DEF IInv, Made
  <2>2. Range(locals') = Range(locals) \cup {e}
    <3> HIDE DEF e
    <3>1. locals \in Seq(Objects \cup {e}) /\ e \in Objects \cup {e}
      BY <2>1
    <3> QED
      BY <1>1, <3>1, RangeOfAppend
  <2>3. \A S, p : NamesOf(S \cup {p}) = NamesOf(S) \cup {p[1]}
    BY DEF NamesOf
  <2>4. LocalNames' = LocalNames \cup {e[1]} /\ Has' = Has
    BY <1>1, <2>2, <2>3 DEF LocalNames, Has
  <2> QED
    BY <1>3, <2>4 DEF Around
<1> HIDE DEF e
<1>5. PICK drawing \in BOOLEAN :
          /\ "fences" \in Around => drawing
          /\ Fits(Seen(drawing), step)
          /\ Orderly(EndsSeen(phase), Next2(Seen(drawing), step), Tail(todo))
  BY <1>1, FirstStepFits DEF IInvSeen, Succeed
<1>6. PICK later \in BOOLEAN : later = IF step.op = "make" /\ step.on = {"fences"} THEN TRUE ELSE drawing
  OBVIOUS
<1>7. Next2(Seen(drawing), step) = Seen(later)'
  <2>1. ImagesAfter(images, step) = images
    BY <1>1 DEF ImagesAfter
  <2>2. Next2(Seen(drawing), step) = Sight(host, images, chain, later, running)
    <3>1. images = ImagesAfter(images, step) /\ chain = (IF step.op = "chain" THEN step.with ELSE chain)
          /\ running = (IF step.op = "stop" THEN FALSE ELSE running)
      BY <1>1, <2>1
    <3> QED
      BY <1>6, <3>1, NextSeen
  <2> QED
    BY <1>1, <2>2 DEF Seen
<1>8. "fences" \in Around' => later
  BY <1>1, <1>2, <1>4, <1>5, <1>6
<1>9. Onward'
  <2>1. Orderly(EndsSeen(phase)', Seen(later)', todo')
    BY <1>1, <1>5, <1>7 DEF EndsSeen
  <2> QED
    BY <1>8, <2>1 DEF Onward
<1>10. Chosen'
  <2>1. /\ o = "swapViews" => chain \in Chains
        /\ o = "fences" => Fit(host)
        /\ o = "readback" => CanCapture(host, chain)
    BY <1>1, <1>2, <1>5, SightIs DEF Fits, Seen
  <2> QED
    BY <1>1, <1>4, <2>1 DEF Chosen, IInvSeen
<1> QED
  BY <1>9, <1>10 DEF IInvSeen

LEMMA SameNames ==
    ASSUME UNCHANGED <<locals, members>>
    PROVE  Around' = Around /\ LocalNames' = LocalNames
BY DEF Around, LocalNames, Has

LEMMA SeenQuiet ==
    ASSUME IInvSeen, todo # <<>>, Succeed, step.op \in {"call", "submit", "catch"}, todo' = Tail(todo),
           UNCHANGED <<host, phase, running, locals, members, images, chain>>
    PROVE  IInvSeen'
<1>1. images' = ImagesAfter(images, step)
  BY DEF ImagesAfter
<1> QED
  BY <1>1, SameNames, SeenStep

LEMMA SeenCall == IInvSeen /\ CallObject => IInvSeen'
  BY SeenQuiet DEF CallObject, Doing, given

LEMMA SeenSubmit == IInvSeen /\ SubmitWork => IInvSeen'
  BY SeenQuiet DEF SubmitWork, Doing, given

LEMMA SeenCatch == IInvSeen /\ PassCatch => IInvSeen'
  BY SeenQuiet DEF PassCatch, Doing, given

LEMMA SeenStop == IInvSeen /\ RequestStop => IInvSeen'
<1> SUFFICES ASSUME IInvSeen, RequestStop PROVE IInvSeen'
  OBVIOUS
<1>1. /\ todo # <<>> /\ Succeed /\ step.op = "stop" /\ todo' = Tail(todo) /\ running' = FALSE
      /\ UNCHANGED <<host, phase, locals, members, images, chain>>
  BY DEF RequestStop, Doing, given
<1>2. images' = ImagesAfter(images, step)
  BY <1>1 DEF ImagesAfter
<1>3. chain' = (IF step.op = "chain" THEN step.with ELSE chain) /\ running' = (IF step.op = "stop" THEN FALSE ELSE running)
  BY <1>1
<1> QED
  BY <1>1, <1>2, <1>3, SameNames, SeenStep

LEMMA SeenWait == IInvSeen /\ WaitForWork => IInvSeen'
<1> SUFFICES ASSUME IInvSeen, WaitForWork PROVE IInvSeen'
  OBVIOUS
<1>1. /\ todo # <<>> /\ Succeed /\ step.op = "wait" /\ todo' = Tail(todo)
      /\ images' = [i \in DOMAIN images |-> Available(images[i])]
      /\ UNCHANGED <<host, phase, running, locals, members, chain>>
  BY DEF WaitForWork, Doing, given
<1>2. images' = ImagesAfter(images, step)
  BY <1>1 DEF ImagesAfter
<1>3. chain' = (IF step.op = "chain" THEN step.with ELSE chain) /\ running' = (IF step.op = "stop" THEN FALSE ELSE running)
  BY <1>1
<1> QED
  BY <1>1, <1>2, <1>3, SameNames, SeenStep

LEMMA SeenChain == IInv /\ IInvSeen /\ NoteChain => IInvSeen'
<1> SUFFICES ASSUME IInv, IInvSeen, NoteChain PROVE IInvSeen'
  OBVIOUS
<1>1. /\ todo # <<>> /\ Succeed /\ step.op = "chain" /\ todo' = Tail(todo) /\ chain' = step.with
      /\ UNCHANGED <<host, phase, running, locals, members, images>>
  BY DEF NoteChain, Doing, given
<1>2. images' = ImagesAfter(images, step)
  BY <1>1 DEF ImagesAfter
<1>3. "readback" \notin LocalNames
  BY <1>1, StepAtWork DEF Allowed, Quiet
<1>4. chain' = (IF step.op = "chain" THEN step.with ELSE chain) /\ running' = (IF step.op = "stop" THEN FALSE ELSE running)
  BY <1>1
<1> QED
  BY <1>1, <1>2, <1>3, <1>4, SameNames, SeenStep

LEMMA SeenAccess == IInvSeen /\ AccessImage => IInvSeen'
<1> SUFFICES ASSUME IInvSeen, AccessImage PROVE IInvSeen'
  OBVIOUS
<1> DEFINE i == step.with.image
<1>1. /\ todo # <<>> /\ Succeed /\ step.op \in {"image", "transition", "use", "present"} /\ todo' = Tail(todo)
      /\ UNCHANGED <<host, phase, running, locals, members, chain>>
      /\ \/ step.op = "image" /\ images' = [j \in DOMAIN images \cup {i} |->
                                               IF j = i THEN NewImage(step.with.extent) ELSE images[j]]
         \/ step.op = "transition" /\ images' = [images EXCEPT ![i] = Transitioned(@, step.with)]
         \/ step.op = "use" /\ images' = [images EXCEPT ![i] = Used(@, step.with)]
         \/ step.op = "present" /\ images' = images
  BY DEF AccessImage, Doing, given
<1>2. PICK drawing \in BOOLEAN : Seen(drawing) \in Sights /\ Fits(Seen(drawing), step)
  BY <1>1, FirstStepFits DEF IInvSeen
<1>3. images = [j \in DOMAIN images |-> images[j]]
  BY <1>2, ImagesAre, SightIs DEF Seen
<1>4. step.op \in {"transition", "use"} => i \in DOMAIN images
  BY <1>2, SightIs DEF Fits, Seen
<1>5. ASSUME i \in DOMAIN images, NEW v
      PROVE  [images EXCEPT ![i] = v] = Put(images, i, v)
  <2>1. DOMAIN images \cup {i} = DOMAIN images
    BY <1>5
  <2> HIDE DEF i
  <2> QED
    BY <1>3, <2>1 DEF Put
<1>6. images' = ImagesAfter(images, step)
  <2>1. CASE step.op = "image"
    BY <1>1, <2>1 DEF ImagesAfter, Put
  <2>2. CASE step.op = "transition"
    BY <1>1, <1>4, <1>5, <2>2 DEF ImagesAfter
  <2>3. CASE step.op = "use"
    BY <1>1, <1>4, <1>5, <2>3 DEF ImagesAfter
  <2>4. CASE step.op = "present"
    BY <1>1, <2>4 DEF ImagesAfter
  <2> QED
    BY <1>1, <2>1, <2>2, <2>3, <2>4
<1>7. chain' = (IF step.op = "chain" THEN step.with ELSE chain) /\ running' = (IF step.op = "stop" THEN FALSE ELSE running)
      /\ step.op \notin {"choose", "make", "chain"}
  BY <1>1
<1> QED
  BY <1>1, <1>6, <1>7, SameNames, SeenStep

LEMMA SeenDecide == IInvSeen /\ Decide => IInvSeen'
<1> SUFFICES ASSUME IInvSeen, Decide PROVE IInvSeen'
  OBVIOUS
<1>1. /\ todo # <<>> /\ step.op = "choose"
      /\ UNCHANGED <<host, phase, running, locals, members, images, chain>>
  BY DEF Decide, Doing, given
<1>2. PICK i \in DOMAIN step.with : todo' = step.with[i] \o Tail(todo)
  BY DEF Decide
<1>3. PICK drawing \in BOOLEAN :
          /\ "fences" \in Around => drawing
          /\ Orderly(EndsSeen(phase), Seen(drawing), step.with[i] \o Tail(todo))
  BY <1>1, FirstStepFits DEF IInvSeen
<1>4. Seen(drawing)' = Seen(drawing) /\ EndsSeen(phase)' = EndsSeen(phase)
  BY <1>1 DEF Seen, EndsSeen
<1>5. Onward' /\ Chosen'
  BY <1>1, <1>2, <1>3, <1>4, SameNames DEF Onward, Chosen, IInvSeen
<1> QED
  BY <1>5 DEF IInvSeen

LEMMA SeenDestroy == IInv /\ IInvSeen /\ Destroy => IInvSeen'
<1> SUFFICES ASSUME IInv, IInvSeen, Destroy PROVE IInvSeen'
  OBVIOUS
<1>1. /\ todo # <<>> /\ Succeed /\ step.op \in {"drop", "release", "replace"} /\ todo' = Tail(todo)
      /\ locals' = IF step.op = "release" \/ LocalAt(Name) = 0 THEN locals ELSE RemoveAt(locals, LocalAt(Name))
      /\ UNCHANGED <<host, phase, running, images, chain>>
  BY DestroyIs DEF Destroy
<1>2. members' \subseteq members \cup Local(Name)
  BY <1>1, DestroyIs
<1>3. Made(locals, members, needs)
  BY DEF IInv
<1>4. Local(Name) \subseteq Range(locals) /\ (LocalAt(Name) # 0 => LocalAt(Name) \in DOMAIN locals)
  BY <1>3, LocalIs DEF Named
<1>5. Range(locals') \subseteq Range(locals)
  BY <1>1, <1>3, <1>4, WithoutLocal
<1>6. LocalNames' \subseteq LocalNames /\ Around' \subseteq Around
  <2>1. Has = NamesOf(members) /\ Has' = NamesOf(members')
    BY DEF Has, NamesOf
  <2>2. \A S, T : NamesOf(S \cup T) = NamesOf(S) \cup NamesOf(T)
    BY DEF NamesOf
  <2>3. \A S, T : S \subseteq T => NamesOf(S) \subseteq NamesOf(T)
    BY DEF NamesOf
  <2>4. members' \subseteq members \cup Range(locals)
    BY <1>2, <1>4
  <2>5. NamesOf(members') \subseteq NamesOf(members) \cup NamesOf(Range(locals))
    <3>1. NamesOf(members') \subseteq NamesOf(members \cup Range(locals))
      BY <2>3, <2>4
    <3>2. NamesOf(members \cup Range(locals)) = NamesOf(members) \cup NamesOf(Range(locals))
      BY <2>2
    <3> QED
      BY <3>1, <3>2
  <2>6. LocalNames' \subseteq LocalNames
    BY <1>5, <2>3 DEF LocalNames
  <2> QED
    BY <2>1, <2>5, <2>6 DEF LocalNames, Around
<1>7. images' = ImagesAfter(images, step)
  BY <1>1 DEF ImagesAfter
<1>8. chain' = (IF step.op = "chain" THEN step.with ELSE chain) /\ running' = (IF step.op = "stop" THEN FALSE ELSE running)
      /\ step.op \notin {"choose", "make", "chain"}
  BY <1>1
<1> QED
  BY <1>1, <1>6, <1>7, <1>8, SeenStep

LEMMA SeenAdopt == IInvSeen /\ AdoptLocals => IInvSeen'
<1> SUFFICES ASSUME IInvSeen, AdoptLocals PROVE IInvSeen'
  OBVIOUS
<1>1. /\ todo # <<>> /\ Succeed /\ step.op = "adopt" /\ todo' = Tail(todo)
      /\ members' = members \cup Range(locals) /\ locals' = <<>>
      /\ UNCHANGED <<host, phase, running, images, chain>>
  BY DEF AdoptLocals, Doing, given
<1>2. LocalNames' = {} /\ Has' = Has \cup LocalNames
  BY <1>1 DEF Has, LocalNames, NamesOf, Range
<1>3. LocalNames' \subseteq LocalNames /\ Around' \subseteq Around
  BY <1>2 DEF Around
<1>4. images' = ImagesAfter(images, step)
  BY <1>1 DEF ImagesAfter
<1>5. chain' = (IF step.op = "chain" THEN step.with ELSE chain) /\ running' = (IF step.op = "stop" THEN FALSE ELSE running)
  BY <1>1
<1> QED
  BY <1>1, <1>3, <1>4, <1>5, SeenStep

\* The end of a local asks nothing of a sight and leaves it as it is.
LEMMA OrderlyUnwinding ==
    ASSUME NEW Ends, NEW n, NEW p, Orderly(Ends, n, p), NEW ls \in Seq(Objects)
    PROVE  Orderly(Ends, n, UnwindOf(ls) \o p)
<1> DEFINE Good == {k \in Nat : \A l \in Seq(Objects) : Len(l) = k => Orderly(Ends, n, UnwindOf(l) \o p)}
<1>1. n \in Sights /\ IsProgram(p)
  BY OrderlyUnfolds
<1>2. 0 \in Good
  <2>1. \A l \in Seq(Objects) : Len(l) = 0 => l = <<>>
    OBVIOUS
  <2>2. UnwindOf(<<>>) \o p = p
    BY <1>1, NothingToUnwind
  <2>3. \A l \in Seq(Objects) : Len(l) = 0 => Orderly(Ends, n, UnwindOf(l) \o p)
    BY <2>1, <2>2, Zenon
  <2> QED
    BY <2>3
<1>3. ASSUME NEW k \in 1 .. Len(ls), k - 1 \in Good PROVE k \in Good
  <2> SUFFICES ASSUME NEW l \in Seq(Objects), Len(l) = k PROVE Orderly(Ends, n, UnwindOf(l) \o p)
    BY <1>3
  <2> DEFINE d == [op |-> "drop", on |-> {l[Len(l)][1]}, fails |-> {FALSE}, with |-> <<>>]
             front == RemoveAt(l, Len(l))
             rest == UnwindOf(front) \o p
  <2>1. l # <<>> /\ Len(l) \in 1 .. Len(l)
    OBVIOUS
  <2>2. UnwindOf(l) \o p = <<d>> \o rest /\ IsProgram(rest)
    BY <1>1, <2>1, UnwindLast
  <2>3. front \in Seq(Objects) /\ Len(front) = k - 1
    BY <2>1, RemovedAt
  <2>4. Orderly(Ends, n, rest)
    BY <1>3, <2>3
  <2>5. d.op = "drop" /\ d.fails = {FALSE}
    OBVIOUS
  <2> HIDE DEF d, rest
  <2>6. Fits(n, d) /\ d.op # "choose" /\ TRUE \notin d.fails
    BY <2>5 DEF Fits
  <2>7. Next2(n, d) = n
    <3>1. ImagesAfter(n.images, d) = n.images
      BY <2>5 DEF ImagesAfter
    <3>2. Next2(n, d) = Sight(n.host, n.images, n.chain, n.drawing, n.running)
      BY <2>5, <3>1 DEF Next2
    <3> QED
      BY <1>1, <3>2, SightIs
  <2>8. Orderly(Ends, n, <<d>> \o rest)
    BY <1>1, <2>2, <2>4, <2>6, <2>7, OrderlyStep
  <2> QED
    BY <2>2, <2>8
<1>4. Len(ls) \in Nat
  OBVIOUS
<1> HIDE DEF Good
<1>5. \A k \in 0 .. Len(ls) : k \in Good
  BY <1>2, <1>3, <1>4, InductionUpTo
<1>6. Len(ls) \in Good
  BY <1>4, <1>5
<1> QED
  BY <1>6 DEF Good

LEMMA SeenFail == IInv /\ IInvSeen /\ Fail => IInvSeen'
<1> SUFFICES ASSUME IInv, IInvSeen, Fail PROVE IInvSeen'
  OBVIOUS
<1> DEFINE catch == SelectInSeq(todo, LAMBDA s : s.op = "catch")
           h == todo[catch].with \o SubSeq(todo, catch + 1, Len(todo))
<1>1. /\ todo # <<>> /\ TRUE \in step.fails /\ todo' = Unwind \o h
      /\ UNCHANGED <<host, phase, running, locals, members, images, chain>>
  BY DEF Fail, given
<1>2. PICK drawing \in BOOLEAN :
          /\ "fences" \in Around => drawing
          /\ \E handled : Caught(todo, handled) /\ Orderly(EndsSeen(phase), Seen(drawing), handled)
  BY <1>1, FirstStepFits DEF IInvSeen
<1>3. PICK handled : Caught(todo, handled) /\ Orderly(EndsSeen(phase), Seen(drawing), handled)
  BY <1>2
<1>4. h = handled
  <2>1. IsProgram(todo)
    BY OrderlyUnfolds DEF IInvSeen, Onward
  <2> QED
    BY <1>3, <2>1, CaughtIs, Zenon
<1> HIDE DEF h
<1>5. todo' = UnwindOf(locals) \o handled
  BY <1>1, <1>4 DEF Unwind, UnwindOf
<1>6. locals \in Seq(Objects)
  BY DEF IInv, Made
<1>7. Orderly(EndsSeen(phase), Seen(drawing), UnwindOf(locals) \o handled)
  BY <1>3, <1>6, OrderlyUnwinding
<1>8. Seen(drawing)' = Seen(drawing) /\ EndsSeen(phase)' = EndsSeen(phase)
  BY <1>1 DEF Seen, EndsSeen
<1>9. Onward' /\ Chosen'
  BY <1>1, <1>2, <1>5, <1>7, <1>8, SameNames DEF Onward, Chosen, IInvSeen
<1> QED
  BY <1>9 DEF IInvSeen

-----------------------------------------------------------------------------
(* From a phase to the next.                                               *)

\* With nothing left to do the sight is an end of the phase.
LEMMA SeenAtAnEnd ==
    ASSUME IInvSeen, todo = <<>>
    PROVE  \E drawing \in BOOLEAN :
              /\ "fences" \in Around => drawing
              /\ Seen(drawing) \in Sights /\ Seen(drawing) \in EndsSeen(phase)
              /\ Orderly(EndsSeen(phase), Seen(drawing), todo)
BY OrderlyUnfolds DEF IInvSeen, Onward

\* What a frame or a shutdown begins with.
LEMMA SeenNewSteps ==
    ASSUME IInvSeen, UNCHANGED <<host, running, locals, members, images, chain>>,
           NEW drawing \in BOOLEAN, "fences" \in Around => drawing,
           Orderly(EndsSeen(phase'), Seen(drawing), todo')
    PROVE  IInvSeen'
<1>1. Seen(drawing)' = Seen(drawing) /\ EndsSeen(phase)' = EndsSeen(phase')
  BY DEF Seen, EndsSeen
<1>2. Onward' /\ Chosen'
  BY <1>1, SameNames DEF Onward, Chosen, IInvSeen
<1> QED
  BY <1>2 DEF IInvSeen

LEMMA SeenNext == IInvSeen /\ (StartRun \/ Exit) => IInvSeen'
<1> SUFFICES ASSUME IInvSeen, StartRun \/ Exit PROVE IInvSeen'
  OBVIOUS
<1>1. /\ todo = <<>> /\ EndsSeen(phase') = EndsSeen(phase)
      /\ UNCHANGED <<host, todo, running, locals, members, images, chain>>
  BY DEF StartRun, Exit, EndsSeen
<1>2. PICK drawing \in BOOLEAN :
          ("fences" \in Around => drawing) /\ Orderly(EndsSeen(phase), Seen(drawing), todo)
  BY <1>1, SeenAtAnEnd
<1>3. Orderly(EndsSeen(phase'), Seen(drawing), todo')
  BY <1>1, <1>2
<1> QED
  BY <1>1, <1>2, <1>3, SeenNewSteps

LEMMA SeenFrame == IInvSeen /\ NextFrame => IInvSeen'
<1> SUFFICES ASSUME IInvSeen, NextFrame PROVE IInvSeen'
  OBVIOUS
<1>1. /\ phase = "run" /\ phase' = "run" /\ todo = <<>> /\ running
      /\ UNCHANGED <<host, running, locals, members, images, chain>>
  BY DEF NextFrame
<1>2. PICK size \in FramebufferSizes, surface \in host.surfaces, closing \in BOOLEAN :
          todo' = RunStep(host, Has, size, surface, closing)
  BY DEF NextFrame
<1>3. PICK drawing \in BOOLEAN :
          ("fences" \in Around => drawing) /\ Seen(drawing) \in EndsSeen(phase)
  BY <1>1, SeenAtAnEnd
<1> DEFINE n == Seen(drawing)
<1>4. n \in Settled /\ n.host = host /\ n.chain = chain /\ n.drawing = drawing /\ n.running = running
  <2>1. EndsSeen(phase) = Settled
    BY <1>1 DEF EndsSeen
  <2>2. n.host = host /\ n.chain = chain /\ n.drawing = drawing /\ n.running = running
    BY SightIs DEF Seen
  <2> QED
    BY <1>3, <2>1, <2>2
<1>5. "fences" \in Has => n.drawing
  BY <1>3, <1>4 DEF Around
<1> HIDE DEF n
<1>6. Orderly(Settled, n, RunStep(n.host, Has, size, surface, closing))
  BY <1>1, <1>4, <1>5, TurnSeen
<1>7. Orderly(EndsSeen(phase'), Seen(drawing), todo')
  BY <1>1, <1>2, <1>4, <1>6 DEF EndsSeen, n
<1> QED
  BY <1>1, <1>3, <1>7, SeenNewSteps

LEMMA SeenShutdown == IInvSeen /\ BeginShutdown => IInvSeen'
<1> SUFFICES ASSUME IInvSeen, BeginShutdown PROVE IInvSeen'
  OBVIOUS
<1>1. /\ phase' = "shutdown" /\ todo = <<>> /\ todo' = Shutdown(Has)
      /\ UNCHANGED <<host, running, locals, members, images, chain>>
  BY DEF BeginShutdown
<1>2. PICK drawing \in BOOLEAN : ("fences" \in Around => drawing) /\ Seen(drawing) \in Sights
  BY <1>1, SeenAtAnEnd
<1>3. Orderly(EndsSeen(phase'), Seen(drawing), todo')
  BY <1>1, <1>2, ShutdownSeen DEF EndsSeen
<1> QED
  BY <1>1, <1>2, <1>3, SeenNewSteps

LEMMA SeenInit == Init => IInvSeen
<1> SUFFICES ASSUME Init PROVE IInvSeen
  OBVIOUS
<1>1. /\ host \in Hosts /\ capabilities \in Capabilities /\ phase = "boot" /\ running = TRUE
      /\ locals = <<>> /\ members = {} /\ images = <<>> /\ chain = <<>>
  BY DEF Init
<1>2. PICK size \in FramebufferSizes : todo = Boot(host, capabilities, size)
  BY DEF Init
<1>3. LocalNames = {} /\ Around = {}
  BY <1>1 DEF Range, LocalNames, NamesOf, Has, Around
<1>4. PICK f \in BOOLEAN : ~f
  OBVIOUS
<1>5. PICK t \in BOOLEAN : t /\ running = t
  BY <1>1
<1> DEFINE n == Sight(host, <<>>, <<>>, f, t)
<1>6. Seen(f) = n
  BY <1>1, <1>5 DEF Seen
<1>7. Orderly(Settled, n, Boot(host, capabilities, size))
  BY <1>1, <1>2, <1>4, <1>5, BootSeen
<1> HIDE DEF n
<1>8. Onward
  BY <1>1, <1>2, <1>3, <1>4, <1>6, <1>7 DEF Onward, EndsSeen
<1>9. Chosen
  BY <1>3 DEF Chosen
<1> QED
  BY <1>8, <1>9 DEF IInvSeen

LEMMA InductiveSeen == IInv /\ IInvSeen /\ [Next]_vars => IInvSeen'
<1> SUFFICES ASSUME IInv, IInvSeen, [Next]_vars PROVE IInvSeen'
  OBVIOUS
<1>1. CASE UNCHANGED vars
  <2>1. UNCHANGED <<host, phase, running, todo, locals, members, images, chain>>
    BY <1>1 DEF vars
  <2>2. EndsSeen(phase') = EndsSeen(phase)
    BY <2>1
  <2>3. PICK drawing \in BOOLEAN :
            ("fences" \in Around => drawing) /\ Orderly(EndsSeen(phase), Seen(drawing), todo)
    BY DEF IInvSeen, Onward
  <2>4. Orderly(EndsSeen(phase'), Seen(drawing), todo')
    BY <2>1, <2>2, <2>3
  <2> QED
    BY <2>1, <2>3, <2>4, SeenNewSteps
<1>2. CASE Next
  BY <1>1, <1>2, SeenMake, SeenCall, SeenSubmit, SeenWait, SeenAccess, SeenDestroy, SeenAdopt, SeenChain,
     SeenStop, SeenDecide, SeenCatch, SeenFail, SeenNext, SeenFrame, SeenShutdown DEF Next, Terminated
<1> QED
  BY <1>1, <1>2

LEMMA IInvSeenAlways == Spec => []IInvSeen
  BY InitHolds, Inductive, SeenInit, InductiveSeen, PTL DEF Spec

LEMMA ImagesAccessedInOrderHolds == IInvSeen => ImagesAccessedInOrder
<1> SUFFICES ASSUME IInvSeen, todo # <<>>
             PROVE  LET i == step.with.image IN
                    CASE step.op = "transition" -> TransitionAllowed(images[i], step.with)
                      [] step.op = "use"        -> UseAllowed(images[i], step.with)
                      [] step.op = "present"    -> images[i].layout = "present"
                      [] OTHER                  -> TRUE
  BY DEF ImagesAccessedInOrder
<1>1. PICK drawing \in BOOLEAN : Fits(Seen(drawing), step)
  BY FirstStepFits DEF IInvSeen
<1>2. /\ step.op = "transition" => TransitionAllowed(images[step.with.image], step.with)
      /\ step.op = "use" => UseAllowed(images[step.with.image], step.with)
      /\ step.op = "present" => images[step.with.image].layout = "present"
  BY <1>1, SightIs DEF Fits, Seen
<1> QED
  BY <1>2

LEMMA ChoicesLegalHolds == IInv /\ IInvSeen => ChoicesLegal
<1> SUFFICES ASSUME IInv, IInvSeen PROVE ChoicesLegal
  OBVIOUS
<1>1. host \in Hosts /\ Made(locals, members, needs)
  BY DEF IInv
<1>2. ASSUME "fences" \in Has
      PROVE  LegalDevice(Device(host), FindGraphicsPresentQueueFamily(Device(host)),
                         FindDepthFormat(Device(host)), GetMaxUsableSampleCount(Device(host)))
  <2>1. Fit(host)
    BY <1>2 DEF IInvSeen, Chosen, Around
  <2> QED
    BY <1>1, <2>1, FitIsLegal
<1>3. ASSUME Bound("swapViews") # {} PROVE LegalSwapChain(chain.surface, chain.choice)
  <2>1. Bound("swapViews") = Binding(locals, members, "swapViews") /\ Has = NamesOf(members)
    BY <1>1, BoundIs
  <2>2. "swapViews" \in Around
    BY <1>3, <2>1 DEF Binding, Named, NamesOf, LocalNames, Around
  <2>3. chain \in Chains
    BY <2>2 DEF IInvSeen, Chosen
  <2> QED
    BY <2>3, ChainIs
<1>4. ASSUME "readback" \in {o[1] : o \in Range(locals)}
      PROVE  /\ "transferSource" \in chain.choice.usage
             /\ BytesPerPixel(SelectSurfaceFormat(host.surface.formats)) <= 4
  <2>1. CanCapture(host, chain)
    BY <1>4 DEF IInvSeen, Chosen, LocalNames, NamesOf
  <2> QED
    BY <2>1, CapturableFits DEF CanCapture
<1> QED
  BY <1>2, <1>3, <1>4 DEF ChoicesLegal

\* Every access of an image, by an upload, a mip level, a rendering pass, a
\* capture or a present, finds it in the layout it names and after a barrier or
\* a wait that orders it behind the writes before it, in every run of any
\* machine, with any new swap chains and whatever fails.
THEOREM ImagesAlwaysAccessedInOrder == Spec => []ImagesAccessedInOrder
  BY IInvSeenAlways, ImagesAccessedInOrderHolds, PTL

\* The device, the depth format, the sample count and the swap chain a renderer
\* works with are ones the machine offers, and a capture fits its buffer.
THEOREM ChoicesAlwaysLegal == Spec => []ChoicesLegal
  BY IInvAlways, IInvSeenAlways, ChoicesLegalHolds, PTL
=============================================================================
