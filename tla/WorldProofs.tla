----------------------------- MODULE WorldProofs -----------------------------
(***************************************************************************)
(* The game, its panel and what is drawn of them, for any texts, distances,*)
(* keys and gestures, any number of entities and a right angle of any      *)
(* number of parts; and what SelectConstructor answers for any arguments.  *)
(***************************************************************************)
EXTENDS World, ConstructorChoice, TLAPS, FiniteSetTheorems, SequenceTheorems, WellFoundedInduction

-----------------------------------------------------------------------------
(* Induction over numbers: what is shown of every number is given as the   *)
(* set of those it holds for, which the provers can put in place of a      *)
(* variable, unlike an operator.                                           *)

\* A set of natural numbers that is not empty has a least one.
LEMMA LeastElement ==
    ASSUME NEW S \in SUBSET Nat, S # {}
    PROVE  \E least \in S : \A n \in S : least <= n
<1> DEFINE Below == {0 .. n : n \in S}
<1>1. Below \subseteq FiniteSubsetsOf(Nat)
  <2>1. SUFFICES ASSUME NEW n \in S PROVE 0 .. n \in FiniteSubsetsOf(Nat)
    OBVIOUS
  <2>2. n \in Int
    OBVIOUS
  <2>3. IsFiniteSet(0 .. n)
    BY <2>2, FS_Interval
  <2>4. 0 .. n \subseteq Nat
    BY <2>2
  <2>5. QED
    BY <2>3, <2>4 DEF FiniteSubsetsOf
<1>2. PICK X \in Below : \A Y \in Below : <<Y, X>> \notin StrictSubsetOrdering(Nat)
  <2>1. Below # {}
    OBVIOUS
  <2>2. IsWellFoundedOn(StrictSubsetOrdering(Nat), FiniteSubsetsOf(Nat))
    BY FS_StrictSubsetOrderingWellFounded
  <2> HIDE DEF Below
  <2>3. QED
    BY <1>1, <2>1, <2>2, WFMin, Zenon
<1>3. PICK least \in S : X = 0 .. least
  OBVIOUS
<1>4. ASSUME NEW n \in S, n < least PROVE FALSE
  <2>1. 0 .. n \subseteq 0 .. least /\ least \notin 0 .. n /\ least \in 0 .. least
    BY <1>4
  <2>2. 0 .. n \in SUBSET Nat /\ 0 .. least \in SUBSET Nat
    OBVIOUS
  <2>3. <<0 .. n, 0 .. least>> \in StrictSubsetOrdering(Nat)
    BY <2>1, <2>2 DEF StrictSubsetOrdering
  <2>4. QED
    BY <1>2, <1>3, <2>3
<1>5. QED
  BY <1>3, <1>4

\* What holds of 0, and of the next number wherever it holds, holds up to k.
LEMMA InductionUpTo ==
    ASSUME NEW k \in Nat, NEW Good, 0 \in Good,
           \A n \in 1 .. k : n - 1 \in Good => n \in Good
    PROVE  \A n \in 0 .. k : n \in Good
<1> DEFINE Bad == {n \in 0 .. k : n \notin Good}
<1>1. SUFFICES ASSUME Bad # {} PROVE FALSE
  OBVIOUS
<1>2. PICK m \in Bad : \A n \in Bad : m <= n
  <2>1. Bad \in SUBSET Nat
    OBVIOUS
  <2> HIDE DEF Bad
  <2>2. QED
    BY <1>1, <2>1, LeastElement
<1>3. m # 0 /\ m \in 1 .. k /\ m - 1 \in 0 .. k /\ ~(m <= m - 1)
  BY <1>2
<1>4. m - 1 \in Good
  BY <1>2, <1>3
<1> QED
  BY <1>2, <1>3, <1>4


-----------------------------------------------------------------------------
(* The frame's stages.                                                     *)

LEMMA StageOrder ==
    /\ StageAfter("input") = "spawn" /\ StageAfter("spawn") = "move"
    /\ StageAfter("move") = "camera" /\ StageAfter("camera") = "panel"
    /\ StageAfter("panel") = "sync" /\ StageAfter("sync") = "extract"
    /\ StageAfter("extract") = "input"
<1> DEFINE Place(s) == CHOOSE i \in DOMAIN Stages : Stages[i] = s
<1>1. /\ DOMAIN Stages = 1 .. 7 /\ Len(Stages) = 7
      /\ Stages[1] = "input" /\ Stages[2] = "spawn" /\ Stages[3] = "move" /\ Stages[4] = "camera"
      /\ Stages[5] = "panel" /\ Stages[6] = "sync" /\ Stages[7] = "extract"
  BY DEF Stages
<1>2. \A s, i : i \in 1 .. 7 /\ Stages[i] = s /\ (\A j \in 1 .. 7 : Stages[j] = s => j = i) => Place(s) = i
  BY <1>1
<1> HIDE DEF Place
<1>3. /\ Place("input") = 1 /\ Place("spawn") = 2 /\ Place("move") = 3 /\ Place("camera") = 4
      /\ Place("panel") = 5 /\ Place("sync") = 6 /\ Place("extract") = 7
  BY <1>1, <1>2
<1>4. \A s : StageAfter(s) = Stages[(Place(s) % 7) + 1]
  BY <1>1 DEF StageAfter, Place
<1> QED
  BY <1>1, <1>3, <1>4

-----------------------------------------------------------------------------
(* The view.                                                               *)

LEMMA MaxOfTwo ==
    ASSUME NEW a \in Int, NEW b \in Int
    PROVE  Max({a, b}) = IF a >= b THEN a ELSE b
BY DEF Max

ViewInvariant ==
    /\ planes \in [near : Int, far : Int]
    /\ frame.view.near \in Int /\ frame.view.far \in Int
    /\ ViewCanBeProjected

LEMMA ExtractedViewIsSound ==
    ASSUME planes \in [near : Int, far : Int]
    PROVE  /\ ExtractView.near \in Int /\ ExtractView.far \in Int
           /\ ExtractView.near > 0 /\ ExtractView.far >= ExtractView.near
           /\ ExtractView.near < Coarse => ExtractView.far > ExtractView.near
<1>1. CASE Camera \notin alive
  BY <1>1, SMT DEF ExtractView, DefaultView, Coarse
<1>2. CASE Camera \in alive
  <2> DEFINE near == Max({planes.near, 1})
             far == Max({planes.far, PlusSeparation(near)})
  <2>1. ExtractView.near = near /\ ExtractView.far = far
    BY <1>2 DEF ExtractView, ToExtractedView
  <2>2. near \in Int /\ near > 0
    BY MaxOfTwo
  <2>3. /\ PlusSeparation(near) \in Int /\ PlusSeparation(near) >= near
        /\ near < Coarse => PlusSeparation(near) > near
    BY <2>2, SMT DEF PlusSeparation, Coarse
  <2>4. far \in Int /\ far >= PlusSeparation(near)
    BY <2>3, MaxOfTwo
  <2> QED
    BY <2>1, <2>2, <2>3, <2>4
<1> QED
  BY <1>1, <1>2

\* Whatever is typed into the camera, the view that a frame is drawn with can
\* be projected: for any distances, those behind the eye and beyond what a
\* float tells apart included.
THEOREM ViewIsProjectable == Spec => []ViewCanBeProjected
<1>1. Init => ViewInvariant
  <2> SUFFICES ASSUME Init PROVE ViewInvariant
    OBVIOUS
  <2>1. planes = [near |-> 100, far |-> 1000000] /\ frame.view = [rotation |-> <<0, 0, 0>>, near |-> 100, far |-> 1000000]
    BY SMT DEF Init, DefaultView
  <2> QED
    BY <2>1, SMT DEF ViewInvariant, ViewCanBeProjected, Coarse
<1>2. ViewInvariant /\ [Next]_vars => ViewInvariant'
  <2> SUFFICES ASSUME ViewInvariant, [Next]_vars PROVE ViewInvariant'
    OBVIOUS
  <2> USE DEF ViewInvariant, ViewCanBeProjected
  <2>1. CASE ExtractFrame
    <3>1. frame'.view = ExtractView /\ planes' = planes
      BY <2>1 DEF ExtractFrame, worldVars
    <3> QED
      BY <3>1, ExtractedViewIsSound
  <2>2. ASSUME NEW path \in {NearPlane, FarPlane}, NEW distance \in Distances, TypePlane(path, distance)
        PROVE  ViewInvariant'
    <3>1. frame' = frame /\ distance \in Int
      BY <2>2, DistancesAssumption DEF TypePlane, panelKeeps, meshVars
    <3>2. planes' = [planes EXCEPT !["near"] = distance] \/ planes' = [planes EXCEPT !["far"] = distance]
      BY <2>2 DEF TypePlane
    <3> QED
      BY <3>1, <3>2
  <2>3. ASSUME UNCHANGED <<planes, frame>> PROVE ViewInvariant'
    BY <2>3
  <2>4. CASE InputStep \/ FilesChange \/ SpawnerStep \/ MovementStep \/ CameraStep \/ SyncMeshCatalog \/ UNCHANGED vars
    BY <2>3, <2>4 DEF InputStep, FilesChange, SpawnerStep, MovementStep, CameraStep, SyncMeshCatalog, vars,
       worldVars, meshVars
  <2>5. CASE PanelIdle \/ Commit \/ Release
    BY <2>3, <2>5 DEF PanelIdle, Commit, Release, panelKeeps, meshVars
  <2>6. ASSUME NEW e, NEW text, NEW box, NEW by, BeginText(e) \/ Type(text) \/ Grab(e, box) \/ Drag(by)
        PROVE  ViewInvariant'
    BY <2>3, <2>6 DEF BeginText, Type, Grab, Drag, panelKeeps, meshVars
  <2> QED
    BY <2>1, <2>2, <2>4, <2>5, <2>6 DEF Next, PanelStep
<1>3. ViewInvariant => ViewCanBeProjected
  BY DEF ViewInvariant
<1> QED
  BY <1>1, <1>2, <1>3, PTL DEF Spec

-----------------------------------------------------------------------------
(* Edits.                                                                  *)

\* An edit is of one kind, and goes by the id of its target's widget.
WhatIsEdited ==
    /\ edit.kind \in {"none", "text", "drag"}
    /\ edit.kind = "none" => edit = Nothing
    /\ edit.kind = "text" =>
           /\ DOMAIN edit = {"kind", "id", "path", "target", "text"}
           /\ edit.path = MeshPath
    /\ edit.kind = "drag" =>
           /\ DOMAIN edit = {"kind", "id", "path", "target", "box", "grabbed", "moved", "wrote"}
           /\ edit.path = Rotation
    /\ edit.kind # "none" => edit.id = WidgetId(edit.target, edit.path)

\* So at most the target is edited.
LEMMA OnlyTheTarget ==
    ASSUME WhatIsEdited, edit.kind # "none"
    PROVE  Edited \subseteq {edit.target}
BY DEF WhatIsEdited, Edited, WidgetId, EntityLabel

LEMMA EditsStayWhole ==
    ASSUME WhatIsEdited, [Next]_vars
    PROVE  WhatIsEdited'
<1> USE DEF WhatIsEdited
<1>1. ASSUME edit' = edit \/ edit' = Nothing PROVE WhatIsEdited'
  BY <1>1 DEF Nothing, WidgetId, EntityLabel
<1>2. CASE InputStep \/ FilesChange \/ SpawnerStep \/ MovementStep \/ CameraStep \/ SyncMeshCatalog \/ ExtractFrame
           \/ UNCHANGED vars
  BY <1>1, <1>2 DEF InputStep, FilesChange, SpawnerStep, MovementStep, CameraStep, SyncMeshCatalog,
     ExtractFrame, vars, worldVars, meshVars, panelVars
<1>3. CASE PanelIdle
  <2>1. CASE edit.kind = "drag" /\ edit' = [edit EXCEPT !.wrote = FALSE]
    BY <2>1 DEF WidgetId, EntityLabel
  <2> QED
    BY <1>1, <1>3, <2>1 DEF PanelIdle
<1>4. CASE Commit \/ Release
  BY <1>1, <1>4 DEF Commit, Release
<1>5. ASSUME NEW path, NEW distance, TypePlane(path, distance) PROVE WhatIsEdited'
  BY <1>1, <1>5 DEF TypePlane, panelVars
<1>6. ASSUME NEW e, BeginText(e) PROVE WhatIsEdited'
  BY <1>6 DEF BeginText, WidgetId, EntityLabel
<1>7. ASSUME NEW e, NEW box, Grab(e, box) PROVE WhatIsEdited'
  BY <1>7 DEF Grab, WidgetId, EntityLabel
<1>8. ASSUME NEW text, Type(text) PROVE WhatIsEdited'
  BY <1>8 DEF Type, WidgetId, EntityLabel
<1>9. ASSUME NEW by, Drag(by) PROVE WhatIsEdited'
  BY <1>9 DEF Drag, WidgetId, EntityLabel
<1> QED
  BY <1>2, <1>3, <1>4, <1>5, <1>6, <1>7, <1>8, <1>9 DEF Next, PanelStep

\* A path becomes what was typed for its entity and nothing else, whoever comes
\* and goes meanwhile.
THEOREM EditsAreTheirs == Spec => []EditsReachTheirTarget
<1>1. Init => WhatIsEdited /\ EditsReachTheirTarget
  BY DEF Init, WhatIsEdited, EditsReachTheirTarget, Nothing
<1>2. WhatIsEdited /\ EditsReachTheirTarget /\ [Next]_vars => EditsReachTheirTarget'
  <2> SUFFICES ASSUME WhatIsEdited, EditsReachTheirTarget, [Next]_vars PROVE EditsReachTheirTarget'
    OBVIOUS
  <2> USE DEF EditsReachTheirTarget
  <2>1. ASSUME UNCHANGED <<mesh, given>> PROVE EditsReachTheirTarget'
    BY <2>1
  <2>2. CASE Commit
    <3>1. edit.kind = "text" /\ Edited # {}
      BY <2>2 DEF Commit
    <3>2. Edited = {edit.target}
      BY <3>1, OnlyTheTarget
    <3> QED
      BY <2>2, <3>2 DEF Commit
  <2>3. CASE SpawnerStep
    BY <2>3 DEF SpawnerStep
  <2>4. CASE InputStep \/ FilesChange \/ MovementStep \/ CameraStep \/ SyncMeshCatalog \/ ExtractFrame
             \/ UNCHANGED vars
    BY <2>1, <2>4 DEF InputStep, FilesChange, MovementStep, CameraStep, SyncMeshCatalog, ExtractFrame,
       vars, worldVars
  <2>5. CASE PanelIdle \/ Release
    BY <2>1, <2>5 DEF PanelIdle, Release
  <2>6. ASSUME NEW e, NEW text, NEW box, NEW by, NEW path, NEW distance,
               BeginText(e) \/ Type(text) \/ Grab(e, box) \/ Drag(by) \/ TypePlane(path, distance)
        PROVE  EditsReachTheirTarget'
    BY <2>1, <2>6 DEF BeginText, Type, Grab, Drag, TypePlane
  <2> QED
    BY <2>2, <2>3, <2>4, <2>5, <2>6 DEF Next, PanelStep
<1> QED
  BY <1>1, <1>2, EditsStayWhole, PTL DEF Spec

-----------------------------------------------------------------------------
(* Rotations.                                                              *)

Triples == [1 .. 3 -> Int]

LEMMA ThreeMakeATriple ==
    ASSUME NEW a \in Int, NEW b \in Int, NEW c \in Int
    PROVE  <<a, b, c>> \in Triples
BY DEF Triples

LEMMA AnglesAreNumbers ==
    ASSUME NEW triple \in Triples
    PROVE  FromEulerAngles(triple) \in Triples
<1>1. ASSUME NEW angle \in Int PROVE Wrap(angle) \in Int
  <2>1. Full \in Nat \ {0}
    BY EulerAssumption DEF Full
  <2>2. angle % Full \in Int
    BY <2>1
  <2> QED
    BY <2>1, <2>2, EulerAssumption DEF Wrap
<1> DEFINE pitch == Wrap(triple[1])
           over == pitch > RightAngle \/ pitch < -RightAngle
           half == IF over THEN 2 * RightAngle ELSE 0
           up == pitch > 0
           p == IF over THEN (IF up THEN half ELSE -half) - pitch ELSE pitch
           r == triple[2] + half
           y == triple[3] + half
<1>2. triple[1] \in Int /\ triple[2] \in Int /\ triple[3] \in Int /\ RightAngle \in Int
  BY EulerAssumption DEF Triples
<1>3. pitch \in Int /\ half \in Int
  BY <1>1, <1>2
<1>4. p \in Int /\ r \in Int /\ y \in Int
  BY <1>2, <1>3
<1>5. FromEulerAngles(triple) = IF p = RightAngle THEN <<p, 0, Wrap(y + r)>>
                                ELSE IF p = -RightAngle THEN <<p, 0, Wrap(y - r)>>
                                ELSE <<p, Wrap(r), Wrap(y)>>
  BY DEF FromEulerAngles
<1> HIDE DEF p, r, y
<1>6. Wrap(y + r) \in Int /\ Wrap(y - r) \in Int /\ Wrap(r) \in Int /\ Wrap(y) \in Int
  BY <1>1, <1>4
<1> QED
  BY <1>4, <1>5, <1>6, ThreeMakeATriple

\* What the boxes say of the rotation that is being dragged.
Said == [edit.grabbed EXCEPT ![edit.box] = @ + edit.moved]

RotationTypes ==
    /\ DOMAIN rotation = DOMAIN position
    /\ \A e \in DOMAIN rotation : rotation[e] \in Triples
    /\ \A e \in DOMAIN held : held[e] \in Triples
    /\ edit.kind = "drag" => edit.box \in 1 .. 3 /\ edit.grabbed \in Triples /\ edit.moved \in Int

\* While a box is dragged, the row's triple is held and not read again.
HeldIsSaid == edit.kind = "drag" => edit.target \in DOMAIN held /\ held[edit.target] = Said

RotationInvariant == WhatIsEdited /\ RotationTypes /\ HeldIsSaid /\ DraggingTurnsOneAngle

\* Only an entity with a rotation has a row to edit it by.
LEMMA RowHasRotation ==
    ASSUME RotationTypes, NEW e, Editable(e, Rotation)
    PROVE  e \in DOMAIN rotation
BY DEF RotationTypes, Editable, Rotation, ComponentsOf

LEMMA DegreesAreTriples ==
    ASSUME RotationTypes, NEW e, Editable(e, Rotation)
    PROVE  Degrees(e) \in Triples
BY RowHasRotation DEF RotationTypes, Degrees, ToEulerAngles

\* Whoever turns an entity's rotation before the panel is drawn.
LEMMA TurningKeepsTypes ==
    ASSUME RotationTypes, UNCHANGED <<edit, held>>, DOMAIN rotation' = DOMAIN position',
           \A e \in DOMAIN rotation' : rotation'[e] \in Triples
    PROVE  RotationTypes'
BY DEF RotationTypes

LEMMA CameraKeepsTypes ==
    ASSUME RotationTypes, CameraStep
    PROVE  RotationTypes'
<1> DEFINE turn == Axis("Left", "Right")
           pitch == Axis("Up", "Down")
           angles == ToEulerAngles(rotation[Camera])
           turned == <<Clamp(angles[1] + pitch, -PitchLimit, PitchLimit), 0, angles[3] + turn>>
<1>1. DOMAIN position' = DOMAIN position /\ UNCHANGED <<edit, held>>
  BY DEF CameraStep, panelVars
<1>2. CASE rotation' = rotation
  BY <1>1, <1>2, TurningKeepsTypes DEF RotationTypes
<1>3. CASE rotation' = [rotation EXCEPT ![Camera] = FromEulerAngles(turned)]
  <2>1. ASSUME Camera \in DOMAIN rotation PROVE FromEulerAngles(turned) \in Triples
    <3>1. angles[1] \in Int /\ angles[3] \in Int
      BY <2>1 DEF RotationTypes, ToEulerAngles, Triples
    <3>2. turn \in Int /\ pitch \in Int
      BY DEF Axis
    <3>3. PitchLimit \in Int
      BY EulerAssumption DEF PitchLimit
    <3> HIDE DEF angles, turn, pitch
    <3>4. Clamp(angles[1] + pitch, -PitchLimit, PitchLimit) \in Int
      BY <3>1, <3>2, <3>3 DEF Clamp
    <3> QED
      BY <3>1, <3>2, <3>4, ThreeMakeATriple, AnglesAreNumbers
  <2> HIDE DEF turned
  <2>2. DOMAIN rotation' = DOMAIN position'
    BY <1>1, <1>3 DEF RotationTypes
  <2>3. \A e \in DOMAIN rotation' : rotation'[e] \in Triples
    BY <1>3, <2>1 DEF RotationTypes
  <2> QED
    BY <1>1, <2>2, <2>3, TurningKeepsTypes
<1> QED
  BY <1>2, <1>3 DEF CameraStep

LEMMA SpawningKeepsTypes ==
    ASSUME RotationTypes, SpawnerStep
    PROVE  RotationTypes'
<1> DEFINE new == lastEntityId + 1
           made == IF "P" \in pressed THEN {new} ELSE {}
           all == IF "P" \in pressed THEN Append(spawned, new) ELSE spawned
           first == IF "L" \in pressed THEN FirstLiving(all, alive \cup made) ELSE 0
           destroyed == IF first # 0 THEN {all[first]} ELSE {}
<1>1.     /\ position' = [e \in (DOMAIN position \cup made) \ destroyed |-> IF e \in made THEN 0 ELSE position[e]]
          /\ rotation' = [e \in (DOMAIN rotation \cup made) \ destroyed |->
                              IF e \in made THEN <<0, 0, 0>> ELSE rotation[e]]
  BY DEF SpawnerStep
<1> HIDE DEF made, destroyed
<1>2. <<0, 0, 0>> \in Triples
  BY ThreeMakeATriple
<1>3. UNCHANGED <<edit, held>>
  BY DEF SpawnerStep, panelVars
<1>4. \A e \in DOMAIN rotation' : rotation'[e] \in Triples
  BY <1>1, <1>2 DEF RotationTypes
<1> QED
  BY <1>1, <1>3, <1>4, TurningKeepsTypes DEF RotationTypes

\* Away from the panel nothing that is edited changes, and the panel is what
\* comes before meshes are loaded.
LEMMA ElsewhereKeepsRotations ==
    ASSUME RotationInvariant, WhatIsEdited', RotationTypes', UNCHANGED <<edit, held>>,
           stage' = "sync" => stage = "sync" /\ rotation' = rotation
    PROVE  RotationInvariant'
BY DEF RotationInvariant, HeldIsSaid, Said, DraggingTurnsOneAngle

LEMMA GrabKeepsRotations ==
    ASSUME RotationInvariant, WhatIsEdited', NEW e, NEW box \in 1 .. 3, Grab(e, box)
    PROVE  RotationInvariant'
<1> USE DEF RotationInvariant
<1>1. Degrees(e) \in Triples
  BY DegreesAreTriples DEF Grab
<1>2. UNCHANGED <<rotation, position>> /\ held' = Holding(e, Degrees(e))
  BY DEF Grab, panelKeeps
<1>3. /\ edit'.kind = "drag" /\ edit'.target = e /\ edit'.box = box /\ edit'.grabbed = Degrees(e)
      /\ edit'.moved = 0 /\ edit'.wrote = FALSE
  BY DEF Grab
<1>4. held'[e] = Degrees(e) /\ e \in DOMAIN held' /\ \A d \in DOMAIN held' : held'[d] \in Triples
  BY <1>1, <1>2 DEF Holding, RotationTypes
<1>5. RotationTypes'
  BY <1>1, <1>2, <1>3, <1>4 DEF RotationTypes
<1>6. Said' = Degrees(e)
  <2>1. Said' = [Degrees(e) EXCEPT ![box] = @ + 0]
    BY <1>3 DEF Said
  <2>2. Degrees(e)[box] + 0 = Degrees(e)[box]
    BY <1>1 DEF Triples
  <2> QED
    BY <1>1, <2>1, <2>2 DEF Triples
<1>7. HeldIsSaid'
  BY <1>3, <1>4, <1>6 DEF HeldIsSaid
<1>8. DraggingTurnsOneAngle'
  BY <1>3 DEF DraggingTurnsOneAngle
<1> QED
  BY <1>5, <1>7, <1>8

LEMMA DragKeepsRotations ==
    ASSUME RotationInvariant, WhatIsEdited', NEW by \in {-1, 1}, Drag(by)
    PROVE  RotationInvariant'
<1> USE DEF RotationInvariant
<1>1. edit.kind = "drag" /\ UNCHANGED position
  BY DEF Drag, panelKeeps
<1> DEFINE target == edit.target
           box == edit.box
           degrees == [Degrees(target) EXCEPT ![box] = @ + by]
<1>2. /\ target \in Edited
      /\ held' = Holding(target, degrees)
      /\ rotation' = [rotation EXCEPT ![target] = FromEulerAngles(degrees)]
  <2>1. PICK e \in Edited : /\ held' = Holding(e, [Degrees(e) EXCEPT ![edit.box] = @ + by])
                            /\ rotation' = [rotation EXCEPT ![e] =
                                   FromEulerAngles([Degrees(e) EXCEPT ![edit.box] = @ + by])]
    BY DEF Drag
  <2>2. e = target
    BY <1>1, OnlyTheTarget
  <2> QED
    BY <2>1, <2>2
<1>3. target \in DOMAIN rotation
  BY <1>1, <1>2, RowHasRotation DEF Edited, WhatIsEdited
<1>4. edit' = [edit EXCEPT !.moved = edit.moved + by, !.wrote = TRUE]
  BY DEF Drag
<1>5. /\ edit'.kind = "drag" /\ edit'.target = target /\ edit'.box = box /\ edit'.grabbed = edit.grabbed
      /\ edit'.moved = edit.moved + by
  BY <1>1, <1>4 DEF WhatIsEdited
<1>6. box \in 1 .. 3 /\ edit.grabbed \in Triples /\ edit.moved \in Int /\ by \in Int
  BY <1>1 DEF RotationTypes
<1>7. Degrees(target) = Said /\ target \in DOMAIN held
  BY <1>1 DEF HeldIsSaid, Degrees
<1>8. Said' = degrees
  <2>1. Said = [edit.grabbed EXCEPT ![box] = edit.grabbed[box] + edit.moved]
    BY DEF Said
  <2>2. Said' = [edit.grabbed EXCEPT ![box] = edit.grabbed[box] + (edit.moved + by)]
    BY <1>5 DEF Said
  <2>3. degrees = [Said EXCEPT ![box] = Said[box] + by]
    BY <1>7
  <2> HIDE DEF degrees, box
  <2>4. Said[box] + by = edit.grabbed[box] + (edit.moved + by)
    BY <1>6, <2>1 DEF Triples
  <2> QED
    BY <1>6, <2>1, <2>2, <2>3, <2>4 DEF Triples
<1>9. degrees \in Triples
  <2>1. Said' = [edit.grabbed EXCEPT ![box] = edit.grabbed[box] + (edit.moved + by)]
    BY <1>5 DEF Said
  <2> HIDE DEF degrees, box
  <2> QED
    BY <1>6, <1>8, <2>1 DEF Triples
<1> HIDE DEF degrees, target, box
<1>10. RotationTypes'
  <2>1. FromEulerAngles(degrees) \in Triples
    BY <1>9, AnglesAreNumbers
  <2>2. DOMAIN rotation' = DOMAIN position' /\ \A e \in DOMAIN rotation' : rotation'[e] \in Triples
    BY <1>1, <1>2, <2>1 DEF RotationTypes
  <2>3. \A e \in DOMAIN held' : held'[e] \in Triples
    BY <1>2, <1>9 DEF RotationTypes, Holding
  <2>4. edit'.moved \in Int
    BY <1>5, <1>6
  <2> QED
    BY <1>5, <1>6, <2>2, <2>3, <2>4 DEF RotationTypes
<1>11. HeldIsSaid'
  <2>1. target \in DOMAIN held' /\ held'[target] = degrees
    BY <1>2 DEF Holding
  <2> QED
    BY <1>5, <1>8, <2>1 DEF HeldIsSaid
<1>12. DraggingTurnsOneAngle'
  <2>1. rotation'[target] = FromEulerAngles(degrees)
    BY <1>2, <1>3
  <2> QED
    BY <1>5, <1>8, <2>1 DEF DraggingTurnsOneAngle, Said
<1> QED
  BY <1>10, <1>11, <1>12

\* What is not the panel keeps what the boxes say of the rotation they turn.
LEMMA SystemsKeepRotations ==
    ASSUME RotationInvariant, WhatIsEdited',
           \/ InputStep \/ FilesChange \/ SpawnerStep \/ MovementStep \/ CameraStep
           \/ SyncMeshCatalog \/ ExtractFrame \/ UNCHANGED vars
    PROVE  RotationInvariant'
<1>1. UNCHANGED <<edit, held>>
  BY DEF InputStep, FilesChange, SpawnerStep, MovementStep, CameraStep, SyncMeshCatalog, ExtractFrame,
     vars, panelVars
<1>2. stage' = "sync" => stage = "sync" /\ rotation' = rotation
  BY StageOrder DEF At, InputStep, FilesChange, SpawnerStep, MovementStep, CameraStep, SyncMeshCatalog,
     ExtractFrame, vars, worldVars
<1>3. RotationTypes'
  <2>1. CASE SpawnerStep
    BY <2>1, SpawningKeepsTypes DEF RotationInvariant
  <2>2. CASE CameraStep
    BY <2>2, CameraKeepsTypes DEF RotationInvariant
  <2>3. CASE MovementStep
    <3>1. rotation' = rotation /\ DOMAIN position' = DOMAIN position
      BY <2>3 DEF MovementStep
    <3> QED
      BY <1>1, <3>1, TurningKeepsTypes DEF RotationInvariant, RotationTypes
  <2>4. CASE InputStep \/ FilesChange \/ SyncMeshCatalog \/ ExtractFrame \/ UNCHANGED vars
    <3>1. UNCHANGED <<rotation, position>>
      BY <2>4 DEF InputStep, FilesChange, SyncMeshCatalog, ExtractFrame, vars, worldVars
    <3> QED
      BY <1>1, <3>1, TurningKeepsTypes DEF RotationInvariant, RotationTypes
  <2> QED
    BY <2>1, <2>2, <2>3, <2>4
<1> QED
  BY <1>1, <1>2, <1>3, ElsewhereKeepsRotations

\* What the user does in the panel, other than dragging a box.
LEMMA PanelKeepsRotations ==
    ASSUME RotationInvariant, WhatIsEdited',
           \/ PanelIdle \/ Commit \/ Release
           \/ \E e \in habit.edits : BeginText(e)
           \/ \E text \in Texts : Type(text)
           \/ \E path \in {NearPlane, FarPlane}, distance \in Distances : TypePlane(path, distance)
    PROVE  RotationInvariant'
<1> USE DEF RotationInvariant
<1>1. UNCHANGED <<rotation, position>>
  BY DEF PanelIdle, Commit, Release, BeginText, Type, TypePlane, panelKeeps
<1>2. ASSUME edit'.kind # "drag", \A e \in DOMAIN held' : held'[e] \in Triples PROVE RotationInvariant'
  BY <1>1, <1>2 DEF RotationTypes, HeldIsSaid, DraggingTurnsOneAngle
<1>3. \A e \in DOMAIN held' : held'[e] \in Triples
  BY DEF RotationTypes, PanelIdle, Commit, Release, BeginText, Type, TypePlane, panelVars
<1>4. CASE PanelIdle
  <2>1. held' = held
    BY <1>4 DEF PanelIdle
  <2>2. CASE edit' = Nothing
    BY <1>2, <1>3, <2>2 DEF Nothing
  <2>3. CASE edit.kind = "drag" /\ edit' = [edit EXCEPT !.wrote = FALSE]
    <3>1. /\ edit'.kind = "drag" /\ edit'.target = edit.target /\ edit'.box = edit.box
          /\ edit'.grabbed = edit.grabbed /\ edit'.moved = edit.moved /\ edit'.wrote = FALSE
      BY <2>3 DEF WhatIsEdited
    <3> QED
      BY <1>1, <2>1, <2>3, <3>1 DEF RotationTypes, HeldIsSaid, Said, DraggingTurnsOneAngle
  <2>4. CASE edit.kind # "drag" /\ edit' = edit
    BY <1>2, <1>3, <2>4
  <2> QED
    BY <1>4, <2>2, <2>3, <2>4 DEF PanelIdle
<1>5. CASE Commit \/ Release
  BY <1>2, <1>3, <1>5 DEF Commit, Release, Nothing
<1>6. CASE \E e \in habit.edits : BeginText(e)
  BY <1>2, <1>3, <1>6 DEF BeginText
<1>7. CASE \E text \in Texts : Type(text)
  <2>1. edit'.kind = "text"
    BY <1>7 DEF Type, WhatIsEdited
  <2> QED
    BY <1>2, <1>3, <2>1
<1>8. CASE \E path \in {NearPlane, FarPlane}, distance \in Distances : TypePlane(path, distance)
  BY <1>2, <1>3, <1>8 DEF TypePlane, panelVars, Nothing
<1> QED
  BY <1>4, <1>5, <1>6, <1>7, <1>8

\* A dragged box turns its angle alone, whatever the rotation it was grabbed
\* at, however far it is dragged, and against all keys of the game: for a right
\* angle of any number of parts.
THEOREM DragsTurnOneAngle == Spec => []DraggingTurnsOneAngle
<1>1. Init => RotationInvariant
  <2> SUFFICES ASSUME Init PROVE RotationInvariant
    OBVIOUS
  <2>1. edit = Nothing /\ held = <<>> /\ DOMAIN rotation = 1 .. 4 /\ DOMAIN position = 1 .. 4
    BY DEF Init
  <2>2. \A e \in 1 .. 4 : rotation[e] \in Triples
    <3>1. <<-1, 0, 1>> \in Triples /\ <<0, 0, RightAngle>> \in Triples /\ <<0, 0, 0>> \in Triples
      BY ThreeMakeATriple, EulerAssumption
    <3> QED
      BY <3>1, AnglesAreNumbers DEF Init
  <2>3. RotationTypes
    BY <2>1, <2>2 DEF RotationTypes, Nothing
  <2> QED
    BY <2>1, <2>3 DEF RotationInvariant, WhatIsEdited, HeldIsSaid, DraggingTurnsOneAngle, Nothing
<1>2. RotationInvariant /\ [Next]_vars => RotationInvariant'
  <2> SUFFICES ASSUME RotationInvariant, [Next]_vars PROVE RotationInvariant'
    OBVIOUS
  <2>1. WhatIsEdited'
    BY EditsStayWhole DEF RotationInvariant
  <2> QED
    BY <2>1, SystemsKeepRotations, PanelKeepsRotations, GrabKeepsRotations, DragKeepsRotations
    DEF Next, PanelStep
<1>3. RotationInvariant => DraggingTurnsOneAngle
  BY DEF RotationInvariant
<1> QED
  BY <1>1, <1>2, <1>3, PTL DEF Spec

-----------------------------------------------------------------------------
(* Entities by id.                                                         *)

Lists(upTo, entities, k) ==
    upTo = [e \in 0 .. k |->
               IF e = 0 THEN <<>> ELSE IF e \in entities THEN Append(upTo[e - 1], e) ELSE upTo[e - 1]]

LEMMA ListsExist ==
    ASSUME NEW entities, NEW k \in Nat
    PROVE  \E upTo : Lists(upTo, entities, k)
<1> DEFINE Good == {n \in Nat : \E upTo : Lists(upTo, entities, n)}
<1>1. 0 \in Good
  <2> DEFINE upTo == [e \in 0 .. 0 |-> <<>>]
  <2>1. Lists(upTo, entities, 0)
    BY DEF Lists
  <2> QED
    BY <2>1
<1>2. ASSUME NEW m \in 1 .. k, m - 1 \in Good PROVE m \in Good
  <2>1. m \in Nat /\ m - 1 \in Nat
    OBVIOUS
  <2>2. PICK before : Lists(before, entities, m - 1)
    BY <1>2
  <2> DEFINE last == IF m \in entities THEN Append(before[m - 1], m) ELSE before[m - 1]
             upTo == [e \in 0 .. m |-> IF e = m THEN last ELSE before[e]]
  <2>3. \A e \in 0 .. m - 1 :
            before[e] = IF e = 0 THEN <<>>
                        ELSE IF e \in entities THEN Append(before[e - 1], e) ELSE before[e - 1]
    BY <2>1, <2>2 DEF Lists
  <2>4. \A e \in 0 .. m :
            upTo[e] = IF e = 0 THEN <<>>
                      ELSE IF e \in entities THEN Append(upTo[e - 1], e) ELSE upTo[e - 1]
    <3>1. TAKE e \in 0 .. m
    <3>2. CASE e = m
      BY <2>1, <3>2
    <3>3. CASE e # m
      BY <2>1, <2>3, <3>3
    <3> QED
      BY <3>2, <3>3
  <2>5. Lists(upTo, entities, m)
    BY <2>4 DEF Lists
  <2> QED
    BY <2>1, <2>5
<1> HIDE DEF Good
<1>3. \A n \in 0 .. k : n \in Good
  BY <1>1, <1>2, InductionUpTo
<1> QED
  BY <1>3 DEF Good

\* A list of numbers up to n, each of the set once.
EachOnce(list, numbers) ==
    /\ list \in Seq(numbers)
    /\ \A e \in numbers : \E i \in DOMAIN list : list[i] = e
    /\ \A i, j \in DOMAIN list : list[i] = list[j] => i = j

LEMMA OneMoreOnce ==
    ASSUME NEW numbers, NEW e, e \notin numbers, NEW list, EachOnce(list, numbers)
    PROVE  EachOnce(Append(list, e), numbers \cup {e})
<1> DEFINE more == Append(list, e)
<1>1. list \in Seq(numbers) /\ Len(list) \in Nat /\ DOMAIN list = 1 .. Len(list)
  BY DEF EachOnce
<1>2. /\ more \in Seq(numbers \cup {e}) /\ DOMAIN more = 1 .. Len(list) + 1
      /\ more[Len(list) + 1] = e /\ \A i \in 1 .. Len(list) : more[i] = list[i]
  <2>1. list \in Seq(numbers \cup {e})
    BY <1>1
  <2> QED
    BY <1>1, <2>1
<1>3. \A i \in DOMAIN list : list[i] # e
  BY <1>1
<1> HIDE DEF more
<1>4. \A d \in numbers \cup {e} : \E i \in DOMAIN more : more[i] = d
  <2>1. TAKE d \in numbers \cup {e}
  <2>2. CASE d = e
    BY <1>1, <1>2, <2>2
  <2>3. CASE d \in numbers
    <3>1. PICK i \in DOMAIN list : list[i] = d
      BY <2>3 DEF EachOnce
    <3> QED
      BY <1>1, <1>2, <3>1
  <2> QED
    BY <2>2, <2>3
<1>5. \A i, j \in DOMAIN more : more[i] = more[j] => i = j
  <2>1. TAKE i, j \in DOMAIN more
  <2>2. CASE i \in DOMAIN list /\ j \in DOMAIN list
    BY <1>1, <1>2, <2>2 DEF EachOnce
  <2>3. CASE ~ (i \in DOMAIN list /\ j \in DOMAIN list)
    BY <1>1, <1>2, <1>3, <2>3
  <2> QED
    BY <2>2, <2>3
<1> QED
  BY <1>2, <1>4, <1>5 DEF EachOnce, more

LEMMA EntitiesListedOnce ==
    ASSUME lastEntityId \in Nat, NEW entities, entities \subseteq 1 .. lastEntityId
    PROVE  EachOnce(ById(entities), entities)
<1> DEFINE k == lastEntityId
           list == CHOOSE f : Lists(f, entities, k)
           Within(n) == {e \in entities : e <= n}
<1>0. k \in Nat /\ \A e \in entities : e \in Int /\ 1 <= e /\ e <= k
  OBVIOUS
<1>1. Lists(list, entities, k)
  BY ListsExist
<1>2. ById(entities) = list[k]
  BY DEF ById, Lists
<1> HIDE DEF list
<1>3. \A e \in 0 .. k :
          list[e] = IF e = 0 THEN <<>> ELSE IF e \in entities THEN Append(list[e - 1], e) ELSE list[e - 1]
  BY <1>1 DEF Lists
<1> DEFINE Good == {n \in 0 .. k : EachOnce(list[n], Within(n))}
<1>4. 0 \in Good
  <2>1. list[0] = <<>> /\ 0 \in 0 .. k
    BY <1>0, <1>3
  <2>2. \A e \in entities : ~ (e <= 0)
    BY <1>0
  <2>3. Within(0) = {}
    BY <2>2
  <2>4. EachOnce(<<>>, {})
    BY DEF EachOnce
  <2> QED
    BY <2>1, <2>3, <2>4
<1>5. ASSUME NEW m \in 1 .. k, m - 1 \in Good PROVE m \in Good
  <2>1. m \in 0 .. k /\ m # 0 /\ m \in Int
    BY <1>0
  <2>2. EachOnce(list[m - 1], Within(m - 1))
    BY <1>5
  <2>3. /\ \A e \in entities : e <= m <=> e <= m - 1 \/ e = m
        /\ ~ (m <= m - 1) /\ m <= m
    BY <1>0, <2>1
  <2>4. CASE m \in entities
    <3>1. Within(m) = Within(m - 1) \cup {m} /\ m \notin Within(m - 1)
      BY <2>3, <2>4, Zenon
    <3>2. list[m] = Append(list[m - 1], m)
      BY <1>3, <2>1, <2>4
    <3> HIDE DEF Within
    <3>3. EachOnce(list[m], Within(m))
      BY <2>2, <3>1, <3>2, OneMoreOnce
    <3> QED
      BY <2>1, <3>3
  <2>5. CASE m \notin entities
    <3>1. Within(m) = Within(m - 1)
      BY <2>3, <2>5, Zenon
    <3>2. list[m] = list[m - 1]
      BY <1>3, <2>1, <2>5
    <3> QED
      BY <2>1, <2>2, <3>1, <3>2
  <2> QED
    BY <2>4, <2>5
<1>6. k \in Good
  <2> HIDE DEF Good
  <2>1. \A n \in 0 .. k : n \in Good
    BY <1>4, <1>5, InductionUpTo
  <2> QED
    BY <2>1
<1>7. Within(k) = entities
  BY <1>0
<1> QED
  BY <1>2, <1>6, <1>7

-----------------------------------------------------------------------------
(* What is drawn.                                                          *)

MeshTypes ==
    /\ lastEntityId \in Nat /\ DOMAIN mesh \subseteq 1 .. lastEntityId
    /\ disk \subseteq Texts /\ uploaded \in Seq(Texts)

\* The catalog knows each path that was uploaded by its place among them, and
\* the others by the handle of none.
CatalogKnowsUploads ==
    /\ IsInjective(uploaded)
    /\ \A i \in DOMAIN uploaded : uploaded[i] \in DOMAIN catalog
    /\ \A path \in DOMAIN catalog :
           IF catalog[path] = 0 THEN \A i \in DOMAIN uploaded : uploaded[i] # path
           ELSE catalog[path] \in DOMAIN uploaded /\ uploaded[catalog[path]] = path

\* From loading on, every path of the frame has been asked for.
AllAsked == stage = "extract" => \A e \in DOMAIN mesh : mesh[e] \in DOMAIN catalog

DrawInvariant == MeshTypes /\ CatalogKnowsUploads /\ AllAsked /\ DrawnAsEdited

\* The paths to load are new, and each is there once.
LEMMA NewPathsOnce ==
    ASSUME MeshTypes
    PROVE  LET new == PathsOf({e \in FirstUnasked : mesh[e] \in disk})
               paths == {mesh[e] : e \in FirstUnasked} \cap disk
           IN EachOnce(new, paths)
<1> DEFINE loaded == {e \in FirstUnasked : mesh[e] \in disk}
           order == ById(loaded)
           new == PathsOf(loaded)
           paths == {mesh[e] : e \in FirstUnasked} \cap disk
<1>1. loaded \subseteq DOMAIN mesh /\ loaded \subseteq 1 .. lastEntityId
  BY DEF FirstUnasked, MeshTypes
<1>2. EachOnce(order, loaded)
  <2> HIDE DEF loaded
  <2> QED
    BY <1>1, EntitiesListedOnce DEF MeshTypes
<1>3. \A d, e \in loaded : mesh[d] = mesh[e] => d = e
  BY <1>1 DEF FirstUnasked, MeshTypes
<1>4. new = [i \in DOMAIN order |-> mesh[order[i]]]
  BY DEF PathsOf
<1>5. /\ \A e \in loaded : mesh[e] \in paths
      /\ \A path \in paths : \E e \in loaded : mesh[e] = path
  OBVIOUS
<1> HIDE DEF loaded, order, new, paths
<1>6. order \in Seq(loaded) /\ Len(order) \in Nat /\ DOMAIN order = 1 .. Len(order)
  BY <1>2 DEF EachOnce
<1>7. \A i \in DOMAIN order : order[i] \in loaded
  BY <1>6
<1>8. new \in Seq(paths) /\ DOMAIN new = DOMAIN order
  BY <1>4, <1>5, <1>6, <1>7
<1>9. \A path \in paths : \E i \in DOMAIN new : new[i] = path
  <2>1. TAKE path \in paths
  <2>2. PICK e \in loaded : mesh[e] = path
    BY <1>5
  <2>3. PICK i \in DOMAIN order : order[i] = e
    BY <1>2 DEF EachOnce
  <2> QED
    BY <1>4, <1>8, <2>2, <2>3
<1>10. \A i, j \in DOMAIN new : new[i] = new[j] => i = j
  BY <1>2, <1>3, <1>4, <1>7, <1>8 DEF EachOnce
<1>11. EachOnce(new, paths)
  BY <1>8, <1>9, <1>10 DEF EachOnce
<1> QED
  BY <1>11 DEF loaded, new, paths

\* Every path has a first entity.
LEMMA FirstsAsk ==
    ASSUME MeshTypes, NEW d \in DOMAIN mesh, mesh[d] \notin DOMAIN catalog
    PROVE  \E e \in FirstUnasked : mesh[e] = mesh[d]
<1> DEFINE same == {e \in DOMAIN mesh : mesh[e] = mesh[d]}
<1>1. same \in SUBSET Nat /\ same # {}
  BY DEF MeshTypes
<1>2. PICK least \in same : \A n \in same : least <= n
  <2> HIDE DEF same
  <2> QED
    BY <1>1, LeastElement
<1>3. least \in FirstUnasked
  BY <1>2 DEF FirstUnasked
<1> QED
  BY <1>2, <1>3

LEMMA SyncKeepsDrawn ==
    ASSUME DrawInvariant, SyncMeshCatalog
    PROVE  DrawInvariant'
<1> DEFINE new == PathsOf({e \in FirstUnasked : mesh[e] \in disk})
           wanted == {mesh[e] : e \in FirstUnasked}
           Handle(path) == CHOOSE i \in DOMAIN uploaded' : uploaded'[i] = path
<1> USE DEF DrawInvariant
<1>1. /\ uploaded' = uploaded \o new
      /\ catalog' = [path \in DOMAIN catalog \cup wanted |->
             IF path \in DOMAIN catalog THEN catalog[path] ELSE IF path \in disk THEN Handle(path) ELSE 0]
      /\ UNCHANGED <<lastEntityId, mesh, disk>>
  BY DEF SyncMeshCatalog, worldVars
<1>2. EachOnce(new, wanted \cap disk)
  BY NewPathsOnce
<1>3. \A path \in wanted : path \notin DOMAIN catalog
  BY DEF FirstUnasked
<1>4. \A d \in DOMAIN mesh : mesh[d] \in DOMAIN catalog \cup wanted
  BY FirstsAsk
<1> HIDE DEF new, wanted
<1>5. new \in Seq(wanted \cap disk) /\ new \in Seq(Texts) /\ uploaded \in Seq(Texts)
  BY <1>2 DEF EachOnce, MeshTypes
<1> DEFINE n == Len(uploaded)
<1>6. /\ n \in Nat /\ DOMAIN uploaded = 1 .. n
      /\ Len(new) \in Nat /\ DOMAIN new = 1 .. Len(new)
      /\ uploaded' \in Seq(Texts) /\ DOMAIN uploaded' = 1 .. n + Len(new)
      /\ \A i \in 1 .. n : uploaded'[i] = uploaded[i]
      /\ \A i \in 1 .. Len(new) : uploaded'[n + i] = new[i]
  BY <1>1, <1>5
<1> HIDE DEF n
<1>7. \A i \in DOMAIN uploaded' : i \in 1 .. n \/ (i - n \in 1 .. Len(new) /\ uploaded'[i] = new[i - n])
  <2>1. TAKE i \in DOMAIN uploaded'
  <2>2. CASE i > n
    <3>1. i - n \in 1 .. Len(new) /\ n + (i - n) = i
      BY <1>6, <2>2
    <3> QED
      BY <1>6, <3>1
  <2> QED
    BY <1>6, <2>2
<1>8. \A i \in 1 .. Len(new) : new[i] \in wanted /\ new[i] \in disk
  BY <1>5, <1>6
<1>9. \A i \in 1 .. n : uploaded[i] \in DOMAIN catalog
  BY <1>6 DEF CatalogKnowsUploads
<1>10. IsInjective(uploaded')
  <2>1. SUFFICES ASSUME NEW i \in DOMAIN uploaded', NEW j \in DOMAIN uploaded', uploaded'[i] = uploaded'[j]
                 PROVE  i = j
    BY DEF IsInjective
  <2>2. CASE i \in 1 .. n /\ j \in 1 .. n
    BY <1>6, <2>1, <2>2 DEF CatalogKnowsUploads, IsInjective
  <2>3. CASE i \in 1 .. n /\ j \notin 1 .. n
    BY <1>3, <1>6, <1>7, <1>8, <1>9, <2>1, <2>3
  <2>4. CASE i \notin 1 .. n /\ j \in 1 .. n
    BY <1>3, <1>6, <1>7, <1>8, <1>9, <2>1, <2>4
  <2>5. CASE i \notin 1 .. n /\ j \notin 1 .. n
    <3>1. /\ i - n \in DOMAIN new /\ j - n \in DOMAIN new /\ new[i - n] = new[j - n]
          /\ i \in Int /\ j \in Int
      BY <1>6, <1>7, <2>1, <2>5
    <3>2. i - n = j - n
      BY <1>2, <3>1 DEF EachOnce
    <3> QED
      BY <1>6, <3>1, <3>2
  <2> QED
    BY <2>2, <2>3, <2>4, <2>5
<1>11. \A path \in wanted \cap disk : Handle(path) \in DOMAIN uploaded' /\ uploaded'[Handle(path)] = path
  <2>1. TAKE path \in wanted \cap disk
  <2>2. PICK i \in DOMAIN new : new[i] = path
    BY <1>2 DEF EachOnce
  <2>3. n + i \in DOMAIN uploaded' /\ uploaded'[n + i] = path
    BY <1>6, <2>2
  <2> QED
    BY <2>3
<1> HIDE DEF Handle
<1>12. \A path \in DOMAIN catalog' : path \in DOMAIN catalog \/ path \in wanted
  BY <1>1
<1>13. CatalogKnowsUploads'
  <2>1. \A i \in DOMAIN uploaded' : uploaded'[i] \in DOMAIN catalog'
    BY <1>1, <1>6, <1>7, <1>8, <1>9
  <2>2. ASSUME NEW path \in DOMAIN catalog
        PROVE  IF catalog'[path] = 0 THEN \A i \in DOMAIN uploaded' : uploaded'[i] # path
               ELSE catalog'[path] \in DOMAIN uploaded' /\ uploaded'[catalog'[path]] = path
    <3>1. catalog'[path] = catalog[path]
      BY <1>1
    <3>2. CASE catalog[path] = 0
      <4>1. \A i \in 1 .. n : uploaded[i] # path
        BY <1>6, <3>2 DEF CatalogKnowsUploads
      <4> QED
        BY <1>3, <1>6, <1>7, <1>8, <3>1, <3>2, <4>1
    <3>3. CASE catalog[path] # 0
      <4>1. catalog[path] \in 1 .. n /\ uploaded[catalog[path]] = path
        BY <1>6, <3>3 DEF CatalogKnowsUploads
      <4> QED
        BY <1>6, <3>1, <3>3, <4>1
    <3> QED
      BY <3>2, <3>3
  <2>3. ASSUME NEW path \in wanted
        PROVE  IF catalog'[path] = 0 THEN \A i \in DOMAIN uploaded' : uploaded'[i] # path
               ELSE catalog'[path] \in DOMAIN uploaded' /\ uploaded'[catalog'[path]] = path
    <3>1. path \notin DOMAIN catalog
      BY <1>3
    <3>2. CASE path \in disk
      <4>1. catalog'[path] = Handle(path)
        BY <1>1, <3>1, <3>2
      <4>2. Handle(path) # 0
        BY <1>6, <1>11, <3>2
      <4> QED
        BY <1>11, <3>2, <4>1, <4>2
    <3>3. CASE path \notin disk
      <4>1. catalog'[path] = 0
        BY <1>1, <3>1, <3>3
      <4> QED
        BY <1>6, <1>7, <1>8, <1>9, <3>1, <3>3, <4>1
    <3> QED
      BY <3>2, <3>3
  <2> QED
    BY <1>10, <1>12, <2>1, <2>2, <2>3 DEF CatalogKnowsUploads
<1>14. MeshTypes'
  BY <1>1, <1>6 DEF MeshTypes
<1>15. AllAsked'
  BY <1>1, <1>4 DEF AllAsked
<1>16. stage' = "extract"
  BY StageOrder DEF SyncMeshCatalog, At
<1> QED
  BY <1>13, <1>14, <1>15, <1>16 DEF DrawnAsEdited

LEMMA ExtractKeepsDrawn ==
    ASSUME DrawInvariant, ExtractFrame
    PROVE  DrawInvariant'
<1> USE DEF DrawInvariant
<1>1. /\ frame'.meshes = ExtractMeshes
      /\ UNCHANGED <<alive, lastEntityId, mesh, position, rotation, disk, catalog, uploaded>>
      /\ stage = "extract" /\ stage' = "input"
  BY StageOrder DEF ExtractFrame, worldVars, At
<1>2. MeshTypes' /\ CatalogKnowsUploads' /\ AllAsked'
  BY <1>1 DEF MeshTypes, CatalogKnowsUploads, AllAsked
<1> DEFINE known == {e \in DOMAIN mesh : Find(mesh[e]) # 0}
           drawn == ById(known)
<1>3. EachOnce(drawn, known)
  <2>1. known \subseteq 1 .. lastEntityId /\ lastEntityId \in Nat
    BY DEF MeshTypes
  <2> HIDE DEF known
  <2> QED
    BY <2>1, EntitiesListedOnce
<1>4. frame'.meshes = [i \in DOMAIN drawn |->
          [mesh |-> Find(mesh[drawn[i]]), entity |-> drawn[i],
           position |-> position[drawn[i]], rotation |-> rotation[drawn[i]]]]
  BY <1>1 DEF ExtractMeshes
<1>5. \A e \in DOMAIN mesh : mesh[e] \in DOMAIN catalog /\ Find(mesh[e]) = catalog[mesh[e]]
  BY <1>1 DEF AllAsked, Find
<1>6. \A e \in DOMAIN mesh : Find(mesh[e]) # 0 <=> mesh[e] \in Range(uploaded)
  BY <1>5 DEF CatalogKnowsUploads, Range
<1>7. \A e \in known : uploaded[Find(mesh[e])] = mesh[e]
  BY <1>5 DEF CatalogKnowsUploads
<1>8. known = {e \in DOMAIN mesh : mesh[e] \in Range(uploaded)}
  BY <1>6
<1> HIDE DEF known, drawn
<1>9. \A i \in DOMAIN drawn : drawn[i] \in known
  BY <1>3 DEF EachOnce
<1>10. DOMAIN frame'.meshes = DOMAIN drawn
  BY <1>4
<1>11. ASSUME NEW d \in Range(frame'.meshes)
       PROVE  /\ d.entity \in known
              /\ uploaded[d.mesh] = mesh[d.entity]
              /\ d.position = position[d.entity] /\ d.rotation = rotation[d.entity]
  <2>1. PICK i \in DOMAIN drawn : d = frame'.meshes[i]
    BY <1>10 DEF Range
  <2>2. d = [mesh |-> Find(mesh[drawn[i]]), entity |-> drawn[i],
             position |-> position[drawn[i]], rotation |-> rotation[drawn[i]]]
    BY <1>4, <2>1
  <2> QED
    BY <1>7, <1>9, <2>2
<1>12. ASSUME NEW e \in known PROVE \E d \in Range(frame'.meshes) : d.entity = e
  <2>1. PICK i \in DOMAIN drawn : drawn[i] = e
    BY <1>3 DEF EachOnce
  <2>2. frame'.meshes[i].entity = e /\ frame'.meshes[i] \in Range(frame'.meshes)
    BY <1>4, <1>10, <2>1 DEF Range
  <2> QED
    BY <2>2
<1>13. {d.entity : d \in Range(frame'.meshes)} = known
  BY <1>11, <1>12
<1>14. DrawnAsEdited'
  <2>1. {mesh[e] : e \in DOMAIN mesh} \subseteq DOMAIN catalog
    BY <1>5
  <2>2. IsInjective(uploaded)
    BY DEF CatalogKnowsUploads
  <2> QED
    BY <1>1, <1>8, <1>11, <1>13, <2>1, <2>2 DEF DrawnAsEdited
<1> QED
  BY <1>2, <1>14

\* No other stage loads or draws anything.
LEMMA OthersKeepDrawn ==
    ASSUME DrawInvariant, MeshTypes', UNCHANGED <<catalog, uploaded>>, stage' \notin {"input", "extract"}
    PROVE  DrawInvariant'
BY DEF DrawInvariant, CatalogKnowsUploads, AllAsked, DrawnAsEdited

LEMMA SpawningKeepsIds ==
    ASSUME MeshTypes, SpawnerStep
    PROVE  MeshTypes'
<1> DEFINE new == lastEntityId + 1
           made == IF "P" \in pressed THEN {new} ELSE {}
           all == IF "P" \in pressed THEN Append(spawned, new) ELSE spawned
           first == IF "L" \in pressed THEN FirstLiving(all, alive \cup made) ELSE 0
           destroyed == IF first # 0 THEN {all[first]} ELSE {}
<1>1. /\ lastEntityId' = lastEntityId + Cardinality(made)
      /\ mesh' = [e \in (DOMAIN mesh \cup made) \ destroyed |-> IF e \in made THEN Placeholder ELSE mesh[e]]
      /\ UNCHANGED <<disk, uploaded>>
  BY DEF SpawnerStep, meshVars
<1> HIDE DEF destroyed
<1>2. CASE "P" \in pressed
  <2>1. made = {new} /\ Cardinality({new}) = 1
    BY <1>2, FS_Singleton
  <2>2. lastEntityId' = lastEntityId + 1 /\ lastEntityId \in Nat
    BY <1>1, <2>1 DEF MeshTypes
  <2>3. \A e \in DOMAIN mesh : e \in 1 .. lastEntityId
    BY DEF MeshTypes
  <2>4. \A e \in DOMAIN mesh' : e \in 1 .. lastEntityId'
    BY <1>1, <2>1, <2>2, <2>3
  <2>5. UNCHANGED <<disk, uploaded>>
    BY <1>1
  <2> QED
    BY <2>2, <2>4, <2>5 DEF MeshTypes
<1>3. CASE "P" \notin pressed
  <2>1. made = {} /\ Cardinality({}) = 0
    BY <1>3, FS_EmptySet
  <2> QED
    BY <1>1, <2>1 DEF MeshTypes
<1> QED
  BY <1>2, <1>3

\* Every frame is drawn as the world stands at its end: for any texts, keys and
\* gestures, whatever files come and go, and however many entities.
THEOREM FramesShowTheWorld == Spec => []DrawnAsEdited
<1>1. Init => DrawInvariant
  <2> SUFFICES ASSUME Init PROVE DrawInvariant
    OBVIOUS
  <2>1. /\ lastEntityId = 4 /\ DOMAIN mesh = {1, 3, 4} /\ disk \subseteq Texts
        /\ uploaded = <<>> /\ catalog = <<>> /\ stage = "input" /\ alive = 1 .. 4
    BY DEF Init, Player, Room, Pillar
  <2> QED
    BY <2>1 DEF DrawInvariant, MeshTypes, CatalogKnowsUploads, AllAsked, DrawnAsEdited, IsInjective
<1>2. DrawInvariant /\ [Next]_vars => DrawInvariant'
  <2> SUFFICES ASSUME DrawInvariant, [Next]_vars PROVE DrawInvariant'
    OBVIOUS
  <2> USE OthersKeepDrawn, StageOrder
  <2>1. CASE InputStep
    <3>1. Max({lastEntityId, Input}) \in Nat /\ Max({lastEntityId, Input}) >= lastEntityId
      BY MaxOfTwo DEF DrawInvariant, MeshTypes, Input
    <3>2. lastEntityId' >= lastEntityId /\ lastEntityId' \in Nat /\ UNCHANGED <<mesh, disk, uploaded>>
      BY <2>1, <3>1 DEF InputStep
    <3>3. \A e \in DOMAIN mesh : e \in 1 .. lastEntityId /\ lastEntityId \in Nat
      BY DEF DrawInvariant, MeshTypes
    <3>4. \A e \in DOMAIN mesh' : e \in 1 .. lastEntityId'
      BY <3>2, <3>3
    <3>5. MeshTypes'
      BY <3>2, <3>4 DEF DrawInvariant, MeshTypes
    <3> QED
      BY <2>1, <3>5 DEF InputStep, At
  <2>2. CASE FilesChange
    <3>1. PICK path \in Texts : disk' = SymDiff(disk, {path})
      BY <2>2 DEF FilesChange
    <3>2. UNCHANGED <<stage, worldVars, catalog, uploaded, frame>>
      BY <2>2 DEF FilesChange
    <3> QED
      BY <3>1, <3>2
      DEF worldVars, SymDiff, DrawInvariant, MeshTypes, CatalogKnowsUploads, AllAsked, DrawnAsEdited
  <2>3. CASE SpawnerStep
    <3>1. MeshTypes'
      BY <2>3, SpawningKeepsIds DEF DrawInvariant
    <3> QED
      BY <2>3, <3>1 DEF SpawnerStep, At, meshVars
  <2>4. CASE MovementStep \/ CameraStep
    <3>1. UNCHANGED <<lastEntityId, mesh, disk, catalog, uploaded>>
      BY <2>4 DEF MovementStep, CameraStep, meshVars
    <3>2. stage' \in {"camera", "panel"}
      BY <2>4 DEF MovementStep, CameraStep, At
    <3> QED
      BY <3>1, <3>2 DEF DrawInvariant, MeshTypes
  <2>5. CASE PanelStep
    <3>1. UNCHANGED <<lastEntityId, disk, catalog, uploaded>> /\ DOMAIN mesh' = DOMAIN mesh
      BY <2>5 DEF PanelStep, PanelIdle, BeginText, Type, Commit, Grab, Drag, Release, TypePlane,
         panelKeeps, meshVars
    <3>2. stage' = "sync"
      BY <2>5 DEF PanelStep, PanelIdle, BeginText, Type, Commit, Grab, Drag, Release, TypePlane, Gesture, At
    <3> QED
      BY <3>1, <3>2 DEF DrawInvariant, MeshTypes
  <2>6. CASE UNCHANGED vars
    BY <2>6 DEF vars, worldVars, meshVars, DrawInvariant, MeshTypes, CatalogKnowsUploads, AllAsked, DrawnAsEdited
  <2> QED
    BY <2>1, <2>2, <2>3, <2>4, <2>5, <2>6, SyncKeepsDrawn, ExtractKeepsDrawn DEF Next
<1>3. DrawInvariant => DrawnAsEdited
  BY DEF DrawInvariant
<1> QED
  BY <1>1, <1>2, <1>3, PTL DEF Spec

-----------------------------------------------------------------------------
(* Overloads: what the sweep finds, and that only the set counts.          *)

LEMMA BetterIsStrict ==
    ASSUME NEW left, NEW right, NEW args, BindsBetterThan(left, right, args)
    PROVE  ~BindsBetterThan(right, left, args) /\ left # right
BY DEF BindsBetterThan

LEMMA GrantedOrRefused ==
    /\ \A reason : ~Granted(Refused(reason))
    /\ \A c \in Constructor : Granted(c)
BY DEF Granted, Refused, Constructor

Sweeps(best, constructors, args, k) ==
    best = [i \in 0 .. k |->
               IF i = 0 THEN Refused("NoMatchingConstructor")
               ELSE IF /\ IsCandidate(constructors[i], args)
                       /\ Granted(best[i - 1]) => BindsBetterThan(constructors[i], best[i - 1], args)
               THEN constructors[i]
               ELSE best[i - 1]]

LEMMA SweepsExists ==
    ASSUME NEW constructors, NEW args, NEW k \in Nat
    PROVE  \E best : Sweeps(best, constructors, args, k)
<1> DEFINE Swept(b, i) == IF /\ IsCandidate(constructors[i], args)
                             /\ Granted(b) => BindsBetterThan(constructors[i], b, args)
                          THEN constructors[i] ELSE b
           Good == {n \in Nat : \E best : Sweeps(best, constructors, args, n)}
<1>0. \A best, n : Sweeps(best, constructors, args, n) <=>
          best = [i \in 0 .. n |-> IF i = 0 THEN Refused("NoMatchingConstructor") ELSE Swept(best[i - 1], i)]
  BY Zenon DEF Sweeps
<1> HIDE DEF Swept
<1>1. 0 \in Good
  <2> DEFINE best == [i \in 0 .. 0 |-> Refused("NoMatchingConstructor")]
  <2>1. Sweeps(best, constructors, args, 0)
    BY <1>0
  <2> QED
    BY <2>1
<1>2. ASSUME NEW m \in 1 .. k, m - 1 \in Good PROVE m \in Good
  <2>1. m \in Nat /\ m - 1 \in Nat
    OBVIOUS
  <2>2. PICK before : Sweeps(before, constructors, args, m - 1)
    BY <1>2
  <2> DEFINE best == [i \in 0 .. m |-> IF i = m THEN Swept(before[m - 1], m) ELSE before[i]]
  <2>3. \A i \in 0 .. m - 1 :
            before[i] = IF i = 0 THEN Refused("NoMatchingConstructor") ELSE Swept(before[i - 1], i)
    BY <1>0, <2>1, <2>2
  <2>4. \A i \in 0 .. m : best[i] = IF i = 0 THEN Refused("NoMatchingConstructor") ELSE Swept(best[i - 1], i)
    <3>1. TAKE i \in 0 .. m
    <3>2. CASE i = m
      BY <2>1, <3>2
    <3>3. CASE i # m
      BY <2>1, <2>3, <3>3
    <3> QED
      BY <3>2, <3>3
  <2>5. Sweeps(best, constructors, args, m)
    BY <1>0, <2>4
  <2> QED
    BY <2>1, <2>5
<1> HIDE DEF Good
<1>3. k \in Good
  BY <1>1, <1>2, InductionUpTo
<1> QED
  BY <1>3 DEF Good

\* The sweep finds a candidate if there is one, and the one that beats all
\* others if there is such a one.
LEMMA SweepFinds ==
    ASSUME NEW constructors \in Seq(Constructor), NEW args
    PROVE  LET found == Sweep(constructors, args)
               candidates == {c \in Range(constructors) : IsCandidate(c, args)}
           IN /\ found \in candidates \/ (candidates = {} /\ found = Refused("NoMatchingConstructor"))
              /\ \A w \in candidates :
                    (\A c \in candidates : c # w => BindsBetterThan(w, c, args)) => found = w
<1> DEFINE k == Len(constructors)
           best == CHOOSE b : Sweeps(b, constructors, args, k)
           candidates == {c \in Range(constructors) : IsCandidate(c, args)}
<1>1. k \in Nat /\ DOMAIN constructors = 1 .. k /\ \A i \in 1 .. k : constructors[i] \in Constructor
  OBVIOUS
<1>2. Sweeps(best, constructors, args, k)
  BY <1>1, SweepsExists
<1>3. Sweep(constructors, args) = best[k]
  BY Zenon DEF Sweep, Sweeps
<1> HIDE DEF best, k
<1>4. /\ best[0] = Refused("NoMatchingConstructor")
      /\ \A i \in 1 .. k :
            best[i] = IF /\ IsCandidate(constructors[i], args)
                         /\ Granted(best[i - 1]) => BindsBetterThan(constructors[i], best[i - 1], args)
                      THEN constructors[i] ELSE best[i - 1]
  BY <1>1, <1>2 DEF Sweeps
<1> DEFINE Finds(n) ==
              \/ \E j \in 1 .. n : best[n] = constructors[j] /\ IsCandidate(constructors[j], args)
              \/ /\ best[n] = Refused("NoMatchingConstructor")
                 /\ \A j \in 1 .. n : ~IsCandidate(constructors[j], args)
           Found == {n \in 0 .. k : Finds(n)}
<1>5. \A n \in 0 .. k : n \in Found
  <2>1. 0 \in Found
    BY <1>1, <1>4
  <2>2. ASSUME NEW n \in 1 .. k, n - 1 \in Found PROVE n \in Found
    <3>0. Finds(n - 1) /\ n - 1 \in 0 .. k /\ n \in 0 .. k /\ n \in 1 .. n
      BY <1>1, <2>2
    <3>1. CASE best[n] = constructors[n] /\ IsCandidate(constructors[n], args)
      BY <3>0, <3>1
    <3>2. CASE ~(best[n] = constructors[n] /\ IsCandidate(constructors[n], args))
      <4>1. best[n] = best[n - 1]
        BY <1>4, <3>2
      <4>2. CASE \E j \in 1 .. n - 1 : best[n - 1] = constructors[j] /\ IsCandidate(constructors[j], args)
        <5>1. \A j \in 1 .. n - 1 : j \in 1 .. n
          BY <1>1
        <5> QED
          BY <3>0, <4>1, <4>2, <5>1
      <4>3. CASE /\ best[n - 1] = Refused("NoMatchingConstructor")
                 /\ \A j \in 1 .. n - 1 : ~IsCandidate(constructors[j], args)
        <5>1. ~Granted(best[n - 1])
          BY <4>3, GrantedOrRefused
        <5>2. ~IsCandidate(constructors[n], args)
          BY <1>4, <3>2, <5>1
        <5>3. \A j \in 1 .. n : j = n \/ j \in 1 .. n - 1
          BY <1>1
        <5>4. \A j \in 1 .. n : ~IsCandidate(constructors[j], args)
          BY <4>3, <5>2, <5>3
        <5> QED
          BY <3>0, <4>1, <4>3, <5>4
      <4> QED
        BY <3>0, <4>2, <4>3
    <3> QED
      BY <3>1, <3>2
  <2> HIDE DEF Found
  <2> QED
    BY <1>1, <2>1, <2>2, InductionUpTo
<1>6. best[k] \in candidates \/ (candidates = {} /\ best[k] = Refused("NoMatchingConstructor"))
  <2>1. Finds(k)
    BY <1>1, <1>5
  <2> QED
    BY <1>1, <2>1 DEF Range
<1>7. ASSUME NEW w \in candidates, \A c \in candidates : c # w => BindsBetterThan(w, c, args)
      PROVE  best[k] = w
  <2>1. PICK place \in 1 .. k : constructors[place] = w
    BY <1>1 DEF Range
  <2> DEFINE Kept == {n \in 0 .. k : n >= place => best[n] = w}
  <2>2. 0 \in Kept
    BY <1>1
  <2>3. ASSUME NEW n \in 1 .. k, n - 1 \in Kept PROVE n \in Kept
    <3>0. n \in 0 .. k /\ n - 1 \in 0 .. k /\ n \in Int /\ place \in Int
      BY <1>1
    <3>1. CASE n < place
      BY <3>0, <3>1
    <3>2. CASE n = place
      <4>1. IsCandidate(w, args) /\ constructors[n] = w
        BY <2>1, <3>2
      <4>2. CASE best[n - 1] = w
        BY <1>4, <3>0, <4>1, <4>2
      <4>3. CASE best[n - 1] # w
        <5>1. Granted(best[n - 1]) => best[n - 1] \in candidates
          <6>1. Finds(n - 1)
            BY <1>5, <3>0
          <6>2. \A j \in 1 .. n - 1 : j \in DOMAIN constructors
            BY <1>1
          <6> QED
            BY <6>1, <6>2, GrantedOrRefused DEF Range
        <5>2. Granted(best[n - 1]) => BindsBetterThan(w, best[n - 1], args)
          BY <1>7, <4>3, <5>1
        <5> QED
          BY <1>4, <3>0, <4>1, <5>2
      <4> QED
        BY <4>2, <4>3
    <3>3. CASE n > place
      <4>1. best[n - 1] = w
        BY <2>3, <3>0, <3>3
      <4>2. CASE IsCandidate(constructors[n], args) /\ BindsBetterThan(constructors[n], w, args)
        <5>1. constructors[n] \in candidates /\ constructors[n] # w
          BY <1>1, <4>2, BetterIsStrict DEF Range
        <5>2. BindsBetterThan(w, constructors[n], args)
          BY <1>7, <5>1
        <5> QED
          BY <4>2, <5>2, BetterIsStrict
      <4>3. CASE ~(IsCandidate(constructors[n], args) /\ BindsBetterThan(constructors[n], w, args))
        <5>1. Granted(w)
          BY <1>1, <2>1, GrantedOrRefused
        <5> QED
          BY <1>4, <3>0, <4>1, <4>3, <5>1
      <4> QED
        BY <4>2, <4>3
    <3> QED
      BY <3>0, <3>1, <3>2, <3>3
  <2> HIDE DEF Kept
  <2>4. k \in Kept
    BY <1>1, <2>2, <2>3, InductionUpTo
  <2> QED
    BY <1>1, <2>1, <2>4 DEF Kept
<1> QED
  BY <1>3, <1>6, <1>7

\* What is chosen, said of the set of constructors alone.
LEMMA ChoiceByTheSet ==
    ASSUME NEW constructors \in Seq(Constructor), NEW args
    PROVE  LET chosen == SelectConstructor(constructors, args)
               candidates == {c \in Range(constructors) : IsCandidate(c, args)}
               Wins(w) == w \in candidates /\ \A c \in candidates : c # w => BindsBetterThan(w, c, args)
           IN /\ candidates = {} => chosen = Refused("NoMatchingConstructor")
              /\ candidates # {} /\ (\A w : ~Wins(w)) => chosen = Refused("AmbiguousConstructor")
              /\ \A w : Wins(w) => chosen = w
<1> DEFINE found == Sweep(constructors, args)
           candidates == {c \in Range(constructors) : IsCandidate(c, args)}
<1>1. /\ found \in candidates \/ (candidates = {} /\ found = Refused("NoMatchingConstructor"))
      /\ \A w \in candidates :
            (\A c \in candidates : c # w => BindsBetterThan(w, c, args)) => found = w
  BY SweepFinds
<1>2. SelectConstructor(constructors, args) =
          IF Granted(found) /\ \E c \in candidates : c # found /\ ~BindsBetterThan(found, c, args)
          THEN Refused("AmbiguousConstructor") ELSE found
  BY DEF SelectConstructor
<1>3. \A c \in candidates : Granted(c)
  BY GrantedOrRefused DEF Range
<1> HIDE DEF found, candidates
<1>4. ~Granted(Refused("NoMatchingConstructor"))
  BY GrantedOrRefused
<1>5. candidates = {} => SelectConstructor(constructors, args) = Refused("NoMatchingConstructor")
  BY <1>1, <1>2, <1>4
<1>6. candidates # {} => found \in candidates /\ Granted(found)
  BY <1>1, <1>3
<1>7. ASSUME NEW w \in candidates, \A c \in candidates : c # w => BindsBetterThan(w, c, args)
      PROVE  SelectConstructor(constructors, args) = w
  <2>1. found = w
    BY <1>1, <1>7
  <2> QED
    BY <1>2, <1>7, <2>1
<1>8. ASSUME candidates # {},
             \A w \in candidates : \E c \in candidates : c # w /\ ~BindsBetterThan(w, c, args)
      PROVE  SelectConstructor(constructors, args) = Refused("AmbiguousConstructor")
  BY <1>2, <1>6, <1>8
<1> QED
  BY <1>5, <1>7, <1>8 DEF candidates

\* Of any overload set and any arguments, with constructors that take any
\* number of parameters: the choice is the arguments' alone.
THEOREM ChoicesAreTheCallers == AskSpec => []ChoiceIsTheCallers
<1>1. AsksForConstructor => ChoiceIsTheCallers
  <2> SUFFICES ASSUME AsksForConstructor PROVE ChoiceIsTheCallers
    OBVIOUS
  <2> DEFINE cs == asked.constructors
             args == asked.args
             candidates == {c \in Range(cs) : IsCandidate(c, args)}
             Wins(w) == w \in candidates /\ \A c \in candidates : c # w => BindsBetterThan(w, c, args)
             chosen == SelectConstructor(cs, args)
  <2>1. cs \in Seq(Constructor)
    BY DEF AsksForConstructor
  <2>2. /\ candidates = {} => chosen = Refused("NoMatchingConstructor")
        /\ candidates # {} /\ (\A w : ~Wins(w)) => chosen = Refused("AmbiguousConstructor")
        /\ \A w : Wins(w) => chosen = w
    BY <2>1, ChoiceByTheSet, Zenon
  <2>3. ASSUME NEW order \in Orders(DOMAIN cs)
        PROVE  SelectConstructor([i \in DOMAIN order |-> cs[order[i]]], args) = chosen
    <3> DEFINE ds == [i \in DOMAIN order |-> cs[order[i]]]
               others == {c \in Range(ds) : IsCandidate(c, args)}
    <3>1. /\ order \in [DOMAIN cs -> DOMAIN cs]
          /\ \A i \in DOMAIN cs : \E j \in DOMAIN cs : order[j] = i
      BY DEF Orders
    <3>2. ds \in Seq(Constructor) /\ DOMAIN ds = DOMAIN cs
      <4>1. DOMAIN cs = 1 .. Len(cs) /\ Len(cs) \in Nat /\ \A i \in 1 .. Len(cs) : cs[i] \in Constructor
        BY <2>1
      <4>2. ds \in [1 .. Len(cs) -> Constructor]
        BY <3>1, <4>1
      <4> QED
        BY <4>1, <4>2, SeqDef
    <3>3. Range(ds) = Range(cs)
      BY <3>1, <3>2 DEF Range
    <3>4. others = candidates
      BY <3>3
    <3> HIDE DEF ds
    <3>5. /\ others = {} => SelectConstructor(ds, args) = Refused("NoMatchingConstructor")
          /\ others # {} /\ (\A w : ~(w \in others /\ \A c \in others : c # w => BindsBetterThan(w, c, args)))
                => SelectConstructor(ds, args) = Refused("AmbiguousConstructor")
          /\ \A w : w \in others /\ (\A c \in others : c # w => BindsBetterThan(w, c, args))
                => SelectConstructor(ds, args) = w
      BY <3>2, ChoiceByTheSet, Zenon
    <3> HIDE DEF others, candidates, chosen
    <3>6. /\ candidates = {} => SelectConstructor(ds, args) = Refused("NoMatchingConstructor")
          /\ candidates # {} /\ (\A w : ~Wins(w)) => SelectConstructor(ds, args) = Refused("AmbiguousConstructor")
          /\ \A w : Wins(w) => SelectConstructor(ds, args) = w
      BY <3>4, <3>5
    <3> HIDE DEF Wins
    <3>7. SelectConstructor(ds, args) = chosen
      BY <2>2, <3>6
    <3> QED
      BY <3>7 DEF ds
  <2>4. ASSUME Granted(chosen), NEW i \in DOMAIN args, NEW c \in candidates,
               SuitsArgument(c.params[i], args[i])
        PROVE  SuitsArgument(chosen.params[i], args[i])
    <3>1. PICK w : Wins(w) /\ chosen = w
      <4> HIDE DEF Wins, candidates, chosen
      <4> QED
        BY <2>2, <2>4, GrantedOrRefused
    <3>2. c = w \/ BindsBetterThan(w, c, args)
      BY <3>1
    <3> QED
      BY <2>4, <3>1, <3>2 DEF BindsBetterThan
  <2> QED
    BY <2>3, <2>4 DEF ChoiceIsTheCallers
<1>2. AsksForConstructor /\ [UNCHANGED asked]_asked => AsksForConstructor'
  BY DEF AsksForConstructor
<1> QED
  BY <1>1, <1>2, PTL DEF AskSpec
=============================================================================
