------------------------------- MODULE World -------------------------------
(***************************************************************************)
(* The game inside the engine, one frame after another: the systems of     *)
(* PlaygroundGame/src/App.cpp over its entities, the panel that edits them *)
(* (DebugPanel), SyncMeshCatalog and ExtractFrame.  Each stage of a frame  *)
(* is an action, in the order App::OnStartRun and Engine::RunStep give.    *)
(*                                                                         *)
(* The keyboard feeds the game and the panel at once: nothing arbitrates   *)
(* between them, so letters typed into a text field also spawn and destroy *)
(* entities.  A position is the number of displacements it has had; a      *)
(* distance is in millimetres; a path or a text is a member of Texts.  The *)
(* panel is open while the user works in it, and of its rows they edit the *)
(* mesh paths, the rotations and the camera's planes.                      *)
(***************************************************************************)
EXTENDS SequencesExt, EulerAngles

CONSTANTS
    Texts,       \* what the user may leave in a text field
    Placeholder, \* MeshComponent's default path
    VikingRoom,  \* the room's
    Distances,   \* what may be typed into a camera's planes
    MaxSpawned,  \* bound: entities the spawner makes
    EditablePaths, \* the rows the user edits, each within a component
    Habits       \* bound: what the user of one behaviour does: the sets of keys they
                 \* press together, their gestures, the entities they edit, and how
                 \* many key presses and gestures they make in all

ASSUME DistancesAssumption == Distances \subseteq Int

VARIABLES
    habit, stage, inputs,
    keys,        \* keys down in this frame
    pressed,     \* those that were up in the one before
    lastEntityId, alive,
    named,       \* entities with an EntityNameComponent
    mesh,        \* entity -> MeshPath, for those with a MeshComponent
    position, rotation,  \* entity -> that part of its TransformComponent
    planes,      \* the camera's [near, far]
    spawned,     \* _spawnedEntities
    disk,        \* paths that can be loaded at present
    catalog,     \* _handlesPerPath
    uploaded,    \* _meshes of the renderer: handle -> the path it was loaded from
    edit,        \* what the user is doing in the panel
    held,        \* entity -> the triple ImGui's storage holds for its rotation row
    frame,       \* _extractedFrame
    given        \* entity -> the path its maker or the user last gave it (no code)

worldVars == <<lastEntityId, alive, named, mesh, position, rotation, planes, spawned>>
meshVars == <<disk, catalog, uploaded, frame>>
panelVars == <<edit, held>>
vars == <<habit, stage, inputs, keys, pressed, worldVars, meshVars, panelVars, given>>

Player == 1
Camera == 2
Room == 3
Pillar == 4
Input == 5  \* carries the InputStateComponent; made by the first step

Nothing == [kind |-> "none"]

\* The default ExtractedView, in millimetres.
DefaultView == [rotation |-> <<0, 0, 0>>, near |-> 100, far |-> 1000000]

\* SpawnPlayer, SpawnCamera and SpawnProps.
Init ==
    /\ habit \in Habits
    /\ stage = "input" /\ inputs = 0 /\ keys = {} /\ pressed = {}
    /\ lastEntityId = 4 /\ alive = 1..4 /\ named = 1..4
    /\ mesh = [e \in {Player, Room, Pillar} |-> IF e = Room THEN VikingRoom ELSE Placeholder]
    /\ position = [e \in 1..4 |-> 0]
    /\ rotation = [e \in 1..4 |->
           IF e = Camera THEN FromEulerAngles(<<-1, 0, 1>>)
           ELSE IF e = Room THEN FromEulerAngles(<<0, 0, RightAngle>>) ELSE <<0, 0, 0>>]
    /\ planes = [near |-> 100, far |-> 1000000]
    /\ spawned = <<>>
    /\ disk \in {Texts, Texts \ {VikingRoom}} /\ catalog = <<>> /\ uploaded = <<>>
    /\ edit = Nothing /\ held = <<>>
    /\ frame = [view |-> DefaultView, meshes |-> <<>>]
    /\ given = mesh

-----------------------------------------------------------------------------
(* The frame's stages.                                                     *)

\* Mutant: what is drawn is collected before new meshes are loaded.
StagesExtractFirst == <<"input", "spawn", "move", "camera", "panel", "extract", "sync">>

Stages == <<"input", "spawn", "move", "camera", "panel", "sync", "extract">>

StageAfter(s) ==
    LET place == CHOOSE i \in DOMAIN Stages : Stages[i] = s
    IN Stages[(place % Len(Stages)) + 1]

At(s) == stage = s /\ stage' = StageAfter(s) /\ UNCHANGED habit

\* The record's events folded into the key map; the first step makes the entity
\* that carries it.
InputStep ==
    /\ At("input")
    /\ alive' = alive \cup {Input}
    /\ lastEntityId' = Max({lastEntityId, Input})
    /\ \E down \in habit.keys \cup {{}} :
          /\ keys' = down /\ pressed' = down \ keys
          /\ "P" \in pressed' => lastEntityId' < Input + MaxSpawned
          /\ down # {} => inputs < habit.inputs
          /\ inputs' = inputs + IF down = {} THEN 0 ELSE 1
    /\ UNCHANGED <<disk, named, mesh, position, rotation, planes, spawned, catalog, uploaded, frame,
                   panelVars, given>>

\* Somebody adds or removes a mesh file between two frames.
FilesChange ==
    /\ stage = "input" /\ "files" \in habit.gestures
    /\ inputs < habit.inputs /\ inputs' = inputs + 1
    /\ \E path \in Texts : disk' = SymDiff(disk, {path})
    /\ UNCHANGED <<habit, stage, keys, pressed, worldVars, catalog, uploaded, frame, panelVars, given>>

\* TakeFirstSpawnedEntity: the place of the first of the list that lives, or 0.
FirstLiving(entities, living) ==
    LET places == {i \in DOMAIN entities : entities[i] \in living}
    IN IF places = {} THEN 0 ELSE Min(places)

\* What it leaves of the list: the ones before are forgotten too.
LeftAfter(entities, place) ==
    IF place = 0 THEN <<>> ELSE SubSeq(entities, place + 1, Len(entities))

\* P makes an entity, L destroys the first it made and M takes the name of the
\* next, in this order.
SpawnerStep ==
    /\ At("spawn")
    /\ LET new == lastEntityId + 1
           made == IF "P" \in pressed THEN {new} ELSE {}
           all == IF "P" \in pressed THEN Append(spawned, new) ELSE spawned
           first == IF "L" \in pressed THEN FirstLiving(all, alive \cup made) ELSE 0
           destroyed == IF first # 0 THEN {all[first]} ELSE {}
           living == (alive \cup made) \ destroyed
           rest == IF "L" \in pressed THEN LeftAfter(all, first) ELSE all
           second == IF "M" \in pressed THEN FirstLiving(rest, living) ELSE 0
           stripped == IF second # 0 THEN {rest[second]} ELSE {}
           Kept(f, value) ==
               [e \in (DOMAIN f \cup made) \ destroyed |-> IF e \in made THEN value ELSE f[e]]
       IN /\ alive' = living
          /\ lastEntityId' = lastEntityId + Cardinality(made)
          /\ spawned' = IF "M" \in pressed THEN LeftAfter(rest, second) ELSE rest
          /\ named' = ((named \cup made) \ destroyed) \ stripped
          /\ mesh' = Kept(mesh, Placeholder)
          /\ position' = Kept(position, 0)
          /\ rotation' = Kept(rotation, <<0, 0, 0>>)
          /\ given' = Kept(given, Placeholder)
    /\ UNCHANGED <<inputs, keys, pressed, planes, meshVars, panelVars>>

\* One when only the first key is down, minus one when only the second is.
Axis(forth, back) == (IF forth \in keys THEN 1 ELSE 0) - (IF back \in keys THEN 1 ELSE 0)

\* Keys that are held, not those just pressed: opposite ones cancel out.
MovementStep ==
    /\ At("move")
    /\ position' = IF Axis("W", "S") # 0 \/ Axis("D", "A") # 0
                   THEN [position EXCEPT ![Player] = @ + 1] ELSE position
    /\ UNCHANGED <<inputs, keys, pressed, lastEntityId, alive, named, mesh, rotation, planes,
                   spawned, meshVars, panelVars, given>>

\* Short of the vertical.
PitchLimit == RightAngle - 1
Clamp(value, low, high) == IF value < low THEN low ELSE IF value > high THEN high ELSE value

\* Turn leaves a rotation alone unless a key turns it.
CameraStep ==
    /\ At("camera")
    /\ LET turn == Axis("Left", "Right")
           pitch == Axis("Up", "Down")
           angles == ToEulerAngles(rotation[Camera])
       IN rotation' = IF turn = 0 /\ pitch = 0 THEN rotation
                      ELSE [rotation EXCEPT ![Camera] = FromEulerAngles(
                               <<Clamp(angles[1] + pitch, -PitchLimit, PitchLimit), 0, angles[3] + turn>>)]
    /\ position' = IF Axis("W", "S") # 0 \/ Axis("D", "A") # 0
                   THEN [position EXCEPT ![Camera] = @ + 1] ELSE position
    /\ UNCHANGED <<inputs, keys, pressed, lastEntityId, alive, named, mesh, planes, spawned,
                   meshVars, panelVars, given>>

-----------------------------------------------------------------------------
(* The panel.                                                              *)

\* What an entity carries, in the order of the component types.
ComponentsOf(e) ==
    (IF e \in named THEN {"EntityNameComponent"} ELSE {})
    \cup (IF e \in DOMAIN position THEN {"TransformComponent"} ELSE {})
    \cup (IF e \in DOMAIN mesh THEN {"MeshComponent"} ELSE {})
    \cup (IF e = Player THEN {"PlayerControlledComponent"} ELSE {})
    \cup (IF e = Camera THEN {"CameraComponent", "FreeLookComponent"} ELSE {})
    \cup (IF e = Input THEN {"InputStateComponent"} ELSE {})

\* Mutant: entities are told apart by their place in the list.
EntityLabelByPlace(e) == Cardinality({d \in alive : d <= e})

\* The tree node is named by the entity's id.
EntityLabel(e) == e

WidgetId(e, path) == [entity |-> EntityLabel(e), path |-> path]

\* Whether the row of an object within an entity is drawn, and can be edited.
Editable(e, path) == e \in alive /\ Head(path) \in ComponentsOf(e) /\ path \in EditablePaths

MeshPath == <<"MeshComponent", "MeshPath">>
Rotation == <<"TransformComponent", "Transform", "Rotation">>
NearPlane == <<"CameraComponent", "NearPlaneDistance">>
FarPlane == <<"CameraComponent", "FarPlaneDistance">>

\* The entity whose row has the id of the widget being edited; none when it is
\* not drawn any more.
Edited == {e \in alive : Editable(e, edit.path) /\ WidgetId(e, edit.path) = edit.id}

Gesture(kind) ==
    At("panel") /\ kind \in habit.gestures /\ inputs < habit.inputs /\ inputs' = inputs + 1

panelKeeps == <<keys, pressed, lastEntityId, alive, named, position, spawned, meshVars>>

\* The user does nothing new; ImGui forgets a widget that was not drawn.
PanelIdle ==
    /\ At("panel")
    /\ edit' = IF edit = Nothing \/ Edited = {} THEN Nothing
               ELSE IF edit.kind = "drag" THEN [edit EXCEPT !.wrote = FALSE] ELSE edit
    /\ UNCHANGED <<inputs, panelKeeps, mesh, rotation, planes, held, given>>

\* A text field gets the keyboard, and its buffer is ImGui's from then on.
BeginText(e) ==
    /\ Gesture("text") /\ edit = Nothing /\ Editable(e, MeshPath)
    /\ edit' = [kind |-> "text", id |-> WidgetId(e, MeshPath), path |-> MeshPath, target |-> e, text |-> mesh[e]]
    /\ UNCHANGED <<panelKeeps, mesh, rotation, planes, held, given>>

\* Mutant: the object follows every keystroke.
TypeIntoObject(text) ==
    /\ Gesture("text") /\ edit.kind = "text" /\ text # edit.text
    /\ edit' = [edit EXCEPT !.text = text]
    /\ mesh' = [e \in DOMAIN mesh |-> IF e \in Edited THEN text ELSE mesh[e]]
    /\ UNCHANGED <<panelKeeps, rotation, planes, held, given>>

\* Keystrokes change the buffer only.
Type(text) ==
    /\ Gesture("text") /\ edit.kind = "text" /\ Edited # {} /\ text # edit.text
    /\ edit' = [edit EXCEPT !.text = text]
    /\ UNCHANGED <<panelKeeps, mesh, rotation, planes, held, given>>

\* The field loses the keyboard: the buffer is assigned to the object behind it.
Commit ==
    /\ Gesture("text") /\ edit.kind = "text" /\ Edited # {}
    /\ edit' = Nothing
    /\ mesh' = [e \in DOMAIN mesh |-> IF e \in Edited THEN edit.text ELSE mesh[e]]
    /\ given' = [e \in DOMAIN given |-> IF e = edit.target THEN edit.text ELSE given[e]]
    /\ UNCHANGED <<panelKeeps, rotation, planes, held>>

\* Mutant: the boxes show the rotation even while one of them is dragged.
DegreesReread(e) == ToEulerAngles(rotation[e])

\* What the row's boxes start a frame with: the triple held for it, or else the
\* angles of the rotation.
Degrees(e) == IF e \in DOMAIN held THEN held[e] ELSE ToEulerAngles(rotation[e])

Holding(e, degrees) == [d \in DOMAIN held \cup {e} |-> IF d = e THEN degrees ELSE held[d]]

\* One box of a rotation is taken: from here on the triple is held.
Grab(e, box) ==
    /\ Gesture("drag") /\ edit = Nothing /\ Editable(e, Rotation)
    /\ held' = Holding(e, Degrees(e))
    /\ edit' = [kind |-> "drag", id |-> WidgetId(e, Rotation), path |-> Rotation, target |-> e,
                box |-> box, grabbed |-> Degrees(e), moved |-> 0, wrote |-> FALSE]
    /\ UNCHANGED <<panelKeeps, mesh, rotation, planes, given>>

\* The read is suppressed, never the write.
Drag(by) ==
    /\ Gesture("drag") /\ edit.kind = "drag"
    /\ \E e \in Edited :
          LET degrees == [Degrees(e) EXCEPT ![edit.box] = @ + by] IN
          /\ held' = Holding(e, degrees)
          /\ rotation' = [rotation EXCEPT ![e] = FromEulerAngles(degrees)]
    /\ edit' = [edit EXCEPT !.moved = @ + by, !.wrote = TRUE]
    /\ UNCHANGED <<panelKeeps, mesh, planes, given>>

\* The box is let go: the next frame reads the rotation again.
Release ==
    /\ Gesture("drag") /\ edit.kind = "drag" /\ Edited # {}
    /\ edit' = Nothing
    /\ held' = [e \in DOMAIN held \ Edited |-> held[e]]
    /\ UNCHANGED <<panelKeeps, mesh, rotation, planes, given>>

\* A value typed into one of the camera's planes.
TypePlane(path, distance) ==
    /\ Gesture("planes") /\ edit = Nothing /\ Editable(Camera, path)
    /\ planes' = [planes EXCEPT ![IF path = NearPlane THEN "near" ELSE "far"] = distance]
    /\ UNCHANGED <<panelKeeps, mesh, rotation, panelVars, given>>

PanelStep ==
    \/ PanelIdle
    \/ \E e \in habit.edits : BeginText(e)
    \/ \E text \in Texts : Type(text)
    \/ Commit
    \/ \E e \in habit.edits, box \in 1..3 : Grab(e, box)
    \/ \E by \in {-1, 1} : Drag(by)
    \/ Release
    \/ \E path \in {NearPlane, FarPlane}, distance \in Distances : TypePlane(path, distance)

-----------------------------------------------------------------------------
(* From the world to what is drawn.                                        *)

\* Entities come in the order of their ids.
ById(entities) ==
    LET upTo[e \in 0 .. lastEntityId] ==
            IF e = 0 THEN <<>> ELSE IF e \in entities THEN Append(upTo[e - 1], e) ELSE upTo[e - 1]
    IN upTo[lastEntityId]

\* The first entity of each path not asked for before.
FirstUnasked ==
    {e \in DOMAIN mesh : mesh[e] \notin DOMAIN catalog
                         /\ \A d \in DOMAIN mesh : mesh[d] = mesh[e] => e <= d}

PathsOf(entities) == LET order == ById(entities) IN [i \in DOMAIN order |-> mesh[order[i]]]

\* AcquireMesh gives each path that can be loaded the next handle.  Every path
\* is recorded, one that cannot with the handle of none, and not asked again.
SyncMeshCatalog ==
    /\ At("sync")
    /\ uploaded' = uploaded \o PathsOf({e \in FirstUnasked : mesh[e] \in disk})
    /\ LET Handle(path) == CHOOSE i \in DOMAIN uploaded' : uploaded'[i] = path
       IN catalog' = [path \in DOMAIN catalog \cup {mesh[e] : e \in FirstUnasked} |->
              IF path \in DOMAIN catalog THEN catalog[path] ELSE IF path \in disk THEN Handle(path) ELSE 0]
    /\ UNCHANGED <<inputs, keys, pressed, worldVars, disk, frame, panelVars, given>>

\* From 32768 m on a millimetre is less than half the distance between two
\* floats, and adding it changes nothing.
Coarse == 32768000

PlusSeparation(distance) == IF distance >= Coarse THEN distance ELSE distance + 1

\* Mutant: the planes as the component has them, only kept off zero.
ToExtractedViewUnseparated(camera) ==
    [rotation |-> rotation[camera], near |-> Max({planes.near, 1}), far |-> Max({planes.far, 1})]

ToExtractedView(camera) ==
    LET near == Max({planes.near, 1}) IN
    [rotation |-> rotation[camera], near |-> near, far |-> Max({planes.far, PlusSeparation(near)})]

\* The camera of the lowest id; there is one.
ExtractView == IF Camera \in alive THEN ToExtractedView(Camera) ELSE DefaultView

Find(path) == IF path \in DOMAIN catalog THEN catalog[path] ELSE 0

\* In order of entity, those whose path has a mesh.
ExtractMeshes ==
    LET drawn == ById({e \in DOMAIN mesh : Find(mesh[e]) # 0}) IN
    [i \in DOMAIN drawn |->
        [mesh |-> Find(mesh[drawn[i]]), entity |-> drawn[i],
         position |-> position[drawn[i]], rotation |-> rotation[drawn[i]]]]

ExtractFrame ==
    /\ At("extract")
    /\ frame' = [view |-> ExtractView, meshes |-> ExtractMeshes]
    /\ UNCHANGED <<inputs, keys, pressed, worldVars, disk, catalog, uploaded, panelVars, given>>

Next ==
    \/ InputStep \/ FilesChange \/ SpawnerStep \/ MovementStep \/ CameraStep \/ PanelStep
    \/ SyncMeshCatalog \/ ExtractFrame

Spec == Init /\ [][Next]_vars

-----------------------------------------------------------------------------
(* Properties.                                                             *)

\* What a frame draws is the world as it stands at the frame's end, edits
\* included: no mesh is drawn under another entity's path or placement, a path
\* changed or an entity made in the frame is drawn in it if its file loads, no
\* file is uploaded twice, and one that failed is not tried again.
DrawnAsEdited ==
    (stage = "input" /\ alive # 1..4) =>
        /\ {mesh[e] : e \in DOMAIN mesh} \subseteq DOMAIN catalog
        /\ IsInjective(uploaded)
        /\ {d.entity : d \in Range(frame.meshes)} = {e \in DOMAIN mesh : mesh[e] \in Range(uploaded)}
        /\ \A d \in Range(frame.meshes) :
              /\ uploaded[d.mesh] = mesh[d.entity]
              /\ d.position = position[d.entity] /\ d.rotation = rotation[d.entity]

\* A path becomes what the user typed for that entity, when they have finished
\* and not before, whatever entities come and go while they type.
EditsReachTheirTarget == mesh = given

\* Dragging one box of a rotation turns that angle alone: past the vertical and
\* against the camera's keys the rotation is what the boxes said when one was
\* grabbed, that one changed by the drags since.
DraggingTurnsOneAngle ==
    (edit.kind = "drag" /\ stage = "sync" /\ edit.wrote) =>
        rotation[edit.target] = FromEulerAngles([edit.grabbed EXCEPT ![edit.box] = @ + edit.moved])

\* Whatever was typed into the camera, the frame's view has a near plane in
\* front of the eye and a far one behind it, but for near planes so far off
\* that the separation is lost in rounding: those two may coincide.
ViewCanBeProjected ==
    /\ frame.view.near > 0
    /\ frame.view.far >= frame.view.near
    /\ frame.view.near < Coarse => frame.view.far > frame.view.near
=============================================================================
