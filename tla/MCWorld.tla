------------------------------ MODULE MCWorld ------------------------------
(***************************************************************************)
(* World checked together with two questions that need no steps: what the  *)
(* panel draws for the objects of DebugPanelDrawerTests.cpp and some more, *)
(* and what SelectConstructor answers for every small overload set.  A     *)
(* behaviour plays the game or has one question asked.                     *)
(***************************************************************************)
EXTENDS World, DebugPanel, ConstructorChoice

\* A record type: bases, then fields as <<name, type, traits>>.
Record(bases, fields) ==
    [kind |-> "class", facet |-> "none", bases |-> bases,
     fields |-> [i \in DOMAIN fields |->
         [name |-> fields[i][1], type |-> fields[i][2], traits |-> fields[i][3]]]]
Shown(name, type) == <<name, type, {"annotated"}>>
Plain(kind, facet) == [kind |-> kind, facet |-> facet, bases |-> <<>>, fields |-> <<>>]
Pointer(inner, const) == [inner |-> inner, innerConst |-> const] @@ Plain("pointer", "none")

GameTypes ==
    [Entity |-> Record(<<>>, <<Shown("Id", "int32")>>),
     EntityNameComponent |-> Record(<<"Component">>, <<Shown("Name", "string")>>),
     Transform |-> Record(<<>>, <<Shown("Position", "Vector3"), Shown("Rotation", "Quaternion"),
                                  Shown("Scale", "Vector3")>>),
     Component |-> Record(<<>>, <<>>),
     TransformComponent |-> Record(<<"Component", "Transform">>, <<>>),
     MeshComponent |-> Record(<<"Component">>, <<Shown("MeshPath", "string")>>),
     PlayerControlledComponent |-> Record(<<"Component">>, <<Shown("MoveSpeedMetersPerSecond", "float")>>),
     CameraComponent |-> Record(<<"Component">>, <<Shown("VerticalFieldOfViewDegrees", "float"),
                                    Shown("NearPlaneDistance", "float"), Shown("FarPlaneDistance", "float")>>),
     FreeLookComponent |-> Record(<<"Component">>, <<Shown("TurnSpeedRadiansPerSecond", "float"),
                                      Shown("MoveSpeedMetersPerSecond", "float")>>),
     InputStateComponent |-> Record(<<"Component">>, <<>>)]

TestTypes ==
    [Leaf |-> Record(<<>>, <<Shown("Value", "float"), <<"Hidden", "int32", {}>>>>),
     Origin |-> Record(<<>>, <<Shown("Generation", "int32"), <<"HiddenInBase", "int32", {}>>>>),
     Titled |-> Record(<<"string">>, <<Shown("Rank", "int32")>>),
     Node |-> Record(<<"Origin">>,
         <<Shown("Flag", "bool"), Shown("Count", "int32"), Shown("Direction", "Facing"),
           Shown("Label", "string"), Shown("Values", "vectorOfFloat"), Shown("Child", "Leaf"),
           Shown("Self", "NodePointer"), <<"Frozen", "int32", {"annotated", "const"}>>,
           Shown("Reference", "ConstLeafPointer"), <<"Pinned", "LeafPointer", {"annotated", "const"}>>,
           Shown("Generation", "int32"), Shown("Heading", "Titled"), <<"Unannotated", "int32", {}>>,
           <<"Cache", "Leaf", {"annotated", "mutable"}>>, <<"Bits", "uint8", {"annotated", "bitfield"}>>>>),
     Placement |-> Record(<<>>, <<Shown("Position", "Vector3"), Shown("Tint", "Vector4"),
                                  Shown("Rotation", "Quaternion"), Shown("Pose", "Transform")>>),
     NodePointer |-> Pointer("Node", FALSE),
     LeafPointer |-> Pointer("Leaf", FALSE),
     ConstLeafPointer |-> Pointer("Leaf", TRUE),
     Facing |-> Plain("enum", "enumeration"),
     vectorOfFloat |-> [inner |-> "float", mutableElements |-> TRUE] @@ Plain("class", "sequence"),
     setOfInt |-> [inner |-> "int32", mutableElements |-> FALSE] @@ Plain("class", "sequence"),
     string |-> [assignable |-> TRUE] @@ Plain("class", "string")]

MCTypes ==
    GameTypes @@ TestTypes
    @@ [type \in {"Vector3", "Vector4", "Quaternion"} |-> Plain("class", "none")]
    @@ [type \in Primitives |-> Plain("scalar", "none")]

\* The objects: each name is the address of a whole one, with its type and
\* whether it is defined const.
Objects ==
    [node |-> [type |-> "Node", const |-> FALSE],
     sealed |-> [type |-> "Node", const |-> TRUE],
     placement |-> [type |-> "Placement", const |-> FALSE],
     fixed |-> [type |-> "Placement", const |-> TRUE],
     titled |-> [type |-> "Titled", const |-> FALSE],
     text |-> [type |-> "string", const |-> TRUE],
     values |-> [type |-> "vectorOfFloat", const |-> FALSE],
     set |-> [type |-> "setOfInt", const |-> FALSE]]

MCNull == <<"null">>
MCPointsTo ==
    <<"node", "Self">> :> <<"node">> @@ <<"sealed", "Self">> :> <<"node">>
    @@ <<"node", "Reference">> :> <<"node", "Child">>
    @@ <<"sealed", "Reference">> :> <<"sealed", "Child">>
    @@ <<"node", "Pinned">> :> <<"node", "Child">> @@ <<"sealed", "Pinned">> :> MCNull
MCSizes == <<"node", "Values">> :> 2 @@ <<"sealed", "Values">> :> 1 @@ <<"values">> :> 3 @@ <<"set">> :> 2

\* The rows that the game's user edits are rows of the panel.
ASSUME RowsAssumption == \A path \in EditablePaths : path \in EditableWithin(Head(path))

NoQuestion == [about |-> "nothing"]

\* A const object is only ever seen as one; any other may be.
PanelQuestions ==
    {[about |-> "object", name |-> name, const |-> const] : name \in DOMAIN Objects, const \in BOOLEAN}
    \ {[about |-> "object", name |-> name, const |-> FALSE] :
          name \in {n \in DOMAIN Objects : Objects[n].const}}

\* Constructors of two parameters of one type, which can or cannot be copied.
Constructors(passings) ==
    {[callable |-> TRUE, params |-> <<[type |-> "T", passing |-> first], [type |-> "T", passing |-> second]>>] :
        first, second \in passings}
Arguments == {[type |-> "T", at |-> <<"t">>, const |-> const, movable |-> movable] : const, movable \in BOOLEAN}
OverloadSets ==
    UNION {kSubset(k, Constructors({"value", "constRef", "ref", "rvalueRef"})) : k \in 1..3}
    \cup UNION {kSubset(k, Constructors({"moveOnly", "constRef", "ref", "rvalueRef"})) : k \in 1..2}
CallQuestions ==
    {[about |-> "call", constructors |-> SetToSeq(set), args |-> <<first, second>>] :
        set \in OverloadSets, first, second \in Arguments}

MCInit ==
    /\ Init
    /\ \/ asked = NoQuestion
       \/ disk = Texts /\ habit.edits = {} /\ asked \in PanelQuestions \cup CallQuestions

Playing == asked = NoQuestion /\ UNCHANGED asked

\* Next, but for behaviours that only have a question asked.
MCNext ==
    \/ Playing /\ InputStep
    \/ Playing /\ FilesChange
    \/ Playing /\ SpawnerStep
    \/ Playing /\ MovementStep
    \/ Playing /\ CameraStep
    \/ Playing /\ PanelIdle
    \/ Playing /\ \E e \in habit.edits : BeginText(e)
    \/ Playing /\ \E text \in Texts : Type(text)
    \/ Playing /\ Commit
    \/ Playing /\ \E e \in habit.edits, box \in 1..3 : Grab(e, box)
    \/ Playing /\ \E by \in {-1, 1} : Drag(by)
    \/ Playing /\ Release
    \/ Playing /\ \E path \in {NearPlane, FarPlane}, distance \in Distances : TypePlane(path, distance)
    \/ Playing /\ SyncMeshCatalog
    \/ Playing /\ ExtractFrame
    \/ asked # NoQuestion /\ UNCHANGED <<vars, asked>>

MCSpec == MCInit /\ [][MCNext]_<<vars, asked>>

MCDistances == {-1, 0, 1, 50, 32768000}
MCEditablePaths == {MeshPath, Rotation, NearPlane, FarPlane}

MCHabits ==
    {[keys |-> {{"P"}, {"L"}, {"M"}, {"P", "L", "M"}}, gestures |-> {"text"}, edits |-> {1, 6, 7}, inputs |-> 6],
     [keys |-> {{"Left"}, {"Up"}, {"W"}}, gestures |-> {"drag"}, edits |-> {2, 4}, inputs |-> 5],
     [keys |-> {{"W", "S"}}, gestures |-> {"planes", "files"}, edits |-> {}, inputs |-> 3]}

-----------------------------------------------------------------------------
\* Whether the object at an address is defined const: walked from the whole
\* object down, a const member makes everything in it const and a mutable one
\* nothing.
DefinedConst(address) ==
    LET whole == [type |-> Objects[Head(address)].type, const |-> Objects[Head(address)].const]
        FieldNamed(type, name) == CHOOSE f \in Range(Types[type].fields) : f.name = name
        Enter(object, step) ==
            IF step \in Range(Types[object.type].bases) THEN [object EXCEPT !.type = step]
            ELSE IF Types[object.type].facet = "sequence"
            THEN [type |-> Types[object.type].inner,
                  const |-> object.const \/ ~Types[object.type].mutableElements]
            ELSE LET field == FieldNamed(object.type, step) IN
                 [type |-> field.type,
                  const |-> ("const" \in field.traits \/ object.const) /\ "mutable" \notin field.traits]
    IN FoldLeft(Enter, whole, Tail(address)).const

\* Whatever the panel is given to draw, no widget of it edits an object defined
\* const or one reached through a pointer to const, and no two widgets it can
\* edit share the id that ImGui knows their edit by.
PanelEditsWhatItMay ==
    asked.about = "object" =>
        LET rows == SelectSeq(DrawObject(Borrow(Objects[asked.name].type, <<asked.name>>, asked.const)),
                              LAMBDA row : row.editable)
        IN /\ \A row \in Range(rows) : ~DefinedConst(row.at) /\ "Reference" \notin Range(row.id)
           /\ \A i, j \in DOMAIN rows : rows[i].id = rows[j].id => i = j
=============================================================================
