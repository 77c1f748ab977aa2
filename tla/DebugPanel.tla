----------------------------- MODULE DebugPanel -----------------------------
(***************************************************************************)
(* PlaygroundEngine/src/DebugUI/DebugPanelDrawer.cpp: the table of rows    *)
(* drawn for an object whatever its type, walked through borrows.  A row   *)
(* has the widget's id (the path of labels pushed around it, all ImGui     *)
(* knows a widget by), the object behind it, the widget, and whether it    *)
(* can be edited.  Tree nodes are opened down to Depth.                    *)
(***************************************************************************)
EXTENDS Reflected

CONSTANT Depth  \* bound: how deep the reader opens the tree

Row(id, ref, widget, editable) ==
    <<[id |-> id, at |-> ref.at, type |-> ref.type, widget |-> widget, editable |-> editable]>>

\* Rows in order, each element of a sequence giving some of them.
Rows(items, Draw(_)) == FlattenSeq([i \in DOMAIN items |-> Draw(items[i])])

Primitives ==
    {"bool", "float", "double", "int8", "uint8", "int16", "uint16", "int32", "uint32",
     "int64", "uint64", "longLong", "unsignedLongLong"}
MathRows == [Quaternion |-> "rotation", Vector3 |-> "vector", Vector4 |-> "vector"]

DrawDisabledText(id, ref) == Row(id, ref, "shown", FALSE)

\* A text that does not fit the edit buffer, or cannot be assigned, is shown.
DrawString(id, ref) ==
    Row(id, ref, "text", Types[ref.type].assignable /\ ~ref.const)

DrawEnumeration(id, ref) == Row(id, ref, "combo", ~ref.const)

RECURSIVE DrawValue(_, _), DrawAnnotatedFields(_, _)

\* Mutant: fields of a base are drawn under the ids of the derived type's own.
DrawAnnotatedFieldsTogether(id, object) ==
    LET type == Types[object.type]
        DrawBase(base) ==
            IF Types[base].facet = "none"
            THEN DrawAnnotatedFields(id, Upcast(object, base))
            ELSE DrawValue(Append(id, base), Upcast(object, base))
        DrawField(field) ==
            LET ref == GetRef(object, object.type, field) IN
            IF ~Granted(ref) THEN DrawDisabledText(Append(id, field.name), object)
            ELSE DrawValue(Append(id, field.name), ref)
    IN Rows(type.bases, DrawBase)
       \o Rows(SelectSeq(type.fields, LAMBDA f : "annotated" \in f.traits), DrawField)

\* The bases' fields and then the type's own, under ids that keep the two
\* apart; a base with a facet is a value of its own.
DrawAnnotatedFields(id, object) ==
    LET type == Types[object.type]
        DrawBase(base) ==
            LET inside == id \o <<"::", base>> IN
            IF Types[base].facet = "none"
            THEN DrawAnnotatedFields(inside, Upcast(object, base))
            ELSE DrawValue(Append(inside, base), Upcast(object, base))
        DrawField(field) ==
            LET ref == GetRef(object, object.type, field) IN
            IF ~Granted(ref) THEN DrawDisabledText(Append(id, field.name), object)
            ELSE DrawValue(Append(id, field.name), ref)
    IN Rows(type.bases, DrawBase)
       \o Rows(SelectSeq(type.fields, LAMBDA f : "annotated" \in f.traits), DrawField)

DrawFields(id, object) ==
    LET rows == DrawAnnotatedFields(id, object) IN
    IF rows = <<>> THEN DrawDisabledText(id, object) ELSE rows

\* What a tree node shows when it is open.
DrawContents(id, ref) ==
    IF Types[ref.type].kind = "class" /\ Types[ref.type].facet = "none"
    THEN DrawFields(id, ref)
    ELSE DrawValue(Append(id, "value"), ref)

IfOpen(id, rows) == IF Len(id) <= Depth THEN rows ELSE <<>>

DrawSequence(id, ref) ==
    Row(id, ref, "node", FALSE)
    \o IfOpen(id, Rows([i \in 1..Sizes[ref.at] |-> i],
                       LAMBDA i : DrawValue(Append(id, ToString(i)), ElementRef(ref, i))))

DrawPointer(id, ref) ==
    LET pointee == Dereference(ref) IN
    IF ~Granted(pointee) THEN DrawDisabledText(id, ref)
    ELSE Row(id, ref, "node", FALSE) \o IfOpen(id, DrawContents(id, pointee))

\* Dedicated rows by the type's identity, then facets, then structure.
DrawValue(id, ref) ==
    LET type == Types[ref.type] IN
    IF ref.type \in Primitives THEN Row(id, ref, "scalar", ~ref.const)
    ELSE IF ref.type \in DOMAIN MathRows THEN Row(id, ref, MathRows[ref.type], ~ref.const)
    ELSE IF type.facet = "enumeration" THEN DrawEnumeration(id, ref)
    ELSE IF type.facet = "string" THEN DrawString(id, ref)
    ELSE IF type.facet = "sequence" THEN DrawSequence(id, ref)
    ELSE IF type.kind = "pointer" THEN DrawPointer(id, ref)
    ELSE IF type.kind = "class" THEN Row(id, ref, "node", FALSE) \o IfOpen(id, DrawFields(id, ref))
    ELSE DrawDisabledText(id, ref)

DrawObject(object) == DrawContents(<<>>, object)

\* The objects within a component that have a row to edit them by.
EditableWithin(type) ==
    {row.at : row \in {r \in Range(DrawObject(Borrow(type, <<type>>, FALSE))) : r.editable}}
=============================================================================
