----------------------------- MODULE Reflected -----------------------------
(***************************************************************************)
(* PlaygroundEngine/src/Reflection: access to objects whose type is only   *)
(* known at run time.  A borrow (TypedRef) names a type and an object, and *)
(* remembers whether the object may be written through it and whether the  *)
(* caller offers to have it moved from.  Every operation answers with a    *)
(* borrow, a value, or the reason it refused.                              *)
(*                                                                         *)
(* A type is a record: its kind, its facet, its bases and fields in order, *)
(* and, where it has them, the type a pointer points to or a sequence      *)
(* holds.  An object's address is the path of names that leads to it.      *)
(***************************************************************************)
EXTENDS Integers, SequencesExt

CONSTANTS
    Types,     \* type name -> its description
    PointsTo,  \* address of a pointer -> the address it holds
    Sizes,     \* address of a sequence -> how many elements it has
    Null       \* the null address

Borrow(type, at, const) == [type |-> type, at |-> at, const |-> const, movable |-> FALSE]
Refused(reason) == [refused |-> reason]
Granted(answer) == "refused" \notin DOMAIN answer

\* A base subobject, read-only when the derived object is.
Upcast(object, base) == Borrow(base, Append(object.at, base), object.const)

\* Mutable members and referents of references escape the object's constness.
WritableThroughConstObject(field) == field.traits \cap {"mutable", "reference"} # {}

CheckDeclaringInstance(object, owner) ==
    IF object.at = Null THEN Refused("NullObject")
    ELSE IF object.type # owner THEN Refused("ObjectTypeMismatch")
    ELSE object

\* Mutant: an object that is read-only makes all of its fields so.
GetRefWithinObject(object, owner, field) ==
    LET checked == CheckDeclaringInstance(object, owner) IN
    IF ~Granted(checked) THEN checked
    ELSE IF "bitfield" \in field.traits THEN Refused("NotAddressable")
    ELSE Borrow(field.type, Append(object.at, field.name), object.const)

GetRef(object, owner, field) ==
    LET checked == CheckDeclaringInstance(object, owner) IN
    IF ~Granted(checked) THEN checked
    ELSE IF "bitfield" \in field.traits THEN Refused("NotAddressable")
    ELSE Borrow(field.type, Append(object.at, field.name),
                "const" \in field.traits \/ (object.const /\ ~WritableThroughConstObject(field)))

\* SetValue: whether the field's value may be replaced; getters and setters of a
\* bitfield exist although it has no address.
SetValue(object, owner, field) ==
    LET checked == CheckDeclaringInstance(object, owner) IN
    IF ~Granted(checked) THEN checked
    ELSE IF object.const /\ ~WritableThroughConstObject(field) THEN Refused("ConstViolation")
    ELSE IF "const" \in field.traits THEN Refused("NotWritable")
    ELSE object

\* GetValue copies into out.
GetValue(object, owner, out) ==
    LET checked == CheckDeclaringInstance(object, owner) IN
    IF Granted(checked) /\ out.const THEN Refused("ConstViolation") ELSE checked

\* TypedRef::Dereference: the pointee's own constness counts, never the
\* pointer's.  What it points at is looked at before the pointer is read.
Dereference(ref) ==
    LET pointer == Types[ref.type] IN
    IF pointer.kind # "pointer" THEN Refused("NotAPointer")
    ELSE IF Types[pointer.inner].kind = "function" THEN Refused("NotAnObjectPointer")
    ELSE IF ref.at = Null THEN Refused("NullObject")
    ELSE IF PointsTo[ref.at] = Null THEN Refused("NullPointer")
    ELSE Borrow(pointer.inner, PointsTo[ref.at], pointer.innerConst)

\* An element of a sequence, read-only when the sequence is or its type gives no
\* other access.
ElementRef(ref, index) ==
    Borrow(Types[ref.type].inner, Append(ref.at, ToString(index)),
           ref.const \/ ~Types[ref.type].mutableElements)

\* The facets' assignment.
AssignThroughFacet(ref, owner) ==
    LET checked == CheckDeclaringInstance(ref, owner) IN
    IF Granted(checked) /\ ref.const THEN Refused("ConstViolation") ELSE checked

-----------------------------------------------------------------------------
(* Calls.  A parameter is a type and how it is declared: "value",          *)
(* "moveOnly" (by value, of a type that cannot be copied), "constRef",     *)
(* "ref" or "rvalueRef".  A callable has a sequence of them.               *)

BindsByMove(param) == param.passing \in {"moveOnly", "rvalueRef"}
RequiresMutable(param) == param.passing = "ref" \/ BindsByMove(param)

\* What each argument must satisfy for the call to go ahead.
CheckArgument(param, arg) ==
    IF arg.type # param.type THEN Refused("TypeMismatch")
    ELSE IF arg.at = Null THEN Refused("NullArgument")
    ELSE IF RequiresMutable(param) /\ arg.const THEN Refused("ConstViolation")
    ELSE IF BindsByMove(param) /\ ~arg.movable THEN Refused("NotMovable")
    ELSE arg

BindsAll(params, args) == \A i \in DOMAIN params : Granted(CheckArgument(params[i], args[i]))

\* FunctionInfo::Invoke, up to the call of the thunk.
Invoke(function, object, args, ret) ==
    IF ~function.invocable THEN Refused("NotInvocable")
    ELSE IF ~function.static /\ object.at = Null THEN Refused("ObjectRequired")
    ELSE IF ~function.static /\ object.type # function.owner THEN Refused("ObjectTypeMismatch")
    ELSE IF ~function.static /\ object.const /\ ~function.const THEN Refused("ConstViolation")
    ELSE IF ret.const THEN Refused("ConstViolation")
    ELSE IF Len(args) # Len(function.params) THEN Refused("ArityMismatch")
    ELSE IF ~BindsAll(function.params, args) THEN Refused("Argument")
    ELSE object

SuitsArgument(param, arg) == BindsByMove(param) = (arg.movable /\ ~arg.const)

\* Better in at least one parameter and worse in none.
BindsBetterThan(left, right, args) ==
    LET suits(constructor, i) == SuitsArgument(constructor.params[i], args[i]) IN
    /\ \A i \in DOMAIN args : suits(right, i) => suits(left, i)
    /\ \E i \in DOMAIN args : suits(left, i) /\ ~suits(right, i)

\* The binder converts nothing: same number, same types.
MatchesArguments(constructor, args) ==
    /\ Len(constructor.params) = Len(args)
    /\ \A i \in DOMAIN args : constructor.params[i].type = args[i].type

\* A constructor that could be called with the arguments.
IsCandidate(constructor, args) == constructor.callable /\ MatchesArguments(constructor, args)

\* The best of a sweep: a candidate takes over from one it binds better than.
Sweep(constructors, args) ==
    LET best[i \in 0 .. Len(constructors)] ==
            IF i = 0 THEN Refused("NoMatchingConstructor")
            ELSE IF /\ IsCandidate(constructors[i], args)
                    /\ Granted(best[i - 1]) => BindsBetterThan(constructors[i], best[i - 1], args)
            THEN constructors[i]
            ELSE best[i - 1]
    IN best[Len(constructors)]

\* Mutant: the best of the sweep is returned without a second look.
SelectConstructorUnconfirmed(constructors, args) == Sweep(constructors, args)

\* The candidate that beats every other, found in one sweep and then confirmed.
SelectConstructor(constructors, args) ==
    LET best == Sweep(constructors, args)
        rivals == {c \in Range(constructors) : IsCandidate(c, args) /\ c # best}
    IN IF Granted(best) /\ \E c \in rivals : ~BindsBetterThan(best, c, args)
       THEN Refused("AmbiguousConstructor") ELSE best

\* TypeInfo::Construct.
Construct(constructors, args) ==
    LET selected == SelectConstructor(constructors, args) IN
    IF ~Granted(selected) THEN selected
    ELSE IF ~BindsAll(selected.params, args) THEN Refused("Argument")
    ELSE selected
=============================================================================
