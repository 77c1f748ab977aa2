-------------------------------- MODULE Ecs --------------------------------
(***************************************************************************)
(* PlaygroundEngine/src/Ecs: entities and their components, held in two    *)
(* indices that every operation has to keep in step.  A system reaches     *)
(* components through either: by type (GetComponents, TryGetComponent) or  *)
(* by entity (GetEntityComponents).                                        *)
(*                                                                         *)
(* The maps are total functions with NoInstance where the code's map has   *)
(* no entry; a missing bucket of _componentsPerType and an empty one read  *)
(* the same (ComponentsOfType), and are the same here.  `alive` is the key *)
(* set of _componentsPerEntity.                                            *)
(*                                                                         *)
(* The operations state preconditions as contracts, but the shipped        *)
(* compiler drops them from templates and from functions defined in the    *)
(* implementation unit (EcsTests.cpp, "Marked should_fail"), and a Release *)
(* build ignores them: they guard nothing here either, and the operations  *)
(* do what their bodies do for any entity handle a caller still has.       *)
(***************************************************************************)
EXTENDS Naturals

CONSTANTS
    Types,          \* component types
    MaxEntities,    \* bound on AddEntity: ids are 1..MaxEntities
    MaxInstances,   \* bound on the components ever made
    NoInstance      \* not a component

ASSUME EcsAssumption ==
    /\ MaxEntities \in Nat /\ MaxInstances \in Nat
    /\ NoInstance \notin 1..MaxInstances

Ids == 1..MaxEntities
Instances == 1..MaxInstances

VARIABLES
    lastEntityId,         \* _lastEntityId
    alive,                \* the keys of _componentsPerEntity
    componentsPerEntity,  \* [Ids -> [Types -> instance]]
    componentsPerType,    \* [Types -> [Ids -> instance]]
    made                  \* components made so far, each a new instance

vars == <<lastEntityId, alive, componentsPerEntity, componentsPerType, made>>

Init ==
    /\ lastEntityId = 0
    /\ alive = {}
    /\ componentsPerEntity = [e \in Ids |-> [t \in Types |-> NoInstance]]
    /\ componentsPerType = [t \in Types |-> [e \in Ids |-> NoInstance]]
    /\ made = 0

\* Handles a caller can have: every id AddEntity ever returned.
Handles == 1..lastEntityId

\* Not the code: the id of a destroyed entity is given out again.
AddEntityFillsGap ==
    \E e \in Ids \ alive :
        /\ e <= lastEntityId + 1
        /\ alive' = alive \cup {e}
        /\ lastEntityId' = IF e > lastEntityId THEN e ELSE lastEntityId
        /\ UNCHANGED <<componentsPerEntity, componentsPerType, made>>

AddEntity ==
    /\ lastEntityId < MaxEntities
    /\ lastEntityId' = lastEntityId + 1
    /\ alive' = alive \cup {lastEntityId + 1}
    /\ UNCHANGED <<componentsPerEntity, componentsPerType, made>>

\* A dead handle gets nullptr and nothing else.
AddComponentToEntity(e, t) ==
    /\ e \in alive
    /\ made < MaxInstances
    /\ made' = made + 1
    /\ componentsPerType' = [componentsPerType EXCEPT ![t][e] = made + 1]
    /\ componentsPerEntity' = [componentsPerEntity EXCEPT ![e][t] = made + 1]
    /\ UNCHANGED <<lastEntityId, alive>>

\* Not the code: the buckets keep the components of a destroyed entity.
DestroyEntityKeepsBuckets(e) ==
    /\ e \in alive
    /\ alive' = alive \ {e}
    /\ componentsPerEntity' = [componentsPerEntity EXCEPT ![e] = [t \in Types |-> NoInstance]]
    /\ UNCHANGED <<lastEntityId, componentsPerType, made>>

\* The by-type buckets to clear are found through the entity's own row.
DestroyEntity(e) ==
    /\ e \in alive
    /\ componentsPerType' = [t \in Types |->
           IF componentsPerEntity[e][t] # NoInstance
           THEN [componentsPerType[t] EXCEPT ![e] = NoInstance]
           ELSE componentsPerType[t]]
    /\ alive' = alive \ {e}
    /\ componentsPerEntity' = [componentsPerEntity EXCEPT ![e] = [t \in Types |-> NoInstance]]
    /\ UNCHANGED <<lastEntityId, made>>

\* Not the code: the whole bucket of the type is erased.
DestroyComponentErasesBucket(e, t) ==
    /\ e \in Handles
    /\ componentsPerType' = [componentsPerType EXCEPT ![t] = [f \in Ids |-> NoInstance]]
    /\ componentsPerEntity' = IF e \in alive
                              THEN [componentsPerEntity EXCEPT ![e][t] = NoInstance]
                              ELSE componentsPerEntity
    /\ UNCHANGED <<lastEntityId, alive, made>>

\* Also called with a dead handle, or a type the entity does not carry.
DestroyComponent(e, t) ==
    /\ e \in Handles
    /\ componentsPerType' = [componentsPerType EXCEPT ![t][e] = NoInstance]
    /\ componentsPerEntity' = IF e \in alive
                              THEN [componentsPerEntity EXCEPT ![e][t] = NoInstance]
                              ELSE componentsPerEntity
    /\ UNCHANGED <<lastEntityId, alive, made>>

Next ==
    \/ AddEntity
    \/ \E e \in Ids : DestroyEntity(e)
    \/ \E e \in Ids, t \in Types : AddComponentToEntity(e, t) \/ DestroyComponent(e, t)

Spec == Init /\ [][Next]_vars

-----------------------------------------------------------------------------
\* The queries: by type and entity, by type, and by entity.
TryGetComponent(t, e) == componentsPerType[t][e]
GetComponentsWithEntities(t) == {e \in Ids : componentsPerType[t][e] # NoInstance}
GetEntityComponents(e) == {componentsPerEntity[e][t] : t \in Types} \ {NoInstance}

-----------------------------------------------------------------------------
\* Ids and instances are what AddEntity and make_shared have given out.
TypeOK ==
    /\ lastEntityId \in 0..MaxEntities
    /\ alive \subseteq Handles
    /\ componentsPerEntity \in [Ids -> [Types -> Instances \cup {NoInstance}]]
    /\ componentsPerType \in [Types -> [Ids -> Instances \cup {NoInstance}]]
    /\ made \in 0..MaxInstances

\* The two indices are one relation seen from two sides: through every sequence
\* of additions, removals and stale handles, a query by type finds a component
\* exactly when its entity shows it, and a dead entity is found by neither.
IndicesAgree ==
    \A e \in Ids :
        /\ GetEntityComponents(e) = {i \in Instances : \E t \in Types : TryGetComponent(t, e) = i}
        /\ \A t \in Types :
              /\ e \in GetComponentsWithEntities(t) => e \in alive
              /\ TryGetComponent(t, e) = componentsPerEntity[e][t]

\* A destroyed entity never comes back: a handle kept across its destruction
\* can not come to mean another entity.
DeadStaysDead ==
    [][\A e \in Handles : e \notin alive => e \notin alive']_vars

\* What the queries by type see is a single table keyed by (entity, type), where
\* an id is given out once and a component belongs to one entity.
Seen == [e \in Ids |-> [t \in Types |-> TryGetComponent(t, e)]]
Table == INSTANCE ComponentTable WITH live <- alive, used <- Handles, carries <- Seen
ImplementsTable == Table!Spec

\* Ecs.cppm: "a second add is a caller bug rather than a silent replacement
\* of the first", and EcsTests.cpp: "an entity carries at most one component
\* of a type".  A component a system already holds is never replaced.
NoSilentReplacement ==
    [][\A e \in Ids, t \in Types :
        TryGetComponent(t, e) # NoInstance
            => TryGetComponent(t, e)' \in {TryGetComponent(t, e), NoInstance}]_vars
=============================================================================
