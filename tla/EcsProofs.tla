----------------------------- MODULE EcsProofs -----------------------------
(***************************************************************************)
(* Ecs for any component types and any number of entities and components:  *)
(* the indices agree, no handle is given a second entity, and the two maps *)
(* together are the single table of ComponentTable.                        *)
(***************************************************************************)
EXTENDS Ecs, TLAPS

\* What a query by type finds is what the entity's own row holds.
SameRows == \A e \in Ids, t \in Types : componentsPerType[t][e] = componentsPerEntity[e][t]

\* A row that is gone holds nothing.
DeadRowsEmpty == \A e \in Ids, t \in Types : e \notin alive => componentsPerEntity[e][t] = NoInstance

\* Whatever a row holds has been made, so the next one made is new to all.
OnlyMade == \A e \in Ids, t \in Types : componentsPerEntity[e][t] \in 1..made \cup {NoInstance}

IInv == TypeOK /\ SameRows /\ DeadRowsEmpty /\ OnlyMade

-----------------------------------------------------------------------------
\* The indices start empty, with no entity.
LEMMA InitIInv == Init => IInv
  BY EcsAssumption DEF Init, IInv, TypeOK, SameRows, DeadRowsEmpty, OnlyMade, Handles, Ids, Instances

\* AddEntity keeps the invariant: the new row is an empty one.
LEMMA AddEntityKeeps == ASSUME IInv, AddEntity PROVE IInv'
  BY EcsAssumption DEF AddEntity, IInv, TypeOK, SameRows, DeadRowsEmpty, OnlyMade, Handles, Ids

\* AddComponentToEntity keeps the invariant: it writes one instance, the one
\* just made, to both maps.
LEMMA AddComponentKeeps ==
  ASSUME IInv, NEW e \in Ids, NEW t \in Types, AddComponentToEntity(e, t) PROVE IInv'
<1>1. made + 1 \in Instances /\ made \in Nat
  BY EcsAssumption DEF IInv, TypeOK, Instances, AddComponentToEntity
<1>2. TypeOK'
  BY <1>1, EcsAssumption DEF IInv, TypeOK, AddComponentToEntity, Handles, Instances
<1>3. SameRows' /\ DeadRowsEmpty'
  BY <1>1 DEF IInv, TypeOK, SameRows, DeadRowsEmpty, AddComponentToEntity
<1>4. OnlyMade'
  <2>1. \A f \in Ids, u \in Types :
            componentsPerEntity'[f][u] = IF f = e /\ u = t THEN made + 1 ELSE componentsPerEntity[f][u]
    BY DEF IInv, TypeOK, AddComponentToEntity
  <2>2. made' = made + 1
    BY DEF AddComponentToEntity
  <2>. QED  BY <1>1, <2>1, <2>2 DEF IInv, OnlyMade
<1>. QED  BY <1>2, <1>3, <1>4 DEF IInv

\* DestroyEntity keeps the invariant: its row names every bucket to clear.
LEMMA DestroyEntityKeeps ==
  ASSUME IInv, NEW e \in Ids, DestroyEntity(e) PROVE IInv'
<1>1. TypeOK'
  BY DEF IInv, TypeOK, DestroyEntity, Handles
<1>2. SameRows'
  <2>1. \A f \in Ids, u \in Types :
            componentsPerEntity'[f][u] = IF f = e THEN NoInstance ELSE componentsPerEntity[f][u]
    BY DEF IInv, TypeOK, DestroyEntity
  <2>2. \A f \in Ids, u \in Types :
            componentsPerType'[u][f] = IF f = e /\ componentsPerEntity[e][u] # NoInstance
                                       THEN NoInstance ELSE componentsPerType[u][f]
    BY DEF IInv, TypeOK, DestroyEntity
  <2>. QED  BY <2>1, <2>2 DEF IInv, SameRows
<1>3. DeadRowsEmpty' /\ OnlyMade'
  BY DEF IInv, TypeOK, DeadRowsEmpty, OnlyMade, DestroyEntity
<1>. QED  BY <1>1, <1>2, <1>3 DEF IInv

\* DestroyComponent keeps the invariant, for a stale handle too.
LEMMA DestroyComponentKeeps ==
  ASSUME IInv, NEW e \in Ids, NEW t \in Types, DestroyComponent(e, t) PROVE IInv'
<1>1. TypeOK'
  BY DEF IInv, TypeOK, DestroyComponent, Handles
<1>2. SameRows' /\ DeadRowsEmpty'
  BY DEF IInv, TypeOK, SameRows, DeadRowsEmpty, DestroyComponent
<1>3. OnlyMade'
  BY DEF IInv, TypeOK, OnlyMade, DestroyComponent
<1>. QED  BY <1>1, <1>2, <1>3 DEF IInv

\* The invariant holds in every state.
LEMMA Invariant == Spec => []IInv
<1>1. IInv /\ [Next]_vars => IInv'
  <2>. SUFFICES ASSUME IInv, [Next]_vars PROVE IInv'
    OBVIOUS
  <2>1. CASE AddEntity
    BY <2>1, AddEntityKeeps
  <2>2. CASE \E e \in Ids : DestroyEntity(e)
    BY <2>2, DestroyEntityKeeps
  <2>3. CASE \E e \in Ids, t \in Types : AddComponentToEntity(e, t)
    BY <2>3, AddComponentKeeps
  <2>4. CASE \E e \in Ids, t \in Types : DestroyComponent(e, t)
    BY <2>4, DestroyComponentKeeps
  <2>5. CASE UNCHANGED vars
    BY <2>5 DEF vars, IInv, TypeOK, SameRows, DeadRowsEmpty, OnlyMade, Handles
  <2>. QED  BY <2>1, <2>2, <2>3, <2>4, <2>5 DEF Next
<1>. QED  BY InitIInv, <1>1, PTL DEF Spec

-----------------------------------------------------------------------------
\* Type correctness of Ecs.
THEOREM TypeCorrect == Spec => []TypeOK
<1>1. IInv => TypeOK
  BY DEF IInv
<1>. QED  BY Invariant, <1>1, PTL

\* Ecs' two maps never disagree: a query by type finds a component exactly
\* when its entity shows it, and finds none of a destroyed entity.
THEOREM IndicesStayInStep == Spec => []IndicesAgree
<1>1. ASSUME IInv PROVE IndicesAgree
  <2>. SUFFICES ASSUME NEW e \in Ids
       PROVE  /\ GetEntityComponents(e) = {i \in Instances : \E t \in Types : TryGetComponent(t, e) = i}
              /\ \A t \in Types :
                    /\ e \in GetComponentsWithEntities(t) => e \in alive
                    /\ TryGetComponent(t, e) = componentsPerEntity[e][t]
    BY DEF IndicesAgree
  <2>1. \A t \in Types : /\ TryGetComponent(t, e) = componentsPerEntity[e][t]
                         /\ componentsPerEntity[e][t] \in Instances \cup {NoInstance}
    BY <1>1 DEF IInv, TypeOK, SameRows, TryGetComponent
  <2>2. NoInstance \notin Instances
    BY EcsAssumption DEF Instances
  <2>3. GetEntityComponents(e) = {i \in Instances : \E t \in Types : TryGetComponent(t, e) = i}
    BY <2>1, <2>2 DEF GetEntityComponents
  <2>4. \A t \in Types : e \in GetComponentsWithEntities(t) => e \in alive
    BY <1>1 DEF IInv, SameRows, DeadRowsEmpty, GetComponentsWithEntities
  <2>. QED  BY <2>1, <2>3, <2>4
<1>2. IInv => IndicesAgree
  BY <1>1
<1>. QED  BY Invariant, <1>2, PTL

\* AddEntity never gives out an id a second time, so a handle kept across the
\* destruction of its entity stays dead.
THEOREM HandlesStayDead == Spec => DeadStaysDead
<1>1. IInv /\ [Next]_vars => [\A e \in Handles : e \notin alive => e \notin alive']_vars
  <2>. SUFFICES ASSUME IInv, Next, NEW e \in Handles, e \notin alive PROVE e \notin alive'
    OBVIOUS
  <2>1. e # lastEntityId + 1
    BY DEF IInv, TypeOK, Handles
  <2>. QED  BY <2>1 DEF Next, AddEntity, AddComponentToEntity, DestroyEntity, DestroyComponent
<1>. QED  BY Invariant, <1>1, PTL DEF Spec, DeadStaysDead

\* Ecs implements the table: each operation is one of the table's, on what the
\* queries by type see, or leaves that as it was.
THEOREM EcsImplementsTable == Spec => ImplementsTable
<1>1. Init => Table!Init
  BY EcsAssumption DEF Init, Table!Init, Table!Nothing, Handles, Seen, TryGetComponent
<1>2. ASSUME IInv, [Next]_vars PROVE [Table!Next]_(Table!vars)
  <2>1. CASE AddEntity
    <3>1. lastEntityId + 1 \in Ids \ Handles
      BY <1>2, <2>1, EcsAssumption DEF IInv, TypeOK, AddEntity, Ids, Handles
    <3>2. Handles' = Handles \cup {lastEntityId + 1}
      <4>1. lastEntityId \in Nat /\ lastEntityId' = lastEntityId + 1
        BY <1>2, <2>1, EcsAssumption DEF IInv, TypeOK, AddEntity
      <4>. QED  BY <4>1 DEF Handles
    <3>3. Seen' = Seen
      BY <2>1 DEF AddEntity, Seen, TryGetComponent
    <3>. QED  BY <2>1, <3>1, <3>2, <3>3 DEF AddEntity, Table!Next, Table!Create
  <2>2. ASSUME NEW e \in Ids, NEW t \in Types, AddComponentToEntity(e, t)
        PROVE  Table!Attach
    <3>1. made + 1 \in Instances /\ \A f \in Ids, u \in Types : Seen[f][u] # made + 1
      BY <1>2, <2>2, EcsAssumption
      DEF IInv, TypeOK, SameRows, OnlyMade, AddComponentToEntity, Instances, Seen, TryGetComponent
    <3>2. Seen' = [Seen EXCEPT ![e][t] = made + 1]
      BY <1>2, <2>2 DEF IInv, TypeOK, AddComponentToEntity, Seen, TryGetComponent
    <3>3. e \in alive /\ alive' = alive /\ Handles' = Handles
      BY <2>2 DEF AddComponentToEntity, Handles
    <3>. QED  BY <3>1, <3>2, <3>3 DEF Table!Attach
  <2>3. ASSUME NEW e \in Ids, DestroyEntity(e)
        PROVE  Table!Destroy
    <3>1. Seen' = [Seen EXCEPT ![e] = [t \in Types |-> NoInstance]]
      BY <1>2, <2>3, SMTT(30) DEF IInv, TypeOK, SameRows, DestroyEntity, Seen, TryGetComponent
    <3>2. e \in alive /\ alive' = alive \ {e} /\ Handles' = Handles
      BY <2>3 DEF DestroyEntity, Handles
    <3>3. e \in alive /\ UNCHANGED Handles
      BY <3>2
    <3>. QED  BY <3>1, <3>2, <3>3 DEF Table!Destroy, Table!Nothing
  <2>4. ASSUME NEW e \in Ids, NEW t \in Types, DestroyComponent(e, t)
        PROVE  Table!Detach \/ UNCHANGED Table!vars
    <3>1. Seen' = [Seen EXCEPT ![e][t] = NoInstance]
      BY <1>2, <2>4 DEF IInv, TypeOK, DestroyComponent, Seen, TryGetComponent
    <3>2. alive' = alive /\ Handles' = Handles
      BY <2>4 DEF DestroyComponent, Handles
    <3>3. CASE e \in alive
      BY <3>1, <3>2, <3>3 DEF Table!Detach
    <3>4. CASE e \notin alive
      <4>1. Seen[e][t] = NoInstance
        BY <1>2, <3>4 DEF IInv, SameRows, DeadRowsEmpty, Seen, TryGetComponent
      <4>2. Seen \in [Ids -> [Types -> Instances \cup {NoInstance}]]
        BY <1>2 DEF IInv, TypeOK, Seen, TryGetComponent
      <4>3. Seen' = Seen
        BY <3>1, <4>1, <4>2
      <4>. QED  BY <3>2, <4>3 DEF Table!vars
    <3>. QED  BY <3>3, <3>4
  <2>5. CASE UNCHANGED vars
    BY <2>5 DEF vars, Table!vars, Handles, Seen, TryGetComponent
  <2>. QED  BY <1>2, <2>1, <2>2, <2>3, <2>4, <2>5 DEF Next, Table!Next
<1>. QED  BY Invariant, <1>1, <1>2, PTL DEF Spec, ImplementsTable, Table!Spec
=============================================================================
