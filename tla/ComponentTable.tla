--------------------------- MODULE ComponentTable ---------------------------
(***************************************************************************)
(* What an entity-component store promises: one table with the pair        *)
(* (entity, component type) as its key.  Entities come into being with ids *)
(* that were never used before, and leave with everything they carry.      *)
(***************************************************************************)
CONSTANTS Types, Ids, Instances, NoInstance

VARIABLES
    live,      \* the entities that exist
    used,      \* every id ever given out
    carries    \* [Ids -> [Types -> Instances, or NoInstance]]

vars == <<live, used, carries>>

Nothing == [t \in Types |-> NoInstance]

Init == live = {} /\ used = {} /\ carries = [e \in Ids |-> Nothing]

Create ==
    \E e \in Ids \ used :
        /\ live' = live \cup {e}
        /\ used' = used \cup {e}
        /\ UNCHANGED carries

\* The component is one nothing else carries; where the entity has one of the
\* type already, it takes that one's place.
Attach ==
    \E e \in live, t \in Types, i \in Instances :
        /\ \A f \in Ids, u \in Types : carries[f][u] # i
        /\ carries' = [carries EXCEPT ![e][t] = i]
        /\ UNCHANGED <<live, used>>

Detach ==
    \E e \in live, t \in Types :
        /\ carries' = [carries EXCEPT ![e][t] = NoInstance]
        /\ UNCHANGED <<live, used>>

Destroy ==
    \E e \in live :
        /\ live' = live \ {e}
        /\ carries' = [carries EXCEPT ![e] = Nothing]
        /\ UNCHANGED used

Next == Create \/ Attach \/ Detach \/ Destroy

Spec == Init /\ [][Next]_vars
=============================================================================
