\* Three entities, two component types, four components made: an id can be
\* destroyed while another entity still carries the same type, and a component
\* of one type can be made again on an entity that keeps the other.
SPECIFICATION Spec
CONSTANTS
    Types = {Transform, Mesh}
    MaxEntities = 3
    MaxInstances = 4
    NoInstance = NoInstance
INVARIANTS
    IndicesAgree
PROPERTIES
    DeadStaysDead
    ImplementsTable
\* Every entity may be gone and every id given out.
CHECK_DEADLOCK FALSE
