\* A second component of the type on one entity.
SPECIFICATION Spec
CONSTANTS
    Types = {Transform, Mesh}
    MaxEntities = 2
    MaxInstances = 3
    NoInstance = NoInstance
PROPERTY NoSilentReplacement
CHECK_DEADLOCK FALSE
