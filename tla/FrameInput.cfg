SPECIFICATION Spec
CONSTANTS
    Keys <- MCKeys
    Buttons = {0}
    MaxEvents = 3
INVARIANTS
    EveryEventInOneFrame
    EdgesMatchTheMap
    NothingSticks
PROPERTIES
    UsesAgentQueue
    CloseEndsTheLoop
CHECK_DEADLOCK FALSE
