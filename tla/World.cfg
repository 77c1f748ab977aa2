SPECIFICATION MCSpec
CONSTANTS
    Types <- MCTypes
    PointsTo <- MCPointsTo
    Sizes <- MCSizes
    Null <- MCNull
    Depth = 5
    RightAngle = 2
    Texts = {"placeholder.obj", "viking_room.obj", "other.obj"}
    Placeholder = "placeholder.obj"
    VikingRoom = "viking_room.obj"
    Distances <- MCDistances
    MaxSpawned = 2
    EditablePaths <- MCEditablePaths
    Habits <- MCHabits
INVARIANTS
    DrawnAsEdited
    EditsReachTheirTarget
    DraggingTurnsOneAngle
    ViewCanBeProjected
    PanelEditsWhatItMay
    ChoiceIsTheCallers
