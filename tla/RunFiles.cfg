SPECIFICATION Spec
CONSTANTS
    Runs = {1, 2, 3}
    Clients = {1, 2}
    MaximumFiles = 2
    Scales = {4, 1333}
    DefaultScale = 1000
    Sessions <- MCSessions
INVARIANTS
    LogHistory
    OneRunIsReached
    PictureIsTheOneAsked
PROPERTY
    ScaleRemembered
