\* Three clients, every interleaving, the reader may die of a failed call.
SPECIFICATION Spec
CONSTANTS
    Clients <- MCClients
    Events <- MCEvents
    Errors <- MCErrors
    Line <- MCLine
    NoClient = "none"
    EmptyLineError = "UnknownCommand"
    CutOffError = "BadArgument"
    CloseRequested <- MCCloseRequested
    Cap = 2
    ReadSize = 2
    Backlog = 1
    ReaderMayDie = TRUE
INVARIANTS
    TypeOK
    ExactlyOnceInOrder
    RepliesTellTheTruth
    OnlyFinishedLinesRun
PROPERTIES
    QuietAfterJoin
    ImplementsQueue
