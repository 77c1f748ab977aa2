\* Two clients and no failing calls: what must happen in the end.
SPECIFICATION Spec
CONSTANTS
    Clients <- MCTwoClients
    Events <- MCTwoEvents
    Errors <- MCErrors
    Line <- MCTwoLines
    NoClient = "none"
    EmptyLineError = "UnknownCommand"
    CutOffError = "BadArgument"
    CloseRequested <- MCCloseRequested
    Cap = 2
    ReadSize = 2
    Backlog = 1
    ReaderMayDie = FALSE
PROPERTIES
    StopTerminates
    EveryClientServed
    AcceptedIsDelivered
    CloseEndsTheRun
