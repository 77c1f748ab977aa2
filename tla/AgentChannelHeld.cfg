\* One slow client is enough.
SPECIFICATION TimedSpec
CONSTANTS
    Clients <- MCClients
    Events <- MCEvents
    Errors <- MCErrors
    Line <- MCLine
    NoClient = "none"
    EmptyLineError = "UnknownCommand"
    CutOffError = "BadArgument"
    CloseRequested <- MCCloseRequested
    Cap = 2
    ReadSize = 2
    Backlog = 1
    ReaderMayDie = FALSE
    Timeout = 2
INVARIANT HeldForOneTimeout
