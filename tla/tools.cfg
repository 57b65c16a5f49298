SPECIFICATION Spec
CONSTANTS
    MaxCalls = 2
    Fds <- MCFds
    GenMax = 3
    Fed = {1}
    MaxOutput = 1
    Nobody = Nobody
INVARIANTS
    TypeOK
    StaleEventsAreDropped
    NothingOutlivesItsCall
    OutputIsWhole
PROPERTIES
    CallEnds
