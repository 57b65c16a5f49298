SPECIFICATION Spec
CONSTANTS
    Process = {p, q}
    Radix = 2
    Header <- MCHeader
    MaxRecord = 2
    MaxFile = 11
    Faults = {"kill", "short", "truncate"}
INVARIANTS
    TypeOK
    MemoryMatchesFile
PROPERTIES
    KeepsPromise
