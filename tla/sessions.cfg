SPECIFICATION Spec
CONSTANTS
    Process = {p, q}
    Session = {s, t}
    Model = {m, n}
    DefaultModel = m
    Name = {x}
    Nothing = Nothing
    MaxCommands = 3
    MaxLogs = 3
    Faults = {"kill", "append", "cache"}
INVARIANTS
    TypeOK
    ChoiceIsKept
    CacheIsMerged
    SwitchIsWhole
PROPERTIES
    CommandEnds
CHECK_DEADLOCK FALSE
