SPECIFICATION Spec
CONSTANTS
    Chars <- MCChars
    Keys <- MCKeys
    Commands <- MCCommands
    Seeds <- MCSeeds
    HistoryMax = 2
    MaxPressed = 4
INVARIANTS
    TypeOK
    KeysArriveWhole
PROPERTIES
    DraftComesBack
CHECK_DEADLOCK FALSE
