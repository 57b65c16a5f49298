SPECIFICATION ReplFairSpec
CONSTANTS
    a = a
    hello = hello
    command = command
    CallId <- MCCallId
    Text <- MCText
    Commands <- MCCommands
    NoText = NoText
    Replies <- MCReplies
    LegacyLengths = {0, 1}
    MaxSteps = 2
    MaxTurns = 2
    MaxOpens = 2
    Faults = {"storage", "request", "present"}
    Mishaps = {"crash", "eof", "late", "switch"}
INVARIANTS
    ReplTypeOK
    LiveMatchesLog
    NoUnprovokedRejection
    PromptIsBetweenTurns
    SlotMatchesLog
    AcceptedInputIsKept
PROPERTIES
    KeepsDialogue
    NothingOvertakesTheQueue
    WorkIsNeverDenied
    QueueDrains
    TurnComesBack
