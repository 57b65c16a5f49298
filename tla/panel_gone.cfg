SPECIFICATION ReplSpec
CONSTANTS
    a = a
    hello = hello
    command = command
    CallId <- MCCallId
    Text <- MCText
    Commands <- MCCommands
    NoText = NoText
    Replies <- MCReplies
    LegacyLengths = {0}
    MaxSteps = 2
    MaxTurns = 2
    MaxOpens = 1
    Faults = {}
    Mishaps = {"eof"}
INVARIANTS
    EventsComeWithinATurn
