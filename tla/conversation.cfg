SPECIFICATION FairSpec
CONSTANTS
    a = a
    b = b
    CallId <- MCCallId
    Text = {hello}
    NoText = NoText
    Replies <- MCRepliesIds
    MaxSteps = 2
    MaxTurns = 2
    Faults = {"storage", "request", "present", "ids"}
INVARIANTS
    TypeOK
    LiveMatchesHistory
    NoUnprovokedRejection
    EndedTurnIsClosedUnlessHazard
    WriteAhead
    RequestIsAnswerable
PROPERTIES
    TurnEnds
