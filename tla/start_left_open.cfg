SPECIFICATION Spec
CONSTANTS
    a = a
    b = b
    CallId <- MCCallId
    Text = {hello}
    NoText = NoText
    Replies <- MCReplies
    MaxSteps = 2
    MaxTurns = 2
    Faults = {"request"}
INVARIANTS
    EndedTurnIsClosed
