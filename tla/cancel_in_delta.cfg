SPECIFICATION Spec
CONSTANTS
    Tls = TRUE
    MaxAddresses = 2
    Replies <- MCReplies
    OnDelta = TRUE
INVARIANTS
    CancelledIsNotTouched
