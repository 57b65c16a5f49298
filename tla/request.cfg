SPECIFICATION Spec
CONSTANTS
    Tls = TRUE
    MaxAddresses = 2
    Replies <- MCReplies
    OnDelta = FALSE
INVARIANTS
    TypeOK
    ResolverJobIsFreedOnce
    NoLostWakeup
    ReplyIsWhole
    CancelledIsNotTouched
PROPERTIES
    RequestEnds
