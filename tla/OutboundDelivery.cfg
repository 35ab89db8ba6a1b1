CONSTANTS
    Messages = {m1}
    Workers = {w1, w2}
    NoMessage = NoMessage
    MaxDenials = 2
    MaxAttempts = 3
SPECIFICATION FairSpec
INVARIANTS
    CopiesAccountedFor
    OneSendOwner
    RecordIsTrue
PROPERTIES
    ClaimReleased
    ImplementsPermits
