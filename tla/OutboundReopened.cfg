CONSTANTS
    Messages = {m1}
    Workers = {w1}
    NoMessage = NoMessage
    MaxDenials = 0
    MaxAttempts = 1
SPECIFICATION FairSpec
PROPERTY DeliveredNeverReopened
