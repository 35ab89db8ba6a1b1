CONSTANTS
    Messages = {m1}
    Workers = {w1, w2}
    NoMessage = NoMessage
    MaxDenials = 0
    MaxAttempts = 2
SPECIFICATION Spec
INVARIANT NoSecondCopy
