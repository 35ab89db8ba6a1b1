SPECIFICATION Spec
CONSTANTS
    Sessions = {s1, s2}
    Requests = {q1, q2}
    Passwords = {first, second}
    First = first
    MaxFailures = 2
    Lockout = 1
    Lifetime = 1
    MaxTime = 1
    MaxRequests = 3
PROPERTY EverySessionEnds
CHECK_DEADLOCK FALSE
SYMMETRY Interchangeable
