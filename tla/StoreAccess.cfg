SPECIFICATION Spec
CONSTANTS
    Sessions = {s1, s2}
    Requests = {q1, q2}
    Passwords = {first, second}
    First = first
    MaxFailures = 2
    Lockout = 1
    Lifetime = 1
    MaxTime = 1
    MaxRequests = 5
INVARIANTS SessionsOfTheirEra TriesBounded
PROPERTY MovesAreLegal
CHECK_DEADLOCK FALSE
SYMMETRY Interchangeable
