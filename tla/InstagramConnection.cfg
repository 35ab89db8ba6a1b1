SPECIFICATION Spec
CONSTANTS
    Stores = {s1, s2}
    Accounts = {a1, a2}
    Grants = {g1, g2}
    Requests = {r1, r2}
    None = None
    Typed = Typed
    MaxRevision = 3
    MaxChanges = 1
SYMMETRY Symmetry
INVARIANTS TokenOfAccount OneExchangePerGrant
PROPERTIES ArchivedIsFinal DecidedAsSeen
CHECK_DEADLOCK FALSE
