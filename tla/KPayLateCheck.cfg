CONSTANTS
    Orders = {o1}
    Requests = {r1, r2}
    NoOrder = NoOrder
    MaxRevision = 6
    MaxReceipts = 1
SPECIFICATION Spec
CHECK_DEADLOCK FALSE
INVARIANT PendingIsUnentitled
