CONSTANTS
    Orders = {o1}
    Requests = {r1, r2, r3}
    NoOrder = NoOrder
    MaxRevision = 8
    MaxReceipts = 3
SPECIFICATION Spec
CHECK_DEADLOCK FALSE
INVARIANTS
    EntitledWhenApproved
    GatewayEntitlementIsPaid
    PayexaApprovedIsPaid
    OneTransactionPerOrder
    ApprovedAsSeen
