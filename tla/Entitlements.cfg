SPECIFICATION EntitlementsSpec
CONSTANTS
    automation = automation
    assistant = assistant
    Plans = {automation, assistant}
    FirstTerms <- Offers
    Limits = {1}
    Starts <- Customers
    Writers = {q1, q2}
    TrialDays = 1
    MaxMonths = 2
    MaxTime = 2
    MaxRows = 5
    MaxRequests = 4
INVARIANTS PaidForWorks RulesBounded
CHECK_DEADLOCK FALSE
SYMMETRY Interchangeable
