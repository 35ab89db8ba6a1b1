SPECIFICATION FairSpec
CONSTANTS
    c1 = c1  c2 = c2
    m1 = m1  m2 = m2
    Conversations = {c1, c2}
    Messages = {m1, m2}
    Senders <- MCSenders
    Workers = {w1, w2}
    Nobody = Nobody
    Matches <- MCMatches
    Limits = {1, 2}
    MaxFaults = 1
    MaxInterventions = 1
INVARIANTS OneReplyPerMessage QuotaRespected CustomerNotLeftWaiting
PROPERTIES ImplementsTurns EveryFlowEnds
CHECK_DEADLOCK FALSE
