SPECIFICATION FairSpec
CONSTANTS
    c1 = c1  c2 = c2
    m1 = m1  m2 = m2
    Conversations = {c1, c2}
    Messages = {m1, m2}
    Senders <- MCSenders
    Workers = {w1}
    Nobody = Nobody
    Matches <- MCMatches
    Limits = {2}
    MaxFaults = 0
    MaxInterventions = 0
INVARIANT MatchesUseNoModel
CHECK_DEADLOCK FALSE
