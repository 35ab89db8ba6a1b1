SPECIFICATION FairSpec
CONSTANTS
    d1 = d1  d2 = d2  d3 = d3
    e1 = e1  e2 = e2  e3 = e3  e4 = e4
    p1 = p1  p2 = p2
    Deliveries = {d1, d2, d3}
    Carries <- MCCarries
    Malformed = {d3}
    Unsupported = {e4}
    MessageOf <- MCMessageOf
    Workers = {w1, w2}
    Nobody = Nobody
    MaxFaults = 2
PROPERTY DeliveryConcluded
