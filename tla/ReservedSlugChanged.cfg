SPECIFICATION Spec
CONSTANTS
    pf = pf
    r1 = r1
    f1 = f1
    e1 = e1
    e2 = e2
    g1 = g1
    industry = industry
    delivery = delivery
    Rows = {pf, r1, f1, e1, e2}
    KindOf <- Kinds
    NamesOf <- Naming
    Reserved = industry
    Published <- Opened
    Managers = {m1, m2}
    None = None
    MaxRevisions = 4
    Products = {g1}
    Size <- Lengths
    Framing = 2
    Budget = 7
    ResultLimit = 1
    Histories <- Talks
CHECK_DEADLOCK FALSE
PROPERTY ReservedByQuestionnaire
