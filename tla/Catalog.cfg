SPECIFICATION FairCatalogSpec
CONSTANTS
    p1 = p1
    p2 = p2
    v1 = v1
    v2 = v2
    k1 = k1
    k2 = k2
    c1 = c1
    c2 = c2
    c3 = c3
    b1 = b1
    m1 = m1
    a1 = a1
    o1 = o1
    o2 = o2
    Products = {p1, p2}
    Variants = {v1, v2}
    Skus = {k1, k2}
    Categories = {c1, c2, c3}
    Brands = {b1}
    Tags = {}
    Assets = {m1}
    Attributes = {a1}
    Options = {o1, o2}
    AttributeOf <- AttributeOfBoth
    Starts <- Opened
    Editors = {r1, r2}
    None = None
    MaxChanges = 3
PROPERTIES CyclesNeedARace UsesEndOnlyInARace EveryMoveEnds
CHECK_DEADLOCK FALSE
