SPECIFICATION Spec
CONSTANTS
    Trainings = {t1, t2}
    Workers = {w1, w2}
    Contents = {old, new, conflict}
    Conflicting = conflict
    Payloads <- DraftPayloads
    Posts = {p1}
    Assets = {a1}
    Managers = {m1, m2}
    Captions = {generated, edited}
    Generated = generated
    MaxImages = 1
    MaxRequests = 4
INVARIANTS CatalogAgrees PublishedIsMapped
PROPERTIES RepeatedForAReason PostedAsReviewed
CHECK_DEADLOCK FALSE
SYMMETRY Interchangeable
