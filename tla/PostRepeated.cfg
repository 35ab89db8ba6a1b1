SPECIFICATION Spec
CONSTANTS
    Trainings = {t1, t2}
    Workers = {w1}
    Contents = {old, new, conflict}
    Conflicting = conflict
    Payloads <- DraftPayloads
    Posts = {p1}
    Assets = {a1}
    Managers = {m1}
    Captions = {generated, edited}
    Generated = generated
    MaxImages = 1
    MaxRequests = 5
PROPERTY UnknownIsReconciled
CHECK_DEADLOCK FALSE
SYMMETRY Interchangeable
