SPECIFICATION Spec
CONSTANTS
    Dataset = {d1}
    Kpi = {k1, k2}
    Investigation = {i1}
    Request = {r1}
    Writer = {w1, w2}
    None = None
    UnexpectedErrors = FALSE
    MaxRestarts = 0
SYMMETRY Interchangeable
INVARIANTS
    ReuseIsFresh
CHECK_DEADLOCK FALSE
