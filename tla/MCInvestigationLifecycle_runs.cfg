SPECIFICATION BoundedSpec
CONSTANTS
    Dataset = {d1}
    Kpi = {k1, k2}
    Investigation = {i1, i2}
    Request = {r1, r2}
    Writer = {w1, w2}
    None = None
    UnexpectedErrors = TRUE
    MaxRestarts = 1
SYMMETRY Interchangeable
INVARIANTS
    TypeOK
    ReuseFollowsReprofile
    UnfinishedHasRequest
PROPERTIES
    FinishedIsFinal
CHECK_DEADLOCK FALSE
