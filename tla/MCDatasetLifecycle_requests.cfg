SPECIFICATION Spec
CONSTANTS
    Dataset = {d1}
    Kpi = {k1, k2}
    Content = {c1}
    SqlContent = {q1}
    Request = {r1, r2}
    Worker = {w1}
    None = None
    RejectDuplicates = FALSE
    MaterializeParquet = TRUE
    StorageFaults = FALSE
    MaxProfile = 1
    MaxRestarts = 0
SYMMETRY Interchangeable
INVARIANTS
    OneActiveKpi
    SettledHasProfile
CHECK_DEADLOCK FALSE
