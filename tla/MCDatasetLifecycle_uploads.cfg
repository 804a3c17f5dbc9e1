SPECIFICATION Spec
CONSTANTS
    Dataset = {d1, d2}
    Kpi = {}
    Content = {c1}
    SqlContent = {q1}
    Request = {r1, r2}
    Worker = {w1}
    None = None
    RejectDuplicates = TRUE
    MaterializeParquet = FALSE
    StorageFaults = FALSE
    MaxProfile = 1
    MaxRestarts = 0
SYMMETRY Interchangeable
INVARIANTS
    NoDuplicateUploads
    NeverBothRejected
CHECK_DEADLOCK FALSE
