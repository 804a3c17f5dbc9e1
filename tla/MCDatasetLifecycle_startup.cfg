SPECIFICATION Spec
CONSTANTS
    Dataset = {d1}
    Kpi = {}
    Content = {c1}
    SqlContent = {q1}
    Request = {r1}
    Worker = {w1, w2}
    None = None
    RejectDuplicates = FALSE
    MaterializeParquet = TRUE
    StorageFaults = TRUE
    MaxProfile = 2
    MaxRestarts = 1
SYMMETRY Interchangeable
PROPERTIES
    StartupReconciles
CHECK_DEADLOCK FALSE
