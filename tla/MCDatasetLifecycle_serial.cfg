SPECIFICATION FairSpec
CONSTANTS
    Dataset = {d1}
    Kpi = {k1, k2}
    Content = {c1}
    SqlContent = {q1}
    Request = {r1}
    Worker = {w1}
    None = None
    RejectDuplicates = FALSE
    MaterializeParquet = FALSE
    StorageFaults = FALSE
    MaxProfile = 2
    MaxRestarts = 0
INVARIANTS
    ReadyHasActiveKpi
PROPERTIES
    UploadSettles
    ProfilingSettles
CHECK_DEADLOCK FALSE
