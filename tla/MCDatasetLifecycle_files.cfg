SPECIFICATION Spec
CONSTANTS
    Dataset = {d1}
    Kpi = {}
    Content = {c1}
    SqlContent = {q1}
    Request = {r1}
    Worker = {w1, w2}
    None = None
    RejectDuplicates = FALSE
    MaterializeParquet = TRUE
    StorageFaults = FALSE
    MaxProfile = 2
    MaxRestarts = 0
SYMMETRY Interchangeable
INVARIANTS
    FilesHaveRows
CHECK_DEADLOCK FALSE
