SPECIFICATION Spec
CONSTANTS
    Dataset = {d1}
    Kpi = {k1}
    Content = {c1}
    SqlContent = {q1}
    Request = {r1}
    Worker = {w1, w2}
    None = None
    RejectDuplicates = FALSE
    MaterializeParquet = TRUE
    StorageFaults = TRUE
    MaxProfile = 2
    MaxRestarts = 1
SYMMETRY Interchangeable
INVARIANTS
    TypeOK
    KeysResolve
    ColumnsAgree
PROPERTIES
    ProfileAdvances
    ImplementsContract
CHECK_DEADLOCK FALSE
