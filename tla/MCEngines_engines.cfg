SPECIFICATION EnginesSpec
CONSTANTS
    FirstYear = 2022
    LastYear = 2025
    TicksPerDay = 2
    Dimension = {"region", "product", "channel"}
    Segment = {"N", "S", "NULL", "A", "B", "x", "y", "(other)"}
    SegmentOrder <- MCOrder
    Analyses <- MCAnalyses
    MinRowsForMean = 2
    MinRowsToDrill = 2
    Branching <- MCBranching
    Histories <- MCHistories
    MinBaseline = 2
    MinForFit = 4
    MinDriftHalf = 2
INVARIANTS
    NewestAccountedFor
    ContributionsSumToOne
    TreeReconciles
    PrimaryReachTarget
    StatementsBounded
    CitesOwnStatement
    EvidenceIdsUnique
    FindingsRestOnEvidence
    CompletedIsWhole
    AdditiveRunsPass
    HistoryStands
    RowsAccountedFor
    UnfinishedNotJudged
    GridBounded
    UploadIsWhole
    CapsAreExact
CHECK_DEADLOCK FALSE
CONSTANTS
    Uploads <- MCUploads
    MaxUpload = 6
    MaxExcel = 4
    ChunkBytes = 2
    Transfers <- MCTransfers
    FetchBatch = 2
    SheetBatch = 2
    DefaultRowLimit = 3
    MaxRowLimit = 4
    MaxDatasetRows = 5
    MaxSheetRows = 4
