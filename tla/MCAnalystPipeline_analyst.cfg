SPECIFICATION AnalystFairSpec
CONSTANTS
    k1 = k1
    k2 = k2
    region = region
    Kpi = {k1, k2}
    NoKpi = NoKpi
    Dim = {region}
    NoDim = NoDim
    DimsOf <- MCDimsOf
    Measured = 900
    Figure = {2, 3, 900}
    Scores = {2}
    Month <- MCMonth
    Configured <- MCConfigured
    Questions <- MCQuestions
    Readings <- MCReadings
    Contents <- MCContents
    MaxToolCalls = 3
    MaxPlanSteps = 5
    IntentRetries = 1
    MaxEdits = 1
INVARIANTS
    AnalystTypeOK
    CompletedIsComplete
    AnswersKpiAsked
    RunIsAnswered
    OnlyAskedNarrows
    AbsenceWasChecked
    
PROPERTIES
    QuestionEnds
CHECK_DEADLOCK FALSE
