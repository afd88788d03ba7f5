SPECIFICATION Spec
CONSTANTS
    WindowSize = 10
    MinimumCalls = 5
    Permitted = 3
    Retries = 2
    MaxFaults = 1
    MaxLimited = 3
    EarlierReads = {0, 1, 9, 10}
INVARIANTS
    UndisturbedRunPasses
    PassSawRecovery
    AnswersComeFromTheirStore
    NoTemporaryOutlives
    ReportIsOfThisRun
    ExitAgreesWithReport
PROPERTIES
    EvidenceSpec
