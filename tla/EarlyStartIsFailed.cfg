SPECIFICATION Spec
CONSTANTS
    Topics = {"N-02"}
    ReportPolls = 4
    Consecutive = 3
    WindowReads = 2
    StableReads = 2
    EffectReads = 4
    ReportChoices <- MCReportChoices
INVARIANTS EarlyStartIsFailed
CHECK_DEADLOCK FALSE
