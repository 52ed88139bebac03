SPECIFICATION Spec
CONSTANTS
    Topics = {"H-03", "N-01", "N-02", "N-03", "E-01", "E-02", "H-01", "H-01-stage-1",
              "H-02"}
    ReportPolls = 4
    Consecutive = 3
    WindowReads = 2
    StableReads = 2
    EffectReads = 4
    ReportChoices <- MCReportChoices
CHECK_DEADLOCK FALSE
INVARIANTS PassIsTrue FailIsProductFault SoundIsPassed
