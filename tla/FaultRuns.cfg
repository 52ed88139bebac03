SPECIFICATION FairSystemSpec
CONSTANTS
  m1 = m1
  d1 = d1
  none = none
  Runs = {m1, d1}
  DlqRuns = {d1}
  None = none
  MaxPolls = 2
  Retests = {m1}
CHECK_DEADLOCK FALSE
INVARIANTS IInv
PROPERTIES ImplementsFaultWindow TeardownAfterLift DiskFollowsLifecycle RunsEnd RecordedFaultIsDealtWith
