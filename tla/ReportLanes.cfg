SPECIFICATION FairSystemSpec
CONSTANTS
  p1 = p1
  p2 = p2
  none = none
  Runs = {p1, p2}
  None = none
  Reporting = {p1}
CHECK_DEADLOCK FALSE
INVARIANTS VerdictNeedsRestore
PROPERTIES RestoredMeansBack ImplementsFaultWindow AppliedIsSettled
