SPECIFICATION FairSystemSpec
CONSTANTS
  n1 = n1
  n2 = n2
  none = none
  Runs = {n1, n2}
  None = none
  Answered = {n1}
CHECK_DEADLOCK FALSE
INVARIANTS IInv JournalKnowsRows VerdictNeedsCleanup
PROPERTIES VerifiedMeansEmpty ImplementsFaultWindow ObservationIsTornDown
