SPECIFICATION SystemSpec
CONSTANTS
  d1 = d1
  d2 = d2
  none = none
  Runs = {d1, d2}
  None = none
  Kinds = {"H-01", "H-02"}
  Cases = 2
  Varied = {d1}
CHECK_DEADLOCK FALSE
INVARIANTS IInv JournalKnowsRows VerifiedBundleHolds
PROPERTIES ImplementsFaultWindow LockOutlivesCleanup
