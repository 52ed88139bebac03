SPECIFICATION FairSystemSpec
CONSTANTS
  p1 = p1
  p2 = p2
  none = none
  Runs = {p1, p2}
  None = none
  Disturbed = {p1}
CHECK_DEADLOCK FALSE
INVARIANTS IInv CollectorFailureIsBarred PassIsEarned
PROPERTIES ImplementsFaultWindow FaultIsWithdrawn
