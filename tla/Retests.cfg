SPECIFICATION RetestsSpec
CONSTANTS
  r1 = r1
  r2 = r2
  r3 = r3
  none = none
  Runs = {r1, r2, r3}
  None = none
  MaxHurt = 1
  Exposed = {"run.json"}
SYMMETRY Alike
CHECK_DEADLOCK FALSE
INVARIANTS IInv RetestFindsParentLifted
PROPERTIES ImplementsArchive
