SPECIFICATION RecordViewSpec
CONSTANTS
  r1 = r1
  r2 = r2
  none = none
  Runs = {r1, r2}
  None = none
  Viewed = {r1, r2}
  MaxHurt = 1
  Exposed = {"run.json", "other"}
  MaxMisses = 2
SYMMETRY Alike
CHECK_DEADLOCK FALSE
INVARIANTS CacheMatchesVerdict
