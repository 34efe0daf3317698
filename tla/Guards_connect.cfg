SPECIFICATION FairSpec
CONSTANTS
  Thread = {t1, t2, t3}
  Dbc = {d1}
  None = None
  Level = "connect"
  Careful = TRUE
INVARIANTS NoOtherRace LocksBalanced
PROPERTY CallsReturn
CHECK_DEADLOCK TRUE
