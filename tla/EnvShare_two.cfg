SPECIFICATION Spec
CONSTANTS
  None = None
  Dbc = {d1, d2}
  Isc = {c1, c2}
  Tx = {t1, t2}
  MaxShare = 3
  Faults = {"connect", "start", "execute", "commit", "rollback"}
SYMMETRY Symmetry
CHECK_DEADLOCK FALSE
INVARIANTS ShareList HandlesOpen
PROPERTIES SharedEndsAsOne EnvEndsListed
