CONSTANTS
  s1 = s1
  s2 = s2
  t1 = t1
  t2 = t2
  Conn = Conn
  None = None
  Stmt = {s1, s2}
  Tx = {t1, t2}
  Kinds = {"select", "dml", "ddl", "proc", "procRows"}
  Nodes = {}
  Faults = {"execute", "commit", "commitRetaining", "closeCursor"}
SPECIFICATION Spec
SYMMETRY Symmetry
INVARIANTS CursorTxOpen HandlesOpen
PROPERTIES ManualWorkKept AutoCommitEnds
\* Disconnect and a crash are final.
CHECK_DEADLOCK FALSE
