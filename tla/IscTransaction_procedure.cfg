CONSTANTS
  s1 = s1
  t1 = t1
  t2 = t2
  Conn = Conn
  None = None
  Stmt = {s1}
  Tx = {t1, t2}
  Kinds = {"proc"}
  Nodes = {}
  Faults = {}
SPECIFICATION Spec
SYMMETRY Symmetry
PROPERTIES ProcedureCommitted
\* Disconnect and a crash are final.
CHECK_DEADLOCK FALSE
