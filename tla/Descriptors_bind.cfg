SPECIFICATION Spec
CONSTANTS
  q = q
  d1 = d1
  Stmts = {q}
  Explicit = {d1}
  Shapes <- MCShapes
  CatalogShape <- MCCatalog
  SqlTypes = {"INTEGER", "VARCHAR", "SMALLINT"}
  CTypes = {"long"}
  MaxCol = 1
  MaxDirect = 2
  Touched <- MCTouched
  NoShape = NoShape
  NoStmt = NoStmt
INVARIANTS TransfersAsBound ColumnsAgree
CHECK_DEADLOCK FALSE
