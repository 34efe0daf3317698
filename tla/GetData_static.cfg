SPECIFICATION Spec
CONSTANTS
  Byte <- MCByte
  Columns <- MCStatic
  Tables <- MCTables
  Sent <- MCSent
  PieceLength = 4
  Pieces = {3}
  Buffers = {3, 5}
  BoundLength = 4
  WideChar = 4
  MayFail = FALSE
  Again = 0
  NoData = NoData
  Null = Null
  None = None
INVARIANTS
  StaticPieces
CHECK_DEADLOCK FALSE
