SPECIFICATION Spec
CONSTANTS
  Byte <- MCByte
  Columns <- MCColumns
  Tables <- MCTables
  Sent <- MCSent
  PieceLength = 4
  Pieces = {1, 3, 6}
  Buffers = {0, 1, 3, 5, 12}
  BoundLength = 4
  WideChar = 4
  MayFail = TRUE
  Again = 1
  NoData = NoData
  Null = Null
  None = None
INVARIANTS
  PiecesInOrder
  EndTold
  ReadsMove
  WrittenAsSent
CHECK_DEADLOCK FALSE
