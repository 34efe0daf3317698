SPECIFICATION BufferSpec
CONSTANTS
  Data = {a, b}
  Garbage = Garbage
  nMAXROWBLOCK = 2
  MaxRows = 6
INVARIANTS IteratorInBlock
PROPERTY ReadsRows
CHECK_DEADLOCK FALSE
