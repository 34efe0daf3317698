CONSTANTS
  Count = 3
  Blobs = {2}
  Chunks = {a, b}
  MaxPieces = 2
  ArraySizes = {1, 2}
  Null = Null
  Faults = {"bind", "convert", "execute"}
  CancelIn = {"need"}
SPECIFICATION FairSpec
INVARIANTS AskedInOrder ExecutedAsGiven
PROPERTIES LoopEnds
\* An execution through the dangling pointer is undefined.
CHECK_DEADLOCK FALSE
