SPECIFICATION FairSpec
CONSTANTS
  Counts = {0, 1, 2, 3, 4, 5}
  Sizes = {1, 2, 3}
  Limits = {0, 2}
  Offsets <- MCOffsets
  Bookmarks = {0, 4}
  Odbc3 = TRUE
INVARIANTS RowsInBuffer
PROPERTIES EveryRowOnce PriorFromEnd FetchLoopEnds
