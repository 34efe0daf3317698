SPECIFICATION ReportSpec
CONSTANTS
  Numbers <- MCNumbers
  Scales = {0, 1, 3}
  Stamps <- MCStamps
  Declared <- MCDeclared
  Fields <- MCFields
  Starts <- MCStarts
  WalkDays = 800
  SetBound = 3
INVARIANTS NumberKept TextReadsBack DatesKept TypesAgree AttributesKept TextAsMeant TransactionAsSaid InfoTrue AsConnected ErrorsTold RowsAsOne EventsCounted
CHECK_DEADLOCK FALSE
