CONSTANTS
  s1 = s1
  s2 = s2
  t1 = t1
  t2 = t2
  t3 = t3
  v1 = v1
  wide = wide
  Tables <- ThreeTables
  Values <- NarrowAndWide
  TxIds <- Tx2
  NonFinite <- None
  MultiByte <- None
  CrashTails <- None
  DiskTails <- None
  Sessions <- TwoSessions
  Width <- MCWidth
  DemoRows <- DemoInT1
  Widths = {1, 2}
  Inserts <- Statements
  Writers <- Exclusive
  MaxBoots = 1
  BeginBudget <- Budget2
  MaxRows = 2
SPECIFICATION Spec
INVARIANTS TypeOK WriteAhead RowsFitSchema UndoExact
PROPERTIES RollbackExact PublishedRowsStay
