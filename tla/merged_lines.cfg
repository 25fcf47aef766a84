CONSTANTS
  s1 = s1
  s2 = s2
  t1 = t1
  t2 = t2
  t3 = t3
  v1 = v1
  wide = wide
  Tables <- OneTable
  Values <- OneValue
  TxIds <- Tx1
  NonFinite <- None
  MultiByte <- None
  CrashTails <- CleanTails
  DiskTails <- None
  Sessions <- TwoSessions
  Width <- MCWidth
  DemoRows <- NoDemo
  Widths = {1}
  Inserts <- SingleRows
  Writers <- Shared
  MaxBoots = 2
  BeginBudget <- Budget11
  MaxRows = 2
SPECIFICATION Spec
PROPERTIES CommitRecordsStay
