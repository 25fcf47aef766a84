CONSTANTS
  s1 = s1
  s2 = s2
  t1 = t1
  t2 = t2
  t3 = t3
  v1 = v1
  wide = wide
  Tables <- OneTable
  Values <- OneValue
  TxIds <- Tx2
  NonFinite <- None
  MultiByte <- OneValue
  CrashTails <- AllTails
  DiskTails <- AllTails
  Sessions <- TwoSessions
  Width <- MCWidth
  DemoRows <- NoDemo
  Widths = {1}
  Inserts <- SingleRows
  Writers <- Shared
  MaxBoots = 3
  BeginBudget <- Budget210
  MaxRows = 1
SPECIFICATION Spec
INVARIANTS LogScnOrdered ClockAhead TxOwnedOnce CommitsVisible
CHECK_DEADLOCK FALSE
