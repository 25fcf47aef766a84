CONSTANTS
  s1 = s1
  s2 = s2
  t1 = t1
  t2 = t2
  t3 = t3
  v1 = v1
  wide = wide
  Tables <- TwoTables
  Values <- OneValue
  TxIds <- Tx2
  NonFinite <- None
  MultiByte <- None
  CrashTails <- CleanTails
  DiskTails <- None
  Sessions <- TwoSessions
  Width <- MCWidth
  DemoRows <- DemoInT1
  Widths = {1}
  Inserts <- OneOrTwoRows
  Writers <- Exclusive
  MaxBoots = 2
  BeginBudget <- Budget20
  MaxRows = 2
SPECIFICATION Spec
INVARIANTS RecoveryKeepsCommitted RecoveryDropsUncommitted ViewsAgree
PROPERTIES ImplementsReadCommitted
