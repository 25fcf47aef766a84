CONSTANTS
  c1 = c1
  c2 = c2
  Base = 2
  Utf8 <- MCUtf8
  Clients <- TwoClients
  Lines <- MCLines
  Texts <- MCTexts
  Returns <- MCReturns
  Panics <- MCPanics
  Crashes <- MCCrashes
  Capacity = 5
  MaxInput = 1
SPECIFICATION Spec
INVARIANTS TypeOK BrokenStateUnseen
PROPERTIES ImplementsStatementService MutexComesFree EveryStatementAnswered ThreadsEnd
