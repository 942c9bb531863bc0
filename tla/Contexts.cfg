SPECIFICATION CallSpec
CONSTANTS
  Ips = {0, 1, 2}
  StubIp = 4
  MainIp = 5
  MaxDepth = 4
  MaxArgs = 1
  MaxLocals = 1
  MaxStubs = 1
  Lines <- UnitsOutOfOrder
INVARIANTS
  CallInv
  NoCallLost
  StaleOnlyWhereLanded
  ContextIsTrue
  DefinedInMain
