SPECIFICATION Spec
CONSTANTS
  Execs = {e1, e2}
  Workers = {w1, w2}
  None = None
  MaxUpdates = 2
  MaxUpdaters = 2
  MaxBoots = 1
INVARIANTS
  DanglingOnlyWhileBuilding
  ChangesAccounted
  IInv
  EveryTraceOwnedOnce
  HonestWhileLive
PROPERTIES
  PointerMovesUnderLock
  ImplementsStore
  OrphansNeedOverlap
CHECK_DEADLOCK FALSE
