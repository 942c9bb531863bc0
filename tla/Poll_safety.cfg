SPECIFICATION AloneSpec
CONSTANTS
  Execs = {e1}
  Workers = {w1, w2, w3}
  None = None
  MaxUpdates = 2
  MaxUpdaters = 2
  MaxBoots = 0
  Clients = {c1}
  TheExec = e1
  Watched <- WatchTheExec
SYMMETRY WorkerSymmetry
INVARIANTS
  PollInv
  ViewNotOlderThanChange
PROPERTY
  ViewOnlyAdvances
CHECK_DEADLOCK FALSE
