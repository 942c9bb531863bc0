SPECIFICATION SysSpec
CONSTANTS
  Execs = {e1}
  Workers = {w1, w2}
  None = None
  MaxUpdates = 2
  MaxUpdaters = 1
  MaxBoots = 0
  Clients = {c1}
  TheExec = e1
  Watched <- WatchTheExec
INVARIANT
  ReadsAreLive
CHECK_DEADLOCK FALSE
