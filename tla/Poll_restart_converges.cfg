SPECIFICATION FairSysSpec
CONSTANTS
  Execs = {e1}
  Workers = {w1, w2}
  None = None
  MaxUpdates = 1
  MaxUpdaters = 1
  MaxBoots = 1
  Clients = {c1}
  TheExec = e1
  Watched <- WatchTheExec
PROPERTIES
  PagesCatchUp
  EveryRequestAnswered
CHECK_DEADLOCK FALSE
