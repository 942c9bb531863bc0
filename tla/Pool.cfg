SPECIFICATION FairPoolSpec
CONSTANTS
  Workers = {w1, w2}
  Sockets = {s1, s2, s3}
  QueueSize = 2
  None = None
INVARIANTS
  PoolInv
  OnePlace
  NobodySleepsOnWork
  FreedUnused
PROPERTIES
  ImplementsFifo
  EveryConnectionServed
CHECK_DEADLOCK FALSE
