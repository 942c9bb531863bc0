SPECIFICATION FairPoolSpec
CONSTANTS
  Workers = {w1, w2}
  Sockets = {s1}
  QueueSize = 1
  None = None
PROPERTY
  StopReturns
CHECK_DEADLOCK FALSE
