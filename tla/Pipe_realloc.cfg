SPECIFICATION PipeSpec
CONSTANTS
  Threads = {t1}
  Programs = {{"realloc"}}
  MaxAddr = 3
  MaxSize = 2
  MaxEvents = 4
  CacheLine = 2
  Files = {}
INVARIANT
  NeverAborts
CHECK_DEADLOCK FALSE
