SPECIFICATION FairPipeSpec
CONSTANTS
  Threads = {t1}
  Programs <- AllPrograms
  MaxAddr = 3
  MaxSize = 2
  MaxEvents = 3
  CacheLine = 3
  Bound = 7
  Files <- AllFiles
INVARIANTS
  PipeInv
  SeenNeverAborts
  RegionsArePieces
  LinesKept
  MaxAddressIsEnd
  MemStatusIsTrue
  AbortsOnlyIllFormed
  FinalRegionsAgree
  RecordsAreActive
PROPERTY
  EndedIsAnalysed
CHECK_DEADLOCK FALSE
