SPECIFICATION FairFrontSpec
CONSTANTS
  Events <- TwoTraces
  MaxFlying = 1
  MaxWaiting = 1
INVARIANTS
  FrontInv
  CacheIsFresh
  CountsAskedOnce
  OneTimer
PROPERTIES
  DrawsAreFresh
  PlaybackEnds
CHECK_DEADLOCK FALSE
