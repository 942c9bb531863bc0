SPECIFICATION FrontSpec
CONSTANTS
  Events <- TwoTraces
  MaxFlying = 1
  MaxWaiting = 1
INVARIANT
  ViewIsCurrent
CHECK_DEADLOCK FALSE
