\* Two periods, one charge looked into at a time, one call that fails or whose answer is lost.
SPECIFICATION FairSpec
CONSTANTS
  MaxPeriods = 2
  Hands = {h1}
  MaxErrors = 1
  Portal = TRUE
  Refunds = TRUE
  None = None
INVARIANTS
  FollowsProvider
  AskedStays
  ClearedWasTold
PROPERTIES
  OnlyForward
  CatchesUp
CHECK_DEADLOCK FALSE
