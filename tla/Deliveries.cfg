\* Two events of one endpoint that is paused after its first failure, the worker's pass beside one replay.
SPECIFICATION FairSpec
CONSTANTS
  Events = {e1, e2}
  MaxAttempts = 2
  PauseAfter = 1
  MaxPortal = 1
  MaxSwitches = 1
  MaxDeaths = 1
INVARIANT
  AbandonedWasTried
PROPERTIES
  SentStaysSent
  EveryEventEnds
CHECK_DEADLOCK FALSE
