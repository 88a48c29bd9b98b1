SPECIFICATION FairSpec
CONSTANTS
  Kinds = {"PACK"}
  Amount = 2
  Credits = 3
  Ours = {o1}
  Disputes = {}
  Disputed <- MCUndisputed
  Slow = FALSE
  Nameless = TRUE
  Hooks = {h1}
  Spends = {}
  None = None
  MaxAttempts = 2
  MaxChecks = 2
  MaxCycles = 2
  MaxRevisions = 2
  MaxReversals = 1
  MaxBusy = 2
CHECK_DEADLOCK FALSE
PROPERTIES UncertainCheckoutEnds RefundEnds
