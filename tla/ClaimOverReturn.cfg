SPECIFICATION Spec
CONSTANTS
  Kinds = {"PACK", "PLAN"}
  Amount = 2
  Credits = 3
  Ours = {o1, o2}
  Disputes = {d1}
  Disputed <- MCDisputed
  Slow = FALSE
  Nameless = FALSE
  Hooks = {h1}
  Spends = {1}
  None = None
  MaxAttempts = 2
  MaxChecks = 2
  MaxCycles = 2
  MaxRevisions = 2
  MaxReversals = 1
  MaxBusy = 2
CHECK_DEADLOCK FALSE
INVARIANT CreditsMatchWhenOverReturned
