\* A batch of two photos, one worker that may die, a job that may be lost, a transaction that may
\* roll back: one of them, once, at any step.
SPECIFICATION FairSpec
CONSTANTS
  Gen = {r, s1, s2}
  Root = r
  None = None
  Worker = {w1}
  Kind <- MCBatch
  ParentOf <- MCParentOf
  Price <- MCPrice
  Premium <- MCNoPremium
  MaxAttempts = 3
  MaxFaults = 1
  FaultKinds = {"crash", "loss", "rollback"}
  DirectMode = FALSE
CHECK_DEADLOCK FALSE
INVARIANTS
  ShareComesBackOnce
PROPERTIES
  EveryGenerationEnds
