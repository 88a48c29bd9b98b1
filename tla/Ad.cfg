\* An ad of two shots, two workers of which one may die or be paused past its lock, or a job may be
\* lost, once and at any step.
SPECIFICATION Spec
CONSTANTS
  Gen = {r, s1, s2}
  Root = r
  None = None
  Worker = {w1, w2}
  Kind <- MCAd
  ParentOf <- MCParentOf
  Price <- MCPrice
  Premium <- MCNoPremium
  MaxAttempts = 2
  MaxFaults = 1
  FaultKinds = {"crash", "loss", "pause"}
  DirectMode = FALSE
SYMMETRY MCSymmetry
CHECK_DEADLOCK FALSE
INVARIANTS
  AdIsWhole
