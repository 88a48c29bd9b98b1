\* One image or song, two workers, three faults of any kind: workers die, or are paused and come
\* back to a row that was reclaimed meanwhile; Redis goes away; jobs and transactions are lost.
SPECIFICATION Spec
CONSTANTS
  Gen = {g1}
  Root = g1
  None = None
  Worker = {w1, w2}
  Kind <- MCStandalone
  ParentOf <- MCNoParent
  Price <- MCPrice
  Premium <- MCPremium
  MaxAttempts = 3
  MaxFaults = 3
  FaultKinds = {"crash", "pause", "outage", "loss", "rollback", "age"}
  DirectMode = TRUE
SYMMETRY MCSymmetry
CHECK_DEADLOCK FALSE
INVARIANTS
  TypeOK
  OneRunPerRow
  PaidMatchesRow
PROPERTIES
  TerminalIsFinal
  SweepSparesTheLiving
  ImplementsCreditHold
