\* Two vendors, one of which answers the POST itself; three runs, one of which may start beside
\* another; two crashes or failed writes.
SPECIFICATION Spec
CONSTANTS
  w1 = w1
  w2 = w2
  va = va
  vb = vb
  Worker = {w1, w2}
  Provider = {va, vb}
  None = None
  Direct = {vb}
  MaxRuns = 3
  MaxOverlaps = 1
  MaxFaults = 2
CHECK_DEADLOCK FALSE
INVARIANTS
  OneVendorJob
  NewCallAfterFailure
