\* Two requests of one process, two vendors, a breaker that trips on half of two samples.
SPECIFICATION Spec
SYMMETRY MCSymmetry
CONSTANTS
  r1 = r1
  r2 = r2
  r3 = r3
  p1 = p1
  p2 = p2
  va = va
  vb = vb
  Request = {r1, r2}
  Process = {p1}
  ProcessOf <- MCOneProcess
  Provider = {va, vb}
  None = None
  MinSamples = 2
  MaxSamples = 2
INVARIANTS
  LeaseIsAccountedFor
  OneProbe
