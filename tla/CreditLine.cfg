\* Two generations on a line of one or two credits, the hourly pass, the closing request and one
\* "Invoice now" of which two may be at work at once, two agreements, one death of either process.
SPECIFICATION Spec
CONSTANTS
  Gens = {g1, g2}
  Staff = {s1}
  Terms <- MCTerms
  Prepaid = 0
  Rate = 1
  Month = 2
  NetDays = 0
  GraceDays = 0
  MaxTime = 2
  MaxAgreed = 2
  MaxBusy = 2
  MaxCrashes = 1
SYMMETRY MCSymmetry
INVARIANTS
  LineFollowsAccount
  InvoiceIsComplete
  
  PaidUpIsReopened
  BillingNeverStalls
PROPERTIES
  InvoicesInOrder
