\* Overlapping cycles on one account, requests that fail, answers that get lost.
SPECIFICATION Spec
CONSTANTS
  k1 = k1  k2 = k2  a = a  o1 = o1  o2 = o2  o3 = o3  none = none
  Cycle = {k1, k2}
  Symbol = {a}
  Batches <- MCBatches
  MaxAttempts = 2
  Threshold = 2
  MaxOpen = 2
  OrderId = {o1, o2, o3}
  None = none
INVARIANTS TypeOK HoldingsBounded SharesAccounted ReportedFilled OutageBounded
SYMMETRY MCSymmetry
CHECK_DEADLOCK FALSE
