\* Three threads that trade arbs, everything else going on around them.
SPECIFICATION Spec
CONSTANTS
  c1 = c1  c2 = c2  c3 = c3  t1 = t1
  Caller = {c1, c2, c3}
  Ticker = {t1}
  Stakes = {1, 2}
  FailCost = 2
  LossCap = 4
  Window = 6
  CftcLimit = 3
  KellySkips = TRUE
  MaxBlind = 1
INVARIANTS TypeOK MeterBounded LockoutHasCause LateTradesBounded
SYMMETRY MCCallers
