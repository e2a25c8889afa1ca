\* Is the contract limit kept?
SPECIFICATION Spec
CONSTANTS
  c1 = c1  c2 = c2  c3 = c3  t1 = t1
  Caller = {c1, c2}
  Ticker = {t1}
  Stakes = {1, 2}
  FailCost = 2
  LossCap = 4
  Window = 5
  CftcLimit = 3
  KellySkips = FALSE
  MaxBlind = 0
INVARIANT CftcCapHeld
SYMMETRY MCCallers
