\* Kalshi demo venue: does unwinding one arb spare the pairs already returned?
SPECIFICATION Spec
CONSTANTS
  k1 = k1  k2 = k2  p1 = p1  p2 = p2  p3 = p3
  a1 = a1  a2 = a2  a3 = a3  e1 = e1  loop = loop  w1 = w1
  KalshiKeys = {k1, k2}
  PolyKeys = {p1, p2}
  KalshiBankroll = 3
  PolyBankroll = 4
  MaxOrder = 2
  MaxOpenPositions = 2
  ArbCall = {a1, a2, a3}
  EventCall = {}
  Thread = {loop}
  EventLoops = {loop}
  Arbs <- MCArbs
  EventKeys = {}
  Stakes = {2}
  KalshiVenue = "demo"
  None = None
INVARIANT ReturnedPairsHeld
\* Every call has returned: the bounded set of calls is used up.
CHECK_DEADLOCK FALSE
