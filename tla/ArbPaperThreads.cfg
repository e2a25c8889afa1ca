\* Paper venues, an event loop and a scheduler thread: an arb call and the
\* Polymarket agent race on the same accounts, at every switch point.
SPECIFICATION Spec
CONSTANTS
  k1 = k1  k2 = k2  p1 = p1  p2 = p2  p3 = p3
  a1 = a1  a2 = a2  a3 = a3  e1 = e1  loop = loop  w1 = w1
  KalshiKeys = {k1, k2}
  PolyKeys = {p1, p2, p3}
  KalshiBankroll = 2
  PolyBankroll = 4
  MaxOrder = 3
  MaxOpenPositions = 1
  ArbCall = {a1, a2}
  EventCall = {e1}
  Thread = {loop, w1}
  EventLoops = {loop}
  Arbs <- MCArbs
  EventKeys = {p2, p3}
  Stakes = {1, 2, 3}
  KalshiVenue = "paper"
  None = None
INVARIANTS OverdraftBounded PositionCapBounded PolyMoneyNeverCreated
PROPERTIES PairContract
\* Every call has returned: the bounded set of calls is used up.
CHECK_DEADLOCK FALSE
