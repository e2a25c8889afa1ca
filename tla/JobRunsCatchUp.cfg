\* One process, restarted once in the day: are the orders submitted once?
SPECIFICATION Spec
CONSTANTS
  s1 = s1  s2 = s2
  Proc = {s1}
  Job <- MCJob
  Order = "order_submission"
  Slots <- MCSlots
  LastSlot = 3
  CloseSlot = 3
  MaxAttempts = 2
  MaxStops = 1
  MaxFails = 0
INVARIANT OrdersOncePerDay
\* The day ends.
CHECK_DEADLOCK FALSE
