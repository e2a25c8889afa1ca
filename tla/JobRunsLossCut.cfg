\* One process, never stopped: is the loss cut run in each of its slots?
SPECIFICATION Spec
CONSTANTS
  s1 = s1  s2 = s2
  Proc = {s1}
  Job <- MCJob
  Order = "order_submission"
  Slots <- MCSlots
  LastSlot = 3
  CloseSlot = 3
  MaxAttempts = 2
  MaxStops = 0
  MaxFails = 0
INVARIANT IntradayJobsRunEverySlot
\* The day ends.
CHECK_DEADLOCK FALSE
