\* Two scheduler processes on one table, stopped at any point up to twice in
\* all and started again.
SPECIFICATION FairSpec
CONSTANTS
  s1 = s1  s2 = s2
  Proc = {s1, s2}
  Job <- MCOneJob
  Order = "order_submission"
  Slots <- MCEverySlot
  LastSlot = 2
  CloseSlot = 2
  MaxAttempts = 2
  MaxStops = 2
  MaxFails = 1
INVARIANTS TypeOK OncePerDay NoFalseSuccess RunningHasRunner
PROPERTIES SuccessIsFinal WorkEnds
\* The day ends.
CHECK_DEADLOCK FALSE
