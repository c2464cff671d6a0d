CONSTANTS
  Owner = o1
  Owners = {o1, o2}
  MaxTimers = 2
  MaxBytes = 3
  U64 = 4
  FirstId = 2
  Sizes = {1, 3}
  Deadlines = {1, 3}
  WaitCeiling = 2
  Horizon = 3
  WorkCounts = {1, 4}
  BatchLimits <- MCBatchLimits
  EventSizes = {1, 3}
SPECIFICATION HostSpec
CHECK_DEADLOCK FALSE
INVARIANTS
  TimerSafe
  HostSafe
  BatchSafe
PROPERTIES
  DeliveryOrder
