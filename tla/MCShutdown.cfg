CONSTANTS
  Threads = {t1, t2, t3}
  Capacity = 2
  MaxCalls = 2
SPECIFICATION FairShutdownSpec
CHECK_DEADLOCK FALSE
INVARIANTS
  ShutdownSafe
PROPERTIES
  SubscribersResolved
