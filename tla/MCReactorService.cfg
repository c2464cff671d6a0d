CONSTANTS
  s1 = s1
  s2 = s2
  job = job
  stop = stop
  Callers <- MCSenders
  Senders <- MCSenders
  Items <- MCItems
  Bytes <- MCBytes
  MessageLimit <- MCMessageLimit
  ByteLimit <- MCByteLimit
  StopItems <- MCStopItems
  DrainLimits = {1}
  MaxCalls = 2
  Requesters = {r1}
  WaitCeiling = 1
SPECIFICATION ServiceSpec
INVARIANTS
  ServiceSafe
PROPERTIES
  AcceptedIsServed
  LastDropStops
CHECK_DEADLOCK FALSE
