CONSTANTS
  Owner = o1
  Owners = {o1, o2}
  Capacity = 2
  FirstGen = 0
  MaxGen = 1
  SlotIds = {0, 1, 2}
  Identities = {k1, k2}
  MaxAdmissions = 4
  MaxEvents = 2
  MaxRegistrations = 2
  UsizeMax = 3
  Capacities = {2}
  Interests = {{"readable"}}
  Supported = {"readable", "writable"}
  ResourceTokens <- Token
  Sources <- Resources
SPECIFICATION OwnerSpec
CHECK_DEADLOCK FALSE
INVARIANTS
  ResourceSafe
  ReadinessReachesItsSource
  WatchedIsLive
