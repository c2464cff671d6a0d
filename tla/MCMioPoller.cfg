CONSTANTS
  ResourceTokens = {r1, r2, r3}
  Sources = {s1, s2, s3}
  MaxEvents = 2
  MaxRegistrations = 3
  UsizeMax = 4
  Capacities = {1, 2}
  Interests = {{"readable"}, {"readable", "writable"}, {"aio"}}
  Supported = {"readable", "writable"}
SYMMETRY PollerSymmetry
SPECIFICATION PollerSpec
CHECK_DEADLOCK FALSE
INVARIANTS
  PollerSafe
  DeliveredToItsToken
  NothingLost
