CONSTANTS
  Topologies <- MCTopologies
  Limit = 2
  Clients = {c1}
  Requesters = {u1}
  MaxSends = 1
  Supervisor = Supervisor
SPECIFICATION FairGroupSpec
CHECK_DEADLOCK FALSE
INVARIANTS
  GroupSafe
PROPERTIES
  AdmissionFence
  MembersAreReactors
  FailClosed
  AllCollected
