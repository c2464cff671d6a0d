CONSTANTS
  MaxEvents = 2
  MaxBytes = 2
  U64 = 3
  Moments = {0, 1, 2, 3}
  Sizes = {1}
  Payloads <- MCPayloads
  Duties = {d1, d2}
  WakeTimes = {1, 3}
  MaxVirtualTime = 2
  TotalActions = 3
  ActionsPerMoment = 2
  MaxEffects = 2
  MaxEffectBytes = 2
  MaxObservations = 1
  MaxObservationBytes = 1
SPECIFICATION FairSimulationSpec
CHECK_DEADLOCK FALSE
INVARIANTS
  SimulationSafe
PROPERTIES
  RollbackIsExact
  NoTimeSkipped
  RunTerminates
