CONSTANTS
  Keys <- MCKeys
  Instants = {0, 1}
  Results = {r1, r2}
  TraceCapacity = 2
  MaxActions = 3
  DrawCount = 4
  MaxSelections = 2
SPECIFICATION ReplaySpec
CHECK_DEADLOCK FALSE
INVARIANTS
  ReplaySafe
  ReplayReproduces
  RoundRobinIsFair
