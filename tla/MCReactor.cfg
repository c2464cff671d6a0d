CONSTANTS
  Requesters = {r1, r2}
  WaitCeiling = 1
SPECIFICATION FairReactorSpec
INVARIANTS
  ReactorSafe
PROPERTIES
  ImplementsLifecycle
  HeardTermination
  CeilingTerminates
