CONSTANTS
  a = a
  b = b
  MaxEvents = 3
  MaxBytes = 4
  U64 = 8
  Moments = {0, 1, 2, 3, 4}
  Sizes = {1, 2, 4}
  Payloads <- MCPayloads
  ScriptLimits <- MCScriptLimits
  RequestBytes <- MCRequestBytes
  Scripts <- MCScripts
SPECIFICATION ScriptedSpec
CHECK_DEADLOCK FALSE
INVARIANTS
  ScriptSafe
  OutcomesDelivered
