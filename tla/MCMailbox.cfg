CONSTANTS
  s1 = s1
  s2 = s2
  w1 = w1
  a = a
  b = b
  Callers <- MCCallers
  Senders <- MCSenders
  Items <- MCItems
  Bytes <- MCBytes
  MessageLimit <- MCMessageLimit
  ByteLimit <- MCByteLimit
  DrainLimits = {1, 2}
  MaxCalls = 3
SPECIFICATION MailboxSpec
SYMMETRY SenderSymmetry
INVARIANTS
  OkIsSignalled
  NoStranded
  MailboxSafe
PROPERTIES
  ClosedIsFinal
  ImplementsContract
