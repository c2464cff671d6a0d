CONSTANTS
  Tasks = {t1, t2}
  NoTask = NoTask
SPECIFICATION FairCompletionSpec
CHECK_DEADLOCK FALSE
INVARIANTS
  CompletionSafe
PROPERTIES
  Released
