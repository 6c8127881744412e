SPECIFICATION Spec
CONSTANTS
  Env = {e1}
  Socket = {s1}
  None = none
  Dead = dead
  Synced = synced
  OUTBOUND_QUEUE_CAPACITY = 2
  IoErrors = FALSE
  StoreMayFill = FALSE
  MaxBreaks = 0
SYMMETRY Symmetry
INVARIANT CaughtUp
