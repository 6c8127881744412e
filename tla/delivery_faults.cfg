SPECIFICATION Spec
CONSTANTS
  Env = {e1, e2}
  Socket = {s1, s2}
  None = none
  Dead = dead
  Synced = synced
  OUTBOUND_QUEUE_CAPACITY = 1
  IoErrors = TRUE
  StoreMayFill = TRUE
  MaxBreaks = 1
SYMMETRY Symmetry
INVARIANTS TypeOK SyncedComplete 
 
