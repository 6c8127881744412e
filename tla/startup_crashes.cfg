SPECIFICATION LiveSpec
CONSTANTS
  Mailbox = {m1, m2}
  Bundle = {b1}
  Envelope = {e1, e2}
  Secret = {k1, k2}
  None = none
  Empty = empty
  MaxStops = 2
  MaxChanges = 2
INVARIANTS TypeOK TrustRootStable KeysRecoverable NotResurrected
PROPERTIES  StartsAgain
CHECK_DEADLOCK FALSE
