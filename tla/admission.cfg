SPECIFICATION Spec
CONSTANTS
  Conn = {c1, c2, c3}
  Token = {t1, t2, t3}
  None = none
  MAX_CONNECTIONS = 2
  MAX_FRAMES_PER_WINDOW = 2
  MAX_SENDS_PER_DEST_PER_WINDOW = 1
  MAX_DELIVERY_TOKENS_PER_MAILBOX = 2
  RATE_WINDOW_MS = 1
  MaxNow = 2
  MaxFrames = 4
  MaxCrashes = 1
SYMMETRY Symmetric
INVARIANTS TypeOK ConnCountExact DestRateBounded 
