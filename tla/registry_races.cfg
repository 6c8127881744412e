SPECIFICATION Spec
CONSTANTS
  Mailbox = {m1, m2}
  Owner = {o1}
  Token = {t1}
  Socket = {h1}
  None = none
  Dead = dead
  MAX_MAILBOXES = 1
  MAX_DELIVERY_TOKENS_PER_MAILBOX = 2
  MAILBOX_IDLE_TTL_MS = 0
  MAILBOX_ACTIVITY_GRANULARITY_MS = 1
  IoErrors = TRUE
  OneHello = TRUE
  MaxNow = 2
  MaxCrashes = 1
SYMMETRY Symmetry
INVARIANTS TypeOK CountExact
 
