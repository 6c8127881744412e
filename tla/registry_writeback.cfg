SPECIFICATION LiveSpec
CONSTANTS
  Mailbox = {m1}
  Owner = {o1}
  Token = {t1}
  Socket = {h1, h2}
  None = none
  Dead = dead
  MAX_MAILBOXES = 1
  MAX_DELIVERY_TOKENS_PER_MAILBOX = 2
  MAILBOX_IDLE_TTL_MS = 0
  MAILBOX_ACTIVITY_GRANULARITY_MS = 1
  IoErrors = FALSE
  OneHello = TRUE
  MaxNow = 2
  MaxCrashes = 0
INVARIANT IdentityCovered
PROPERTY AbandonedCollected
