SPECIFICATION LiveSpec
CONSTANTS
  Mailbox = {m1, m2}
  Id = {e1, e2}
  Lengths = {1, 2}
  Worker = {w1}
  None = none
  Sweeper = sweeper
  MAX_QUEUE_PER_RECIPIENT = 2
  PER_MAILBOX_QUEUE_BYTES = 2
  GLOBAL_QUEUE_DISK_CAP_BYTES = 3
  QUEUE_TTL_MS = 1
  IoErrors = TRUE
  MaxNow = 2
  MaxSeq = 3
  MaxCrashes = 1
INVARIANTS AccountsExact CapsRespected
PROPERTY ExpiredEventuallySwept
