SPECIFICATION Spec
CONSTANTS
  Mailbox = {m1}
  Id = {e1, e2, e3}
  Lengths = {1}
  Worker = {w1, w2}
  None = none
  Sweeper = sweeper
  MAX_QUEUE_PER_RECIPIENT = 1
  PER_MAILBOX_QUEUE_BYTES = 3
  GLOBAL_QUEUE_DISK_CAP_BYTES = 3
  QUEUE_TTL_MS = 0
  IoErrors = FALSE
  MaxNow = 1
  MaxSeq = 4
  MaxCrashes = 1
SYMMETRY Symmetry
INVARIANTS TypeOK SeqOrderSound PhantomBytesBounded
