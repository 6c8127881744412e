SPECIFICATION LiveSpec
CONSTANTS
  Transfer = {t1, t2}
  ChunkCounts = {1, 2}
  ByteCounts = {2}
  Lengths = {1}
  Worker = {w1}
  Sweeper = sweeper
  None = none
  max_transfers = 2
  max_total_file_bytes = 2
  max_file_bytes = 2
  max_chunks = 2
  file_ttl_ms = 1
  INCOMPLETE_FILE_TTL_MS = 0
  IoErrors = FALSE
  MaxNow = 2
  MaxCrashes = 1
INVARIANT ByteLimits
PROPERTY OverdueReclaimed
