SPECIFICATION Spec
CONSTANTS
  Transfer = {t1, t2}
  ChunkCounts = {2}
  ByteCounts = {2}
  Lengths = {1, 2}
  Worker = {w1, w2}
  Sweeper = sweeper
  None = none
  max_transfers = 1
  max_total_file_bytes = 2
  max_file_bytes = 2
  max_chunks = 2
  file_ttl_ms = 0
  INCOMPLETE_FILE_TTL_MS = 0
  IoErrors = TRUE
  MaxNow = 1
  MaxCrashes = 1
SYMMETRY Symmetry
INVARIANTS TypeOK BytesExact MetaDescribesChunks StoredIsCached SlotsExact ClaimExclusive TransferLimit
