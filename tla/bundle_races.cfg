SPECIFICATION Spec
CONSTANTS
  Bundle = {b1, b2, b3}
  Text = {1, 2}
  Worker = {w1, w2}
  None = none
  MAX_BUNDLES = 2
  MAX_TOTAL_BUNDLE_BYTES = 2
  MAX_BUNDLE_TTL_MS = 2
  MIN_BUNDLE_TTL_MS = 1
  BUNDLE_PRUNE_MIN_INTERVAL_MS = 1
  MaxNow = 2
  MaxCrashes = 1
  MaxRequests = 3
SYMMETRY Symmetry
INVARIANTS TypeOK TotalExact WriteBackCovers
PROPERTIES OvershootBounded LiveKept
CHECK_DEADLOCK FALSE
