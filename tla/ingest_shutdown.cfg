\* One alert and a shutdown.
CONSTANTS
  Hooks = {w1}
  Fingerprints <- PairFingerprints
  Filtered = {"noise"}
  DedupWindow = 2
  MaxBatch = 1
  MaxSaveFaults = 0
  KeysOf <- PairKeysOf
  Downstream <- PairDownstream
  NameRank <- PairNameRank
  MaxGroupSize = 0
  Window = 1
  MaxTime = 1
  MayStop = TRUE
SPECIFICATION Spec
\* The process really stops.
CHECK_DEADLOCK FALSE
INVARIANT NothingLeftInBuffer
