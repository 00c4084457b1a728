\* Two webhooks repeat an alert around the end of the deduplication window;
\* what was saved reaches the pipeline and a shutdown comes to an end.
CONSTANTS
  Hooks = {w1, w2}
  Fingerprints <- PairFingerprints
  Filtered = {"noise"}
  DedupWindow = 2
  MaxBatch = 1
  MaxSaveFaults = 1
  KeysOf <- PairKeysOf
  Downstream <- PairDownstream
  NameRank <- PairNameRank
  MaxGroupSize = 0
  Window = 1
  MaxTime = 3
  MayStop = TRUE
SPECIFICATION FairSpec
\* The process really stops.
CHECK_DEADLOCK FALSE
INVARIANT DedupHolds
PROPERTIES
  SavedIsGrouped
  StopEnds
