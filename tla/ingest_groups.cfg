\* A chain of three alerts in two webhooks, groups of at most two, and
\* no shutdown.
CONSTANTS
  Hooks = {w1, w2}
  Fingerprints <- ChainFingerprints
  Filtered = {}
  DedupWindow = 2
  MaxBatch = 2
  MaxSaveFaults = 0
  KeysOf <- ChainKeysOf
  Downstream <- ChainDownstream
  NameRank <- ChainNameRank
  MaxGroupSize = 2
  Window = 1
  MaxTime = 1
  MayStop = FALSE
SPECIFICATION Spec
\* Everything comes to rest when both webhooks are handled.
CHECK_DEADLOCK FALSE
SYMMETRY Symmetry
INVARIANTS
  TypeOK
  EachRowInOnePlace
  SplitOnlyByCap
  RootCauseFirst
