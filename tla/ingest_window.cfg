\* Two alerts of one service, a window of two ticks, no cap, no shutdown.
CONSTANTS
  Hooks = {w1, w2}
  Fingerprints <- ChainFingerprints
  Filtered = {"web"}
  DedupWindow = 3
  MaxBatch = 1
  MaxSaveFaults = 0
  KeysOf <- ChainKeysOf
  Downstream <- ChainDownstream
  NameRank <- ChainNameRank
  MaxGroupSize = 0
  Window = 2
  MaxTime = 4
  MayStop = FALSE
SPECIFICATION Spec
\* Everything comes to rest when both webhooks are handled.
CHECK_DEADLOCK FALSE
INVARIANT SameWindowSameGroup
