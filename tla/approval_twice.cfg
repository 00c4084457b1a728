\* Two callbacks that both carry "approve" for the same plan.
CONSTANTS
  Calls = {c1, c2}
  Chats = {}
  Actions = {"approve"}
  MaxApprovals = 1
  NSteps = 1
  SshSteps = {1}
  ListLimit = 1
  Overlap = TRUE
  ScanFails = FALSE
  MaxFaults = 0
  MaxCrashes = 0
SPECIFICATION Spec
INVARIANT ExecutedAtMostOnce
