\* The SQL stores as shipped: a row without an approver cannot be scanned.
CONSTANTS
  Calls = {c1}
  Chats = {h1}
  Actions = {"approve"}
  MaxApprovals = 2
  NSteps = 1
  SshSteps = {1}
  ListLimit = 1
  Overlap = TRUE
  ScanFails = TRUE
  MaxFaults = 0
  MaxCrashes = 0
SPECIFICATION Spec
PROPERTY CallbacksReachTheRow
