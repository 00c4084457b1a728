\* One callback, one revision and the expiry loop, no failures; the second
\* command runs over ssh, and the pending query returns one row at a time.
CONSTANTS
  Calls = {c1}
  Chats = {h1}
  Actions = {"approve", "reject"}
  MaxApprovals = 2
  NSteps = 2
  SshSteps = {2}
  ListLimit = 1
  Overlap = TRUE
  ScanFails = FALSE
  MaxFaults = 0
  MaxCrashes = 0
SPECIFICATION FairSpec
PROPERTIES
  ApprovedIsFinished
  OverdueIsClosed
