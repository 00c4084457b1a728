\* "Modify & Approve" on a plan, nothing fails.
CONSTANTS
  Calls = {c1}
  Chats = {}
  Actions = {"modify"}
  MaxApprovals = 1
  NSteps = 1
  SshSteps = {1}
  ListLimit = 1
  Overlap = TRUE
  ScanFails = FALSE
  MaxFaults = 0
  MaxCrashes = 0
SPECIFICATION FairSpec
PROPERTY ModifiedIsExecuted
