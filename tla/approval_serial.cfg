\* Handlers one at a time; the background executions still interleave with
\* them, and the process may restart once.
CONSTANTS
  Calls = {c1, c2}
  Chats = {h1, h2}
  Actions = {"approve", "reject", "modify"}
  MaxApprovals = 3
  NSteps = 2
  SshSteps = {2}
  ListLimit = 2
  Overlap = FALSE
  ScanFails = FALSE
  MaxFaults = 0
  MaxCrashes = 1
SPECIFICATION Spec
SYMMETRY Symmetry
INVARIANTS
  OneLivePlan
  ExecutedAtMostOnce
PROPERTY ImplementsLifecycle
