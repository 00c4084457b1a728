\* Two overlapping callbacks, one revision and the expiry loop; any one store
\* call may fail.
CONSTANTS
  Calls = {c1, c2}
  Chats = {h1}
  Actions = {"approve", "reject"}
  MaxApprovals = 2
  NSteps = 2
  SshSteps = {2}
  ListLimit = 1
  Overlap = TRUE
  ScanFails = FALSE
  MaxFaults = 1
  MaxCrashes = 0
SPECIFICATION Spec
SYMMETRY Symmetry
INVARIANTS
  TypeOK
  ExecutionAuthorised
  StepsInOrder
  CompletedMeansAllRan
  LogIsTruthful
  SupersededHasSuccessor
  ExpiredIsOverdue
  NoOrphan
PROPERTY FinalStaysFinal
