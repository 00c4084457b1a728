\* One alert through the pipeline, once for each way the program is set up,
\* with votes on an earlier plan and edited runbooks around it.
CONSTANTS
  HighShare = 50
  CriticalShare = 80
  MaxRetries = 1
  MaxText = 4
  PoolSize = 3
  TopIncidents = 2
  Files = {1, 2}
  TopRunbooks = 1
  MaxEdits = 2
  MaxTimeouts = 1
  Presses = {p1, p2}
  Voted = "a1"
  ApprovalPage = 1
  MaxApprovals = 2
  Queries = {"cpu"}
  Alert <- MCAlert
  AlertRows <- MCAlertRows
  Relevance <- MCRelevance
  Setups <- MCSetups
  Plans <- MCPlans
  Answers <- MCAnswers
SPECIFICATION FairSpec
\* The behaviours are bounded: when all has ended nothing is left to do.
CHECK_DEADLOCK FALSE
INVARIANTS
  TypeOK
  ForbiddenIsMarked
  OwnImpact
  RiskNotLowered
  MissingDataIsTold
  OutageIsCritical
  HistoryIsReal
  ExtractsTheObject
  SuccessIsReal
  OutcomeIsFaithful
PROPERTIES
  BadReloadKeepsRunbooks
  FilesEventuallyServed
  EveryAlertIsTold
