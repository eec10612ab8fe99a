SPECIFICATION Spec
CONSTANTS
  a = 1
  b = 2
  c = 3
  Addr <- MCAddr
  Group <- MCAddr
  Disputes <- MCDisputes
  ArbiterLists <- MCLists
  CastVotes = {"Yes", "No"}
  DECIMAL_ONE = 4
  PRECISION_FACTOR = 10
  dispute_cost = 5
  InitialConfigs <- Before
  MigrateMsgs <- Migrations
  MultisigCodes = {1}
  DEFAULT_LIMIT = 2
  MAX_LIMIT = 3
  PageLimits <- MCPageLimits
  MaxComplaints = 2
  MaxProposals = 2
  MaxTime = 2
INVARIANTS
  TypeOK
  DepositsBacked
  OneMultisigPerCase
  PassedCanRender
  DecidedByMajority
  AwardReachesAll
  ContractsAgree
PROPERTIES
  CaseLifecycle
  DecisionIsSure
  MigrationKeepsCases
CHECK_DEADLOCK FALSE
