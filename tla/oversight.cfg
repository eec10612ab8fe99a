SPECIFICATION Spec
CONSTANTS
  alice = 1
  bob = 2
  Addr <- MCAddr
  Groups <- MCGroups
  rules <- MCRules
  DAY = 2
  BLOCK_SECONDS = 1
  DECIMAL_ONE = 10
  PRECISION_FACTOR = 10
  U64_MODULUS = 100
  Contents <- MCContents
  Validators <- MCValidators
  InitialConfig <- MCConfig
  CastVotes = {"No"}
  MaxHeight = 3
  MaxProposals = 2
  DEFAULT_LIMIT = 1
  MAX_LIMIT = 2
  PageLimits <- MCPageLimits
INVARIANTS
  TypeOK
  PunishedInFull
  GrantsPaidOnce
  TallyOfElectorate
  DecidedByElectorate
PROPERTIES
  ReportsStay
CHECK_DEADLOCK FALSE
