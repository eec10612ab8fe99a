SPECIFICATION Spec
CONSTANTS
  c = 1
  a = 2
  b = 3
  d = 4
  treasury = 5
  Addr <- Pair
  Creator = 1
  InitialMembers <- NoAddr
  InitialCircle <- EarlyCircle
  Denied <- NoAddr
  Contracts <- NoAddr
  denom = "utgd"
  reward_denom = "ureward"
  ONE_TGD = 1
  DAY = 3
  DECIMAL_ONE = 10
  PRECISION_FACTOR = 10
  U64_MODULUS = 100
  POINT_SCALE = 2
  DEFAULT_LIMIT = 1
  MAX_LIMIT = 2
  PageLimits = {{}}
  InitialHeight = 1
  Contents <- UpkeepContents
  Payments = {1, 2}
  Rewards = {3}
  CastVotes = {}
  BlockSteps = {3}
  MaxHeight = 3
  MaxProposals = 2
  MaxPaid = 3
  MaxRewards = 3
INVARIANTS
  TypeOK
  VotingMatchesTotal
  WaitingCoversPending
  BatchIdsFresh
  VotersHoldEscrow
  LeaverHeldToVotes
  RewardsSolvent
  ListsAgree
PROPERTIES
  FrozenRulesStay
  MembersLifecycle
CHECK_DEADLOCK FALSE
