SPECIFICATION FairSpec
CONSTANTS
  c = 1
  a = 2
  b = 3
  d = 4
  treasury = 5
  Addr <- Pair
  Creator = 1
  InitialMembers <- NoAddr
  InitialCircle <- EarlyCircle
  Denied <- NoAddr
  Contracts <- NoAddr
  denom = "utgd"
  reward_denom = "ureward"
  ONE_TGD = 1
  DAY = 1
  DECIMAL_ONE = 10
  PRECISION_FACTOR = 10
  U64_MODULUS = 100
  POINT_SCALE = 4
  DEFAULT_LIMIT = 1
  MAX_LIMIT = 2
  PageLimits <- MCPageLimits
  InitialHeight = 1
  Contents <- WaitContents
  Payments = {1, 2}
  Rewards = {}
  CastVotes = {}
  BlockSteps = {1}
  MaxHeight = 3
  MaxProposals = 2
  MaxPaid = 2
  MaxRewards = 0
PROPERTIES
  LeaverRefunded
  PaidIsPromoted
CHECK_DEADLOCK FALSE
