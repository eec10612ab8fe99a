SPECIFICATION Spec
CONSTANTS
  Admin = {alice}
  NoAdmin = none
  InitialAdmin = alice
  DECIMAL_ONE = 100
  HOUR = 2
  DAY = 4
  StartDays <- MCStartDays
  period = 8
  FundsRatios = {50, 120}
  Versions = {15}
  CONTRACT_VERSION = 15
  RATIO_VERSION = 16
  DEFAULT_LIMIT = 1
  MAX_LIMIT = 2
  PageLimits = {{}}
  PaymentAmounts = {1, 4}
  MemberCounts = {0, 1}
  Rewards = {5}
  BlockSteps = {1, 2}
  MaxTime = 22
  MaxFunds = 5
INVARIANTS
  TypeOK
  RecordsSpaced
  EveryPeriodSettled
  PaymentsListed
PROPERTIES
  PayoutLeavesDust
CHECK_DEADLOCK FALSE
