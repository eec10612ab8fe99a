SPECIFICATION Spec
CONSTANTS
  a = a
  b = b
  c = c
  Voters <- MCVoters
  Releases <- MCReleases
  MIGRATED_BELOW = 2
  RENAMED = 3
  CONTRACT_VERSION = 4
  MaxProposals = 2
INVARIANTS
  TallySurvives
CHECK_DEADLOCK FALSE
