SPECIFICATION FairSpec
CONSTANTS
  Names <- MCNames
  Amounts = {1}
  Times = {1, 3}
  HalfRange = 2
  RewardHalves = 5
  Meets <- MCMeets
  SeededShuffle = FALSE
  RngStates = 3
  MaxBlocks = 3
  MaxPending = 2
INVARIANTS
  ChainLinked
  AcceptedAsMined
  NothingLost
  AlterationNoticed
PROPERTIES
  MiningEnds
CHECK_DEADLOCK FALSE
