SPECIFICATION ReadSpec
CONSTANTS
  Members = {1, 2, 3, 4}
  NShards = 2
  ShardOf <- ByParity
  Configs <- BothOrders
  ScoreBits = 2
  MantissaBits = 4
  ApproxMin = 0
  ApproxMax = 4
  ApproxBuckets = 2
  None = None
  Events <- MixedScores
  Removers = {handler}
  MaxOps = 0
  MaxCrashes = 0
INVARIANTS
  ShardedPagesExact
  ApproxRankBrackets
  UntiedNeighborsExact
  FriendsAgree
CHECK_DEADLOCK FALSE
