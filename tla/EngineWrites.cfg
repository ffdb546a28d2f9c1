SPECIFICATION Spec
CONSTANTS
  Members = {1, 2}
  NShards = 2
  ShardOf <- ByParity
  Configs <- FourConfigs
  ScoreBits = 2
  MantissaBits = 4
  ApproxMin = 0
  ApproxMax = 3
  ApproxBuckets = 2
  None = None
  Events <- TimedScores
  Removers = {handler, consumer}
  MaxOps = 3
  MaxCrashes = 2
INVARIANTS
  HistogramDriftBounded
  FirstToReachOrder
CHECK_DEADLOCK FALSE
