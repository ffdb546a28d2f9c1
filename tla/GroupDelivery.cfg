SPECIFICATION Spec
CONSTANTS
  NPartitions = 1
  WorkerCount = 1
  Batch = 2
  b1 = b1  b2 = b2
  s1 = s1  s2 = s2
  m1 = m1
  None = None
  Boards <- TwoBoards
  InitialBoards <- TwoBoards
  Slices <- TwoSlices
  Members <- OneMember
  Moderated <- NoMembers
  Hash <- HashZero
  Scores = {1, 2}
  Submissions <- EveryOutcome
  PolicyOf <- BestAndIncrement
  OrderOf <- Descending
  MaxLog = 3
  MaxFaults <- AllFaults
INVARIANTS
  TypeOK
  BatchIsPending
  MarkedScoreRanked
  ScoreHasSource
  BestConverges
  IncrementBounded
PROPERTIES
  MarkedNotReapplied
CHECK_DEADLOCK FALSE
