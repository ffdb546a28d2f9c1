SPECIFICATION Spec
CONSTANTS
  NPartitions = 2
  WorkerCount = 2
  Batch = 2
  b1 = b1  b2 = b2
  s1 = s1  s2 = s2
  m1 = m1
  None = None
  Boards <- OneBoard
  InitialBoards <- OneBoard
  Slices <- OneSlice
  Members <- OneMember
  Moderated <- OneMember
  Hash <- HashZero
  Scores = {1, 2}
  Submissions <- TwoScores
  PolicyOf <- LastPolicy
  OrderOf <- Ascending
  MaxLog = 3
  MaxFaults <- RequestFaults
INVARIANTS
  FaultFreeConverges
  FaultFreeNoResurrection
