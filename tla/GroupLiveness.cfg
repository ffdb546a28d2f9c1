SPECIFICATION FairSpec
CONSTANTS
  NPartitions = 1
  WorkerCount = 2
  Batch = 1
  b1 = b1  b2 = b2
  s1 = s1  s2 = s2
  m1 = m1
  None = None
  Boards <- OneBoard
  InitialBoards <- NoBoards
  Slices <- OneSlice
  Members <- OneMember
  Moderated <- OneMember
  Hash <- HashZero
  Scores = {1, 2}
  Submissions <- OneScore
  PolicyOf <- BestPolicy
  OrderOf <- Descending
  MaxLog = 2
  MaxFaults <- OneCrash
INVARIANTS
  DropsAreUnseen
PROPERTIES
  AcceptedIsHandled
