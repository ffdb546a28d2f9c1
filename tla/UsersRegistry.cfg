SPECIFICATION Spec
CONSTANTS
  Clients = {c1, c2}
  ClaimedIds = {m1}
  MintedIds = {plr_1}
  Displays <- WithInvalid
  Lowers = {"ann", "bob"}
  Lower <- LowerOf
  Invalid = "invalid"
  Mint = Mint
  None = None
  MaxAttempts = 2
  MaxRequests = 2
  MaxLost = 1
SYMMETRY Symmetry
INVARIANTS RegistryConsistent ContentionIsReal LookupHeldDuringCall
PROPERTY ReplayedMintedDeleteIsHarmless
CHECK_DEADLOCK FALSE
