SPECIFICATION Spec
CONSTANTS
    Members = {m1}
    Minted = {plr1}
    Nicks = {n1, n2}
    Tokens = {t1, t2}
    Requests = {p1, p2}
    MaxCalls = 4
    None = None
SYMMETRY Symmetry
INVARIANTS
    OneTokenPerMember
    CountAccounts
    MintedIsCreators
CHECK_DEADLOCK FALSE
