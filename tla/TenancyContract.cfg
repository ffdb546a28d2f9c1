SPECIFICATION Spec
CONSTANTS
    Apps = {a1, a2}
    Users = {u1, u2}
    Keys = {k1, k2}
    Boards = {b1}
    Configs = {c1}
    MaxVersion = 2
    MaxCalls = 5
    None = None
    Requests = {p1, p2}
SYMMETRY Symmetry
INVARIANTS
    DeleteIsComplete
    IndexesAgree
    ScopeAsIssued
PROPERTIES
    RefinesStore
CHECK_DEADLOCK FALSE
