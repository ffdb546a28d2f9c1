SPECIFICATION Spec
CONSTANTS
    Emails = {e1}
    Users = {u1, u2}
    Passwords = {w1, w2}
    Tokens = {t1, t2, t3}
    Requests = {p1, p2}
    MaxSessions = 2
    MaxCalls = 7
    None = None
SYMMETRY Symmetry
INVARIANTS
    EmailHasItsAccount
    TokenUsedOnce
    UpdatesKept
    SessionsListed
    ResetEndsSessions
CHECK_DEADLOCK FALSE
