SPECIFICATION Spec
SYMMETRY Symmetry
CONSTANTS
    Emails = {e1, e2}
    Passwords = {x, y}
    Tokens = {t1, t2, t3, t4}
    Workers = {w1, w2}
    None = None
    AccessTTL = 1
    RefreshTTL = 1
    MaxTime = 1
    MaxLost = 1
    Reserved = 2
    AskedRoles = {None, "ADMIN"}
INVARIANTS TypeOK ClaimsCurrent Rooted ReuseBound CanGoOn
CHECK_DEADLOCK FALSE
