SPECIFICATION StockedSpec
SYMMETRY Symmetry
CONSTANTS
    u = u
    adm = adm
    p1 = p1
    p2 = p2
    opens = 1
    Accounts = {u, adm}
    Role <- MCRole
    Products = {p1, p2}
    Codes = {c1}
    OrderIds = {o1, o2}
    Workers = {w1, w2}
    None = None
    RateLimit = 2
    MaxTime = 2
    ProductInputs <- Stock2
    UpdateInputs <- NoInputs
    PromoInputs <- OneUse
    LineLists <- Amounts
    Requests = {"create", "update", "cancel"}
    Edits = {}
    Serial = {"caller", "order"}
INVARIANTS PromoAccounting
PROPERTIES CodeKept
CHECK_DEADLOCK FALSE
