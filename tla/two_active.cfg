SPECIFICATION StockedSpec

CONSTANTS
    u = u
    adm = adm
    p1 = p1
    p2 = p2
    opens = 0
    Accounts = {u, adm}
    Role <- MCRole
    Products = {p1}
    Codes = {}
    OrderIds = {o1, o2}
    Workers = {w1, w2}
    None = None
    RateLimit = 1
    MaxTime = 0
    ProductInputs <- Stock3
    UpdateInputs <- NoInputs
    PromoInputs <- AnyOrder
    LineLists <- OneUnit
    Requests = {"create"}
    Edits = {}
    Serial = {}
INVARIANTS OneActiveOrder
CHECK_DEADLOCK FALSE
