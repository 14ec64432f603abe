SPECIFICATION StockedFairSpec

CONSTANTS
    u = u
    adm = adm
    p1 = p1
    p2 = p2
    opens = 0
    Accounts = {u, adm}
    Role <- OneCaller
    Products = {p1, p2}
    Codes = {c1}
    OrderIds = {o1, o2}
    Workers = {w1, w2}
    None = None
    RateLimit = 1
    MaxTime = 0
    ProductInputs <- Stock2
    UpdateInputs <- NoInputs
    PromoInputs <- AnyOrder
    LineLists <- Crossing
    Requests = {"create", "get", "update", "cancel"}
    Edits = {}
    Serial = {"order"}
PROPERTIES Answered
CHECK_DEADLOCK FALSE
