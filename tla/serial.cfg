SPECIFICATION StockedSpec
SYMMETRY Symmetry
CONSTANTS
    u = u
    adm = adm
    p1 = p1
    p2 = p2
    opens = 0
    Accounts = {u, adm}
    Role <- MCRole
    Products = {p1, p2}
    Codes = {}
    OrderIds = {o1, o2}
    Workers = {w1, w2}
    None = None
    RateLimit = 2
    MaxTime = 2
    ProductInputs <- Stock3
    UpdateInputs <- NoInputs
    PromoInputs <- AnyOrder
    LineLists <- OneOrMore
    Requests = {"create", "update", "cancel"}
    Edits = {}
    Serial = {"caller", "order"}
INVARIANTS Conservation OneActiveOrder OrderSpacing BilledIsItems
PROPERTIES CanceledFrozen UnitsMoveAtOnce
CHECK_DEADLOCK FALSE
