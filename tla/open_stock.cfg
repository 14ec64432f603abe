SPECIFICATION StockedSpec
SYMMETRY Symmetry
CONSTANTS
    u = u
    adm = adm
    p1 = p1
    p2 = p2
    opens = 0
    Accounts = {u, adm}
    Role <- OneCaller
    Products = {p1, p2}
    Codes = {}
    OrderIds = {o1, o2}
    Workers = {w1, w2}
    None = None
    RateLimit = 2
    MaxTime = 1
    ProductInputs <- Stock2
    UpdateInputs <- Changes
    PromoInputs <- AnyOrder
    LineLists <- OnlyBoth
    Requests = {"create", "update"}
    Edits = {"update", "delete"}
    Serial = {}
INVARIANTS StockCheckSuffices RateBound
PROPERTIES SoldAsListed
CHECK_DEADLOCK FALSE
