SPECIFICATION Spec
SYMMETRY Symmetry
CONSTANTS
    u = u
    adm = adm
    p1 = p1
    p2 = p2
    opens = 0
    Accounts = {u, adm}
    Role <- MCRole
    Products = {p1, p2}
    Codes = {c1}
    OrderIds = {o1, o2, o3}
    Workers = {w1, w2}
    None = None
    RateLimit = 0
    MaxTime = 0
    ProductInputs <- Stock3
    UpdateInputs <- NoInputs
    PromoInputs <- AnyOrder
    LineLists <- EitherUnit
    Requests = {"create", "cancel"}
    Edits = {"create", "promo"}
    Serial = {}
INVARIANTS TypeOK OverdraftBound ActiveBound
CHECK_DEADLOCK FALSE
