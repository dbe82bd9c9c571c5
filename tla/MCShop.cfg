SPECIFICATION Spec
CONSTANTS
    p1 = p1
    p2 = p2
    u1 = u1
    o1 = o1
    Product = {p1, p2}
    Active = {p1, p2}
    Tracked = {p1}
    Opening <- OneEach
    User = {u1, u2}
    Order = {o1, o2}
    Key = {}
    Worker = {w1, w2}
    UsageLimit = 1
    Filled <- Crossed
    MaxEdits = 2
    MaxQuantity = 2
    Intents <- TwoForFirst
    Counts = {2}
    AdminStatus = {"cancelled", "pending"}
    NoUser = NoUser
    NoOrder = NoOrder
    NoProduct = NoProduct
    NoKey = NoKey
    NoWorker = NoWorker
INVARIANTS PaidIsTaken PromoAccounted DeliveredIsSettled
PROPERTY RefinesStock
CHECK_DEADLOCK FALSE
SYMMETRY Symmetry
