\* Orders after checkout: cash on delivery and card, a coupon that may be used
\* once, customers who cancel and ask for returns and refunds, staff who move
\* orders along and correct the stock.
CONSTANTS
    c1 = c1
    c2 = c2
    u1 = u1
    p1 = p1
    k1 = k1
    k2 = k2
    Guest = Guest
    Products = {p1}
    OpeningStock <- MCOpeningStock
    Deltas <- MCDeltas
    MaxStock = 2
    Tokens = {k1, k2}
    PaidKinds = {"paid"}
    Carts = {c1, c2}
    Users = {u1}
    CartOwner <- UserCarts
    Workers = {w1}
    Providers = {"cash_on_delivery", "stripe"}
    MaxQty = 1
    CouponChoices = {TRUE, FALSE}
    UsageLimit = 1
    PerUserLimit = 2
    StaffMoves <- LifecycleMoves
SPECIFICATION Spec
INVARIANTS
    RefundOnFile
    CouponWithinLimit
PROPERTIES
    StockPromise
SYMMETRY TokenSymmetry
