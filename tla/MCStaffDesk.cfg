\* What survives order forms that grow old.
CONSTANTS
    c1 = c1
    u1 = u1
    p1 = p1
    k1 = k1
    k2 = k2
    Guest = Guest
    Products = {p1}
    OpeningStock <- MCOpeningStock
    Deltas <- NoDeltas
    MaxStock = 1
    ExcessBound = 1
    Tokens = {k1}
    PaidKinds = {"paid", "mismatch"}
    Carts = {c1}
    Users = {u1}
    CartOwner <- MCCartOwner
    Workers = {w1, w2}
    Providers = {"cash_on_delivery", "stripe", "paypal"}
    MaxQty = 1
    CouponChoices = {FALSE}
    UsageLimit = 1
    PerUserLimit = 1
    StaffMoves <- ShipMoves
SPECIFICATION DeskSpec
INVARIANTS
    NothingShipsUnpaid
    
