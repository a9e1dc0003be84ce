\* A verified "paid" event that arrives after the payment was failed.
CONSTANTS
    c1 = c1
    c2 = c2
    u1 = u1
    p1 = p1
    k1 = k1
    k2 = k2
    Guest = Guest
    Products = {p1}
    OpeningStock <- MCOpeningStock
    Deltas <- NoDeltas
    MaxStock = 1
    Tokens = {k1}
    PaidKinds = {"paid"}
    Carts = {c1}
    Users = {u1}
    CartOwner <- GuestCarts
    Workers = {w1}
    Providers = {"stripe"}
    MaxQty = 1
    CouponChoices = {FALSE}
    UsageLimit = 2
    PerUserLimit = 1
    StaffMoves <- NoMoves
SPECIFICATION NotifiedSpec
PROPERTIES
    NotificationIsAuthoritative
