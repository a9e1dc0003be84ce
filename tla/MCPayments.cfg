\* Two payments at a card or a PayPal account: the return of the buyer, webhooks,
\* the cancel link and the scheduled sweep settle them in any order.
CONSTANTS
    c1 = c1
    c2 = c2
    u1 = u1
    p1 = p1
    k1 = k1
    k2 = k2
    Guest = Guest
    Products = {p1}
    OpeningStock <- MCOpeningStock
    Deltas <- NoDeltas
    MaxStock = 1
    Tokens = {k1, k2}
    PaidKinds = {"paid", "mismatch"}
    Carts = {c1}
    Users = {u1}
    CartOwner <- GuestCarts
    Workers = {w1}
    Providers = {"stripe", "paypal"}
    MaxQty = 1
    CouponChoices = {FALSE}
    UsageLimit = 1
    PerUserLimit = 1
    StaffMoves <- ShipMoves
SPECIFICATION SweptSpec
INVARIANTS
    NothingShipsUnpaid
    ConfirmedOnce
    PaymentMatchesOrder
PROPERTIES
    SettledForGood
    PendingSettles
