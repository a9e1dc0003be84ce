\* Two checkouts compete for the carts and for the last unit of each of two
\* products, paid by card.
CONSTANTS
    c1 = c1
    c2 = c2
    u1 = u1
    p1 = p1
    k1 = k1
    k2 = k2
    Guest = Guest
    Products = {p1, p2}
    OpeningStock <- OneEach
    Deltas <- NoDeltas
    MaxStock = 1
    Tokens = {k1, k2}
    PaidKinds = {"paid", "mismatch"}
    Carts = {c1, c2}
    Users = {u1}
    CartOwner <- MixedCarts
    Workers = {w1}
    Providers = {"stripe"}
    MaxQty = 1
    CouponChoices = {FALSE}
    UsageLimit = 1
    PerUserLimit = 1
    StaffMoves <- NoMoves
SPECIFICATION Spec
INVARIANTS
    TypeOK
    UnitsConserved
    OneAttemptPerCart
SYMMETRY TokenSymmetry
