\* One browser with two requests under way, two customers.
CONSTANTS
    p1 = p1
    p2 = p2
    Browsers = {b1}
    Users = {u1, u2}
    Guest = guest
    Keys = {k1, k2, k3}
    Carts = {c1, c2}
    Orders = {o1, o2}
    Workers = {w1, w2}
    Products = {p2}
    Currency <- PriceTags
    DefaultCurrency = "USD"
    MaxQty = 1
    None = none
SYMMETRY Symmetric
SPECIFICATION CartSpec
INVARIANTS
    CartTypeOK
    OrdersSellOwnCarts
    GuestOrdersStayHere
    ClosedForOneOrder
    NoCartToMerge
    OneCurrency
