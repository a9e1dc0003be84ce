\* Stock of at most two units, two prices, tax of 7.5 percent.
CONSTANTS
    p1 = p1
    v1 = v1
    Products = {p1}
    Variants = {v1}
    Parent <- ParentOf
    Prices = {340, 1020}
    CouponRows <- Coupons
    MaxStock = 2
    TaxNum = 75
    TaxDen = 1000
    NoPrice = noPrice
    None = none
SPECIFICATION StoreSpec
INVARIANTS
    StoreTypeOK
    ShownInStockIsAddable
    OrderAddsUp
PROPERTIES
    CouponHonoured
