---------------------------- MODULE MCStorefront ----------------------------
(* Values for TLC: one product with one variant, prices whose discounts and *)
(* taxes fall on and between half cents, a percentage and a fixed coupon.   *)
EXTENDS Storefront

CONSTANTS p1, v1

ParentOf == [v \in {v1} |-> p1]
Row(kind, amount, minimum, active) ==
    [kind |-> kind, amount |-> amount, minimum |-> minimum, active |-> active]
Coupons == {Row("percentage", 1250, 0, TRUE), Row("fixed", 500, 600, TRUE),
            Row("fixed", 500, 0, TRUE),
            Row("percentage", 1250, 0, FALSE)}

=============================================================================
