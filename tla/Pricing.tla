------------------------------ MODULE Pricing ------------------------------
(***************************************************************************)
(* The arithmetic of cart_summary (apps/cart/services.py): line totals,    *)
(* discount, tax and shipping.                                             *)
(*                                                                         *)
(* Money is an integer number of cents, which is what the two decimal      *)
(* places of every price column hold.  The amount of a percentage coupon   *)
(* has two places as well: an integer number of hundredths of a percent.   *)
(* The tax rate is a fraction.  The code works on decimals of 28 digits    *)
(* and rounds where _money does; on the amounts of a shop the products     *)
(* below are exact in it, as they are here.                                *)
(***************************************************************************)
EXTENDS Integers, FiniteSets, Functions

CONSTANTS
    TaxNum, TaxDen,   \* settings.CHECKOUT_TAX_RATE as a fraction
    NoPrice           \* a variant without a price of its own

ASSUME PricingAssumption ==
    /\ TaxNum \in Nat
    /\ TaxDen \in Nat \ {0}
    /\ NoPrice \notin Int

ShippingMethods == {"standard", "express"}
ShippingPrice(method) == IF method = "standard" THEN 1000 ELSE 2500

\* _money: the fraction n / d of a cent to whole cents, halves up.
RoundHalfUp(n, d) == (2 * n + d) \div (2 * d)

\* The properties' own notion of rounding: q is a nearest integer to n / d,
\* and the larger one of two.
Nearest(q, n, d) ==
    /\ 2 * (d * q - n) <= d
    /\ -d < 2 * (d * q - n)

\* _line_price: the variant's own price, if it has one, or the product's.
LinePrice(base, override) == IF override = NoPrice THEN base ELSE override

Lesser(m, n) == IF m <= n THEN m ELSE n

\* _discount, for a coupon that was found valid.
Discount(coupon, subtotal) ==
    IF coupon.kind = "percentage"
    THEN RoundHalfUp(Lesser(subtotal * 10000, subtotal * coupon.amount), 10000)
    ELSE Lesser(subtotal, coupon.amount)

\* The last lines of cart_summary.  lines maps each target that is for sale
\* to its price and quantity; discount is what the coupon takes off.
Figures(lines, subtotal, discount, method) ==
    LET taxable == IF subtotal >= discount THEN subtotal - discount ELSE 0
        tax == RoundHalfUp(taxable * TaxNum, TaxDen)
    IN  [lines |-> lines, subtotal |-> subtotal, discount |-> discount,
         tax |-> tax, shipping |-> ShippingPrice(method),
         grand |-> taxable + tax + ShippingPrice(method)]

\* Line totals are products of whole cents and whole units, which _money
\* leaves as they are.
Subtotal(lines) ==
    SumFunction([t \in DOMAIN lines |-> lines[t].price * lines[t].qty])

=============================================================================
