----------------------------- MODULE StoreProofs -----------------------------
(***************************************************************************)
(* Theorems about Storefront and the arithmetic of Pricing, for any        *)
(* products and variants, prices, tax rate and coupons.                    *)
(*                                                                         *)
(* The figures of an order are right when it is written (SummaryAddsUp)    *)
(* and nothing but the answer to its payment follows, so what has to be    *)
(* carried along is that stock has room for the units to come back.        *)
(***************************************************************************)
EXTENDS Storefront, SumProofs

\* What is on the order was in stock, and there is room for it to return.
RoomToReturn ==
    order # None =>
        \A t \in DOMAIN order.lines : StockOf(t) + order.lines[t].qty <= MaxStock

StoreInv == StoreTypeOK /\ RoomToReturn

-----------------------------------------------------------------------------
(* Arithmetic *)

\* _money of a fraction of a cent is a whole amount, and the nearest one.
LEMMA Rounding ==
    ASSUME NEW n \in Nat, NEW d \in Nat \ {0}
    PROVE  RoundHalfUp(n, d) \in Nat /\ Nearest(RoundHalfUp(n, d), n, d)
<1> DEFINE a == 2 * n + d
<1> DEFINE b == 2 * d
<1> DEFINE q == a \div b
<1>1. a \in Nat /\ b \in Nat \ {0} /\ d \in Nat /\ n \in Nat
  OBVIOUS
<1>2. q \in Nat /\ b * q <= a /\ a < b * q + b
  <2> HIDE DEF a, b
  <2>1. QED
    BY <1>1
<1>3. d * q \in Nat /\ b * q = 2 * (d * q)
  <2> HIDE DEF q, a
  <2>1. QED
    BY <1>1, <1>2
<1>4. 2 * (d * q - n) <= d /\ -d < 2 * (d * q - n)
  <2> HIDE DEF q
  <2> DEFINE m == d * q
  <2>1. m \in Nat /\ 2 * m <= 2 * n + d /\ 2 * n + d < 2 * m + 2 * d
    BY <1>2, <1>3
  <2>2. 2 * (m - n) <= d /\ -d < 2 * (m - n)
    <3> HIDE DEF m
    <3>1. QED
      BY <1>1, <2>1
  <2>3. QED
    BY <2>2
<1>5. RoundHalfUp(n, d) = q
  BY DEF RoundHalfUp
<1>6. QED
  BY <1>2, <1>4, <1>5 DEF Nearest

\* What a valid coupon takes off is never more than the lines cost, and it is
\* the percentage, to the nearest cent, or the amount the coupon stands for.
LEMMA DiscountFits ==
    ASSUME NEW c \in CouponRows, NEW subtotal \in Nat
    PROVE  /\ Discount(c, subtotal) \in Nat
           /\ Discount(c, subtotal) <= subtotal
           /\ IF c.kind = "percentage"
              THEN Nearest(Discount(c, subtotal), subtotal * c.amount, 10000)
              ELSE \/ Discount(c, subtotal) = c.amount
                   \/ subtotal <= c.amount /\ Discount(c, subtotal) = subtotal
<1>1. c.amount \in Nat /\ (c.kind = "percentage" => c.amount <= 10000)
  BY StorefrontAssumption
<1>2. CASE c.kind = "percentage"
  <2> DEFINE n == subtotal * c.amount
  <2> DEFINE q == RoundHalfUp(n, 10000)
  <2>1. n \in Nat /\ n <= subtotal * 10000
    <3> DEFINE amount == c.amount
    <3>1. amount \in Nat /\ amount <= 10000
      BY <1>1, <1>2
    <3> HIDE DEF amount
    <3>2. subtotal * amount \in Nat /\ subtotal * amount <= subtotal * 10000
      BY <3>1
    <3>3. QED
      BY <3>2 DEF amount
  <2>2. Discount(c, subtotal) = q
    <3>1. Discount(c, subtotal) = RoundHalfUp(Lesser(subtotal * 10000, n), 10000)
      BY <1>2 DEF Discount
    <3>2. Lesser(subtotal * 10000, n) = n
      <4> HIDE DEF n
      <4>1. QED
        BY <2>1 DEF Lesser
    <3>3. QED
      BY <3>1, <3>2
  <2> HIDE DEF n
  <2>3. q \in Nat /\ Nearest(q, n, 10000)
    BY <2>1, Rounding
  <2> HIDE DEF q
  <2>4. q <= subtotal
    BY <2>1, <2>3 DEF Nearest
  <2>5. QED
    BY <1>2, <2>2, <2>3, <2>4 DEF n
<1>3. CASE c.kind # "percentage"
  BY <1>1, <1>3 DEF Discount, Lesser
<1>4. QED
  BY <1>2, <1>3

\* The last lines of cart_summary add up.
LEMMA FiguresAddUp ==
    ASSUME NEW lines, NEW subtotal \in Nat, NEW discount \in Nat, discount <= subtotal,
           NEW method \in ShippingMethods
    PROVE  LET f == Figures(lines, subtotal, discount, method) IN
           /\ f = [lines |-> lines, subtotal |-> subtotal, discount |-> discount,
                   tax |-> f.tax, shipping |-> f.shipping, grand |-> f.grand]
           /\ f.lines = lines /\ f.subtotal = subtotal /\ f.discount = discount
           /\ f.tax \in Nat
           /\ Nearest(f.tax, (subtotal - discount) * TaxNum, TaxDen)
           /\ f.shipping \in {1000, 2500}
           /\ f.grand \in Nat
           /\ f.grand + discount = subtotal + f.tax + f.shipping
<1> DEFINE taxable == subtotal - discount
<1> DEFINE tax == RoundHalfUp(taxable * TaxNum, TaxDen)
<1> DEFINE shipping == ShippingPrice(method)
<1> DEFINE grand == taxable + tax + shipping
<1>1. taxable \in Nat /\ taxable + discount = subtotal
  OBVIOUS
<1>2. shipping \in {1000, 2500}
  BY DEF ShippingPrice
<1>3. tax \in Nat /\ Nearest(tax, taxable * TaxNum, TaxDen)
  <2> HIDE DEF taxable
  <2>1. taxable * TaxNum \in Nat /\ TaxDen \in Nat \ {0}
    BY <1>1, PricingAssumption
  <2>2. QED
    BY <2>1, Rounding
<1>4. grand \in Nat /\ grand + discount = subtotal + tax + shipping
  <2> HIDE DEF taxable, tax, shipping
  <2>1. QED
    BY <1>1, <1>2, <1>3
<1> DEFINE f == [lines |-> lines, subtotal |-> subtotal, discount |-> discount,
                 tax |-> tax, shipping |-> shipping, grand |-> grand]
<1>5. Figures(lines, subtotal, discount, method) = f
  BY DEF Figures
<1> HIDE DEF tax, shipping, grand
<1>6. /\ f.lines = lines /\ f.subtotal = subtotal /\ f.discount = discount
      /\ f.tax = tax /\ f.shipping = shipping /\ f.grand = grand
  OBVIOUS
<1>7. QED
  BY <1>2, <1>3, <1>4, <1>5, <1>6

-----------------------------------------------------------------------------
(* What a checkout writes *)

\* A line for sale has a price of the catalog and units.
LEMMA LinesForSale ==
    ASSUME StoreTypeOK
    PROVE  /\ ForSale \subseteq Targets
           /\ \A t \in Targets : PriceOf(t) \in Prices
           /\ SaleLines \in [ForSale -> OrderLines]
<1>1. \A t \in Targets : PriceOf(t) \in Prices
  BY StorefrontAssumption
     DEF StoreTypeOK, PriceOf, LinePrice, Targets, ProductRows, VariantRows
<1>2. \A t \in ForSale : t \in Targets /\ cart.lines[t].qty \in 1 .. MaxStock
  BY StorefrontAssumption DEF StoreTypeOK, ForSale, CartRows
<1>3. QED
  BY <1>1, <1>2 DEF SaleLines, OrderLines

\* The costs of lines are whole cents, and so is their sum.
LEMMA SubtotalIsWhole ==
    ASSUME NEW T \in SUBSET Targets, NEW lines \in [T -> OrderLines]
    PROVE  Subtotal(lines) \in Nat
<1> DEFINE costs == [t \in DOMAIN lines |-> lines[t].price * lines[t].qty]
<1>1. IsFiniteSet(T)
  BY StorefrontAssumption, FS_Subset
<1>2. DOMAIN lines = T /\ DOMAIN costs = T
  OBVIOUS
<1>3. \A t \in T : costs[t] \in Nat
  <2> SUFFICES ASSUME NEW t \in T PROVE costs[t] \in Nat
      OBVIOUS
  <2>1. lines[t] \in OrderLines
    OBVIOUS
  <2>2. lines[t].price \in Nat /\ lines[t].qty \in Nat
    <3>1. Prices \subseteq Nat /\ 1 .. MaxStock \subseteq Nat
      BY StorefrontAssumption
    <3>2. lines[t].price \in Prices /\ lines[t].qty \in 1 .. MaxStock
      BY <2>1 DEF OrderLines
    <3>3. QED
      BY <3>1, <3>2
  <2>3. lines[t].price * lines[t].qty \in Nat
    BY <2>2
  <2>4. QED
    BY <2>3
<1> HIDE DEF costs
<1>4. SumFunctionOnSet(costs, T) \in Nat
  BY <1>1, <1>3, SumNat
<1>5. QED
  BY <1>2, <1>4 DEF Subtotal, SumFunction, costs

\* The order that a checkout writes.
LEMMA SummaryAddsUp ==
    ASSUME StoreTypeOK, NEW method \in ShippingMethods
    PROVE  LET o == Summary(method) IN
           /\ o \in OrderRows
           /\ o.lines = SaleLines
           /\ o.subtotal = Subtotal(SaleLines)
           /\ o.discount <= o.subtotal
           /\ Nearest(o.tax, (o.subtotal - o.discount) * TaxNum, TaxDen)
           /\ o.grand + o.discount = o.subtotal + o.tax + o.shipping
           /\ o.shipping \in {1000, 2500}
           /\ o.discount = IF cart.coupon THEN Discount(coupon, o.subtotal) ELSE 0
<1> DEFINE subtotal == Subtotal(SaleLines)
<1> DEFINE discount == IF cart.coupon THEN Discount(coupon, subtotal) ELSE 0
<1> DEFINE o == Figures(SaleLines, subtotal, discount, method)
<1>1. Summary(method) = o
  BY DEF Summary
<1>2. ForSale \in SUBSET Targets /\ SaleLines \in [ForSale -> OrderLines]
  BY LinesForSale
<1>3. subtotal \in Nat
  BY <1>2, SubtotalIsWhole
<1> HIDE DEF subtotal
<1>4. discount \in Nat /\ discount <= subtotal
  BY <1>3, DiscountFits DEF StoreTypeOK
<1>5. discount = IF cart.coupon THEN Discount(coupon, subtotal) ELSE 0
  OBVIOUS
<1> HIDE DEF discount
<1>6. /\ o = [lines |-> SaleLines, subtotal |-> subtotal, discount |-> discount,
              tax |-> o.tax, shipping |-> o.shipping, grand |-> o.grand]
      /\ o.lines = SaleLines /\ o.subtotal = subtotal /\ o.discount = discount
      /\ o.tax \in Nat
      /\ Nearest(o.tax, (subtotal - discount) * TaxNum, TaxDen)
      /\ o.shipping \in {1000, 2500}
      /\ o.grand \in Nat
      /\ o.grand + discount = subtotal + o.tax + o.shipping
  BY <1>3, <1>4, FiguresAddUp
<1> HIDE DEF o
<1>7. o \in OrderRows
  <2>1. SaleLines \in UNION {[T -> OrderLines] : T \in SUBSET Targets}
    BY <1>2
  <2>2. o.shipping \in Nat
    BY <1>6
  <2>3. QED
    BY <1>3, <1>4, <1>6, <2>1, <2>2 DEF OrderRows
<1>8. QED
  BY <1>1, <1>4, <1>5, <1>6, <1>7 DEF subtotal

-----------------------------------------------------------------------------
(* Steps *)

\* adjust_inventory leaves all of a row but its stock.
LEMMA RowsAfterTaking ==
    ASSUME StoreTypeOK, NEW lines, NEW sign \in {-1, 1}, TakeStock(lines, sign),
           \A t \in Targets : t \in DOMAIN lines =>
               lines[t].qty \in Nat /\ StockOf(t) + sign * lines[t].qty \in 0 .. MaxStock
    PROVE  /\ product' \in [Products -> ProductRows]
           /\ variant' \in [Variants -> VariantRows]
           /\ \A p \in Products : product'[p].price = product[p].price
           /\ \A v \in Variants : variant'[v].override = variant[v].override
           /\ \A t \in Targets :
                StockOf(t)' = IF t \in DOMAIN lines THEN StockOf(t) + sign * lines[t].qty
                              ELSE StockOf(t)
<1> DEFINE Units(t) == IF t \in DOMAIN lines THEN sign * lines[t].qty ELSE 0
<1>1. ASSUME NEW t \in Targets
      PROVE  /\ StockOf(t) + Units(t) \in 0 .. MaxStock
             /\ StockOf(t) + Units(t) = IF t \in DOMAIN lines THEN StockOf(t) + sign * lines[t].qty
                                        ELSE StockOf(t)
  <2>1. StockOf(t) \in 0 .. MaxStock
    BY DEF StoreTypeOK, StockOf, Targets, ProductRows, VariantRows
  <2>2. QED
    BY <2>1, StorefrontAssumption
<1>2. /\ product' = [p \in Products |-> [product[p] EXCEPT !.stock = @ + Units(p)]]
      /\ variant' = [v \in Variants |-> [variant[v] EXCEPT !.stock = @ + Units(v)]]
  BY DEF TakeStock
<1> HIDE DEF Units
<1>3. ASSUME NEW p \in Products
      PROVE  /\ product'[p] \in ProductRows
             /\ product'[p].price = product[p].price
             /\ product'[p].stock = StockOf(p) + Units(p)
  <2>1. StockOf(p) = product[p].stock /\ StockOf(p) + Units(p) \in 0 .. MaxStock
    BY <1>1 DEF StockOf, Targets
  <2>2. product[p] \in ProductRows
    BY DEF StoreTypeOK
  <2>3. product'[p] = [product[p] EXCEPT !.stock = StockOf(p) + Units(p)]
    BY <1>2, <2>1
  <2>4. QED
    BY <2>1, <2>2, <2>3 DEF ProductRows
<1>4. ASSUME NEW v \in Variants
      PROVE  /\ variant'[v] \in VariantRows
             /\ variant'[v].override = variant[v].override
             /\ variant'[v].stock = StockOf(v) + Units(v)
  <2>1. StockOf(v) = variant[v].stock /\ StockOf(v) + Units(v) \in 0 .. MaxStock
    BY <1>1, StorefrontAssumption DEF StockOf, Targets
  <2>2. variant[v] \in VariantRows
    BY DEF StoreTypeOK
  <2>3. variant'[v] = [variant[v] EXCEPT !.stock = StockOf(v) + Units(v)]
    BY <1>2, <2>1
  <2>4. QED
    BY <2>1, <2>2, <2>3 DEF VariantRows
<1>5. product' \in [Products -> ProductRows] /\ variant' \in [Variants -> VariantRows]
  BY <1>2, <1>3, <1>4
<1>6. \A t \in Targets : StockOf(t)' = StockOf(t) + Units(t)
  BY <1>3, <1>4 DEF StockOf, Targets
<1>7. QED
  BY <1>1, <1>3, <1>4, <1>5, <1>6

\* The invariants of an order: they hold of the one a checkout writes.
LEMMA CheckoutStep ==
    ASSUME StoreInv, NEW method \in ShippingMethods, Checkout(method)
    PROVE  StoreInv' /\ OrderAddsUp'
<1> DEFINE o == Summary(method)
<1>1. StoreTypeOK
  BY DEF StoreInv
<1>2. /\ o \in OrderRows
      /\ o.lines = SaleLines
      /\ o.subtotal = Subtotal(SaleLines)
      /\ o.discount <= o.subtotal
      /\ Nearest(o.tax, (o.subtotal - o.discount) * TaxNum, TaxDen)
      /\ o.grand + o.discount = o.subtotal + o.tax + o.shipping
      /\ o.shipping \in {1000, 2500}
  BY <1>1, SummaryAddsUp
<1>3. /\ order' = o
      /\ TakeStock(SaleLines, -1)
      /\ cart' = [cart EXCEPT !.active = FALSE]
      /\ UNCHANGED <<coupon, clock, wishes>>
      /\ ForSale # {}
      /\ \A t \in ForSale : cart.lines[t].qty <= StockOf(t)
  BY DEF Checkout
<1> HIDE DEF o
<1>4. /\ ForSale \subseteq Targets
      /\ DOMAIN SaleLines = ForSale
      /\ \A t \in ForSale : SaleLines[t].price = PriceOf(t) /\ SaleLines[t].qty = cart.lines[t].qty
      /\ \A t \in ForSale : cart.lines[t].qty \in 1 .. MaxStock
  <2>1. SaleLines \in [ForSale -> OrderLines] /\ ForSale \subseteq Targets
    BY <1>1, LinesForSale
  <2>2. DOMAIN SaleLines = ForSale
        /\ \A t \in ForSale : SaleLines[t].price = PriceOf(t) /\ SaleLines[t].qty = cart.lines[t].qty
    BY DEF SaleLines
  <2>3. QED
    BY <2>1, <2>2 DEF OrderLines
<1>5. /\ product' \in [Products -> ProductRows]
      /\ variant' \in [Variants -> VariantRows]
      /\ \A p \in Products : product'[p].price = product[p].price
      /\ \A v \in Variants : variant'[v].override = variant[v].override
      /\ \A t \in ForSale : StockOf(t) \in 0 .. MaxStock
                            /\ StockOf(t)' = StockOf(t) - cart.lines[t].qty
  <2>1. \A t \in ForSale : StockOf(t) \in 0 .. MaxStock
    BY <1>1, <1>4 DEF StoreTypeOK, StockOf, Targets, ProductRows, VariantRows
  <2>2. ASSUME NEW t \in Targets, t \in DOMAIN SaleLines
        PROVE  SaleLines[t].qty \in Nat /\ StockOf(t) + (-1) * SaleLines[t].qty \in 0 .. MaxStock
    BY <1>3, <1>4, <2>1, <2>2, StorefrontAssumption
  <2>3. /\ product' \in [Products -> ProductRows]
        /\ variant' \in [Variants -> VariantRows]
        /\ \A p \in Products : product'[p].price = product[p].price
        /\ \A v \in Variants : variant'[v].override = variant[v].override
        /\ \A t \in Targets :
             StockOf(t)' = IF t \in DOMAIN SaleLines THEN StockOf(t) + (-1) * SaleLines[t].qty
                           ELSE StockOf(t)
    BY <1>1, <1>3, <2>2, RowsAfterTaking
  <2>4. ASSUME NEW t \in ForSale PROVE StockOf(t)' = StockOf(t) - cart.lines[t].qty
    <3>1. StockOf(t)' = StockOf(t) + (-1) * cart.lines[t].qty
      BY <1>4, <2>3
    <3>2. QED
      BY <1>4, <2>1, <3>1
  <2>5. QED
    BY <2>1, <2>3, <2>4
<1>6. cart' \in CartRows /\ cart'.active = FALSE /\ cart'.lines = cart.lines
  BY <1>1, <1>3 DEF StoreTypeOK, CartRows
<1>7. order' # None
  BY <1>2, <1>3, StorefrontAssumption
<1>8. StoreTypeOK'
  <2>1. cart'.active = (order' = None)
    BY <1>6, <1>7, Zenon
  <2>2. coupon' \in CouponRows /\ clock' \in Times /\ wishes' \subseteq Products
    BY <1>1, <1>3 DEF StoreTypeOK
  <2>3. order' \in OrderRows \cup {None}
    BY <1>2, <1>3
  <2>4. QED
    BY <1>5, <1>6, <2>1, <2>2, <2>3 DEF StoreTypeOK
<1>9. RoomToReturn'
  <2>1. ASSUME NEW t \in ForSale PROVE StockOf(t)' + cart.lines[t].qty <= MaxStock
    BY <1>4, <1>5, StorefrontAssumption
  <2>2. QED
    BY <1>2, <1>3, <1>4, <2>1 DEF RoomToReturn
<1>10. OrderAddsUp'
  <2>1. order'.lines = SaleLines /\ DOMAIN order'.lines = ForSale
    BY <1>2, <1>3, <1>4
  <2>2. ForSale = {t \in Targets : cart'.lines[t].qty # 0 /\ cart'.lines[t].saved = FALSE}
    BY <1>1, <1>6, StorefrontAssumption DEF ForSale, StoreTypeOK, CartRows
  <2>3. ASSUME NEW t \in ForSale
        PROVE  /\ order'.lines[t].qty = cart'.lines[t].qty
               /\ t \in Variants /\ variant'[t].override # NoPrice
                    => order'.lines[t].price = variant'[t].override
               /\ t \in Products \/ variant'[t].override = NoPrice
                    => order'.lines[t].price = product'[ProductOf(t)].price
    <3>1. order'.lines[t].qty = cart'.lines[t].qty /\ order'.lines[t].price = PriceOf(t)
          /\ t \in Targets
      BY <1>4, <1>6, <2>1
    <3>2. CASE t \in Products
      BY <1>5, <3>1, <3>2, StorefrontAssumption DEF PriceOf, ProductOf
    <3>3. CASE t \in Variants /\ t \notin Products
      BY <1>5, <3>1, <3>3, StorefrontAssumption DEF PriceOf, ProductOf, LinePrice
    <3>4. QED
      BY <3>1, <3>2, <3>3 DEF Targets
  <2>4. order'.subtotal =
          SumFunction([t \in DOMAIN order'.lines |-> order'.lines[t].price * order'.lines[t].qty])
    BY <1>2, <1>3, <2>1 DEF Subtotal
  <2>5. QED
    BY <1>2, <1>3, <2>1, <2>2, <2>3, <2>4 DEF OrderAddsUp
<1>11. QED
  BY <1>8, <1>9, <1>10 DEF StoreInv

\* A request or an edit that leaves order and stock of the cart's lines alone
\* happens only while there is no order.
LEMMA WithoutOrder ==
    ASSUME StoreTypeOK, StoreTypeOK', Shopping, UNCHANGED order
    PROVE  StoreInv' /\ OrderAddsUp'
<1>1. cart.active = (order = None)
  BY DEF StoreTypeOK
<1>2. order = None
  BY <1>1, Zenon DEF Shopping
<1>3. QED
  BY <1>2 DEF StoreInv, RoomToReturn, OrderAddsUp

\* Every step keeps the rows, the room and the figures of the order.
LEMMA StoreStep ==
    StoreInv /\ OrderAddsUp /\ [StoreNext]_vars => StoreInv' /\ OrderAddsUp'
<1> SUFFICES ASSUME StoreInv, OrderAddsUp, [StoreNext]_vars PROVE StoreInv' /\ OrderAddsUp'
    OBVIOUS
<1>0. StoreTypeOK /\ cart \in CartRows /\ RoomToReturn
  BY DEF StoreInv, StoreTypeOK
<1>a. \A t \in Targets : StockOf(t) \in 0 .. MaxStock
  BY <1>0 DEF StoreTypeOK, StockOf, Targets, ProductRows, VariantRows
<1>b. MaxStock \in Nat
  BY StorefrontAssumption
\* The buyer edits the lines of an open cart.
<1>1. ASSUME NEW t \in Targets, NEW line \in [qty : 0 .. MaxStock, saved : BOOLEAN], Shopping,
             cart' = [cart EXCEPT !.lines[t] = line],
             UNCHANGED <<product, variant, coupon, clock, order, wishes>>
      PROVE  StoreInv' /\ OrderAddsUp'
  <2>1. cart' \in CartRows /\ cart'.active = cart.active
    BY <1>0, <1>1 DEF CartRows
  <2>2. StoreTypeOK'
    BY <1>0, <1>1, <2>1 DEF StoreTypeOK
  <2>3. QED
    BY <1>0, <1>1, <2>2, WithoutOrder
<1>2. ASSUME NEW t \in Targets, NEW n \in 1 .. MaxStock, AddItem(t, n)
      PROVE  StoreInv' /\ OrderAddsUp'
  <2> DEFINE line == [qty |-> cart.lines[t].qty + n, saved |-> FALSE]
  <2>1. cart.lines[t].qty + n \in 0 .. MaxStock
    BY <1>0, <1>a, <1>b, <1>2 DEF AddItem, CartRows
  <2>2. line \in [qty : 0 .. MaxStock, saved : BOOLEAN]
    BY <2>1
  <2>3. Shopping /\ cart' = [cart EXCEPT !.lines[t] = line]
        /\ UNCHANGED <<product, variant, coupon, clock, order, wishes>>
    BY <1>2 DEF AddItem
  <2> HIDE DEF line
  <2>4. QED
    BY <1>1, <2>2, <2>3
<1>3. ASSUME NEW t \in Targets, NEW n \in 0 .. MaxStock, UpdateItem(t, n)
      PROVE  StoreInv' /\ OrderAddsUp'
  <2> DEFINE line == IF n = 0 THEN NoLine ELSE [cart.lines[t] EXCEPT !.qty = n]
  <2>1. line \in [qty : 0 .. MaxStock, saved : BOOLEAN]
    BY <1>0, <1>b DEF CartRows, NoLine
  <2>2. Shopping /\ cart' = [cart EXCEPT !.lines[t] = line]
        /\ UNCHANGED <<product, variant, coupon, clock, order, wishes>>
    BY <1>3 DEF UpdateItem
  <2> HIDE DEF line
  <2>3. QED
    BY <1>1, <2>1, <2>2
<1>4. ASSUME NEW t \in Targets, NEW aside \in BOOLEAN, MoveItem(t, aside)
      PROVE  StoreInv' /\ OrderAddsUp'
  <2> DEFINE line == [cart.lines[t] EXCEPT !.saved = aside]
  <2>1. line \in [qty : 0 .. MaxStock, saved : BOOLEAN]
    BY <1>0 DEF CartRows
  <2>2. Shopping /\ cart' = [cart EXCEPT !.lines[t] = line]
        /\ UNCHANGED <<product, variant, coupon, clock, order, wishes>>
    BY <1>4 DEF MoveItem
  <2> HIDE DEF line
  <2>3. QED
    BY <1>1, <2>1, <2>2
<1>5. ASSUME ApplyCoupon \/ ClearCoupon PROVE StoreInv' /\ OrderAddsUp'
  <2>1. Shopping /\ UNCHANGED <<product, variant, coupon, clock, order, wishes>>
    BY <1>5 DEF ApplyCoupon, ClearCoupon
  <2>2. PICK applied \in BOOLEAN : cart' = [cart EXCEPT !.coupon = applied]
    BY <1>5 DEF ApplyCoupon, ClearCoupon
  <2>3. cart' \in CartRows /\ cart'.active = cart.active
    BY <1>0, <2>2 DEF CartRows
  <2>4. StoreTypeOK'
    BY <1>0, <2>1, <2>3 DEF StoreTypeOK
  <2>5. QED
    BY <1>0, <2>1, <2>4, WithoutOrder
<1>6. ASSUME NEW method \in ShippingMethods, Checkout(method) PROVE StoreInv' /\ OrderAddsUp'
  BY <1>6, CheckoutStep
<1>7. ASSUME NextCart PROVE StoreInv' /\ OrderAddsUp'
  <2>1. order' = None /\ cart' = EmptyCart /\ UNCHANGED <<product, variant, coupon, clock, wishes>>
    BY <1>7 DEF NextCart
  <2>2. EmptyCart \in CartRows /\ EmptyCart.active = TRUE
    BY <1>b DEF EmptyCart, CartRows, NoLine
  <2>3. StoreTypeOK'
    BY <1>0, <2>1, <2>2 DEF StoreTypeOK
  <2>4. QED
    BY <2>1, <2>3 DEF StoreInv, RoomToReturn, OrderAddsUp
<1>8. ASSUME PaymentFails PROVE StoreInv' /\ OrderAddsUp'
  <2>1. /\ order # None /\ order' = None
        /\ TakeStock(order.lines, 1)
        /\ cart' = [cart EXCEPT !.active = TRUE]
        /\ UNCHANGED <<coupon, clock, wishes>>
    BY <1>8 DEF PaymentFails
  <2>2. ASSUME NEW t \in Targets, t \in DOMAIN order.lines
        PROVE  order.lines[t].qty \in Nat /\ StockOf(t) + 1 * order.lines[t].qty \in 0 .. MaxStock
    <3>1. order.lines[t] \in OrderLines
      BY <1>0, <2>1, <2>2 DEF StoreTypeOK, OrderRows
    <3>2. order.lines[t].qty \in 1 .. MaxStock
      BY <3>1 DEF OrderLines
    <3>3. StockOf(t) + order.lines[t].qty <= MaxStock
      BY <1>0, <2>1, <2>2 DEF RoomToReturn
    <3>4. QED
      BY <1>a, <1>b, <3>2, <3>3
  <2>3. product' \in [Products -> ProductRows] /\ variant' \in [Variants -> VariantRows]
    BY <1>0, <2>1, <2>2, RowsAfterTaking
  <2>4. cart' \in CartRows /\ cart'.active = TRUE
    BY <1>0, <2>1 DEF CartRows
  <2>5. StoreTypeOK'
    BY <1>0, <2>1, <2>3, <2>4 DEF StoreTypeOK
  <2>6. QED
    BY <2>1, <2>5 DEF StoreInv, RoomToReturn, OrderAddsUp
<1>9. ASSUME NEW p \in Products,
             WishOnSite(p) \/ UnwishOnSite(p) \/ WishByApi(p) \/ UnwishByApi(p)
      PROVE  StoreInv' /\ OrderAddsUp'
  <2>1. Shopping /\ wishes' \in {wishes \cup {p}, wishes \ {p}}
        /\ UNCHANGED <<product, variant, coupon, clock, cart, order>>
    BY <1>9 DEF WishOnSite, UnwishOnSite, WishByApi, UnwishByApi
  <2>2. StoreTypeOK'
    BY <1>0, <2>1 DEF StoreTypeOK
  <2>3. QED
    BY <1>0, <2>1, <2>2, WithoutOrder
<1>10. ASSUME NEW p \in Products, NEW row \in ProductRows, StaffEditProduct(p, row)
       PROVE  StoreInv' /\ OrderAddsUp'
  <2>1. StoreTypeOK'
    BY <1>0, <1>10 DEF StoreTypeOK, StaffEditProduct
  <2>2. QED
    BY <1>0, <1>10, <2>1, WithoutOrder DEF StaffEditProduct
<1>11. ASSUME NEW v \in Variants, NEW row \in VariantRows, StaffEditVariant(v, row)
       PROVE  StoreInv' /\ OrderAddsUp'
  <2>1. StoreTypeOK'
    BY <1>0, <1>11 DEF StoreTypeOK, StaffEditVariant
  <2>2. QED
    BY <1>0, <1>11, <2>1, WithoutOrder DEF StaffEditVariant
<1>12. ASSUME \/ TimePasses
              \/ \E row \in CouponRows : StaffEditCoupon(row)
       PROVE  StoreInv' /\ OrderAddsUp'
  <2>1. /\ Shopping /\ coupon' \in CouponRows /\ clock' \in Times
        /\ UNCHANGED <<product, variant, cart, order, wishes>>
    BY <1>0, <1>12 DEF TimePasses, StaffEditCoupon, Times, StoreTypeOK
  <2>2. StoreTypeOK'
    BY <1>0, <2>1 DEF StoreTypeOK
  <2>3. QED
    BY <1>0, <2>1, <2>2, WithoutOrder
<1>13. CASE UNCHANGED vars
  BY <1>13 DEF vars, StoreInv, StoreTypeOK, RoomToReturn, OrderAddsUp, StockOf, ProductOf
<1>14. QED
  BY <1>2, <1>3, <1>4, <1>5, <1>6, <1>7, <1>8, <1>9, <1>10, <1>11, <1>12, <1>13 DEF StoreNext

LEMMA StoreInvHolds == StoreSpec => [](StoreInv /\ OrderAddsUp)
<1>1. StoreInit => StoreInv /\ OrderAddsUp
  <2> SUFFICES ASSUME StoreInit PROVE StoreInv /\ OrderAddsUp
      OBVIOUS
  <2>1. EmptyCart \in CartRows /\ EmptyCart.active = TRUE
    BY StorefrontAssumption DEF EmptyCart, CartRows, NoLine
  <2>2. /\ product \in [Products -> ProductRows] /\ variant \in [Variants -> VariantRows]
        /\ coupon \in CouponRows /\ clock \in Times /\ cart = EmptyCart /\ order = None
        /\ wishes = {}
    BY DEF StoreInit, Times
  <2>3. StoreTypeOK
    BY <2>1, <2>2 DEF StoreTypeOK
  <2>4. QED
    BY <2>2, <2>3 DEF StoreInv, RoomToReturn, OrderAddsUp
<1>2. QED
  BY <1>1, StoreStep, PTL DEF StoreSpec

-----------------------------------------------------------------------------
(* Theorems *)

\* Rows keep to their tables, stock never falls below zero nor rises above what
\* staff counted, a cart is closed exactly while there is an order on it and no
\* figure of an order is negative.
THEOREM StoreTypeCorrect == StoreSpec => []StoreTypeOK
<1>1. StoreInv => StoreTypeOK
  BY DEF StoreInv
<1>2. QED
  BY <1>1, StoreInvHolds, PTL

\* An order has every line of its cart that is for sale at the price of the day
\* and its figures add up to the cent, for any prices, quantities, tax rate and
\* coupon.
THEOREM OrdersAddUp == StoreSpec => []OrderAddsUp
<1>1. QED
  BY StoreInvHolds, PTL

\* The rule of in_stock and the rules of the add form and of add_item agree:
\* what is shown as in stock, and nothing else that is shown, can be added.
THEOREM InStockMeansAddable == StoreSpec => []ShownInStockIsAddable
<1>1. ASSUME StoreTypeOK PROVE ShownInStockIsAddable
  <2> SUFFICES ASSUME NEW p \in Products, Public(p)
               PROVE  InStock(p) <=> \E t \in {t \in Targets : ProductOf(t) = p} :
                                       Addable(t) /\ StockOf(t) >= 1
      BY <1>1 DEF ShownInStockIsAddable, WishesShown, StoreTypeOK
  <2>1. product[p].status # "draft" /\ product[p].stock \in Nat
        /\ \A v \in Variants : variant[v].stock \in Nat
    BY <1>1, StorefrontAssumption DEF StoreTypeOK, Public, ProductRows, VariantRows
  <2>2. \A v \in Variants : v \notin Products /\ ProductOf(v) = Parent[v]
                            /\ StockOf(v) = variant[v].stock
    BY StorefrontAssumption DEF ProductOf, StockOf
  <2>3. p \in Targets /\ p \notin Variants /\ ProductOf(p) = p /\ StockOf(p) = product[p].stock
    BY StorefrontAssumption DEF Targets, ProductOf, StockOf
  <2>4. \A t \in Targets : ProductOf(t) = p => t = p \/ (t \in Variants /\ Parent[t] = p)
    <3> SUFFICES ASSUME NEW t \in Targets, ProductOf(t) = p
                 PROVE  t = p \/ (t \in Variants /\ Parent[t] = p)
        OBVIOUS
    <3>1. CASE t \in Products
      BY <3>1 DEF ProductOf
    <3>2. CASE t \in Variants
      BY <2>2, <3>2
    <3>3. QED
      BY <3>1, <3>2 DEF Targets
  <2>5. CASE ActiveVariants(p) # {}
    <3>1. InStock(p) <=> \E v \in Variants : Parent[v] = p /\ variant[v].active
                                             /\ variant[v].stock > 0
      BY <2>5 DEF InStock, ActiveVariants
    <3>2. ~Addable(p)
      BY <2>3, <2>5 DEF Addable
    <3>3. \A v \in Variants : Parent[v] = p => (Addable(v) <=> variant[v].active)
      BY <2>1, <2>2 DEF Addable
    <3>4. QED
      BY <2>1, <2>2, <2>4, <3>1, <3>2, <3>3 DEF Targets
  <2>6. CASE ActiveVariants(p) = {}
    <3>1. InStock(p) <=> product[p].stock > 0
      BY <2>6 DEF InStock
    <3>2. Addable(p)
      BY <2>1, <2>3, <2>6 DEF Addable
    <3>3. \A v \in Variants : Parent[v] = p => ~Addable(v)
      BY <2>6 DEF Addable, ActiveVariants
    <3>4. QED
      BY <2>1, <2>3, <2>4, <3>1, <3>2, <3>3
  <2>7. QED
    BY <2>5, <2>6
<1>2. QED
  BY <1>1, StoreTypeCorrect, PTL

\* Whatever staff change between applying a coupon and the checkout, an order
\* is discounted by a coupon that is valid at that moment, by what it stands
\* for, or not placed.
THEOREM CouponsHonoured == StoreSpec => CouponHonoured
<1> DEFINE Honoured ==
      order' # None /\ order' # order =>
         IF ~cart.coupon THEN order'.discount = 0
         ELSE /\ coupon.active /\ clock = "open"
              /\ order'.subtotal >= coupon.minimum
              /\ IF coupon.kind = "percentage"
                 THEN Nearest(order'.discount, order'.subtotal * coupon.amount, 10000)
                 ELSE order'.discount = coupon.amount \/
                        /\ order'.subtotal <= coupon.amount
                        /\ order'.discount = order'.subtotal
<1>1. ASSUME StoreTypeOK, [StoreNext]_vars PROVE [Honoured]_vars
  <2> SUFFICES ASSUME order' # None, order' # order PROVE Honoured
      OBVIOUS
  <2>1. PICK method \in ShippingMethods : Checkout(method)
    BY <1>1 DEF StoreNext, vars, AddItem, UpdateItem, MoveItem, ApplyCoupon, ClearCoupon,
         NextCart, PaymentFails, WishOnSite, UnwishOnSite, WishByApi, UnwishByApi,
         StaffEditProduct, StaffEditVariant, StaffEditCoupon, TimePasses
  <2>2. order' = Summary(method) /\ (cart.coupon => CouponValid(Subtotal(SaleLines)))
    BY <2>1 DEF Checkout
  <2>3. /\ order' \in OrderRows
        /\ order'.subtotal = Subtotal(SaleLines)
        /\ order'.discount = IF cart.coupon THEN Discount(coupon, order'.subtotal) ELSE 0
    BY <1>1, <2>2, SummaryAddsUp
  <2>4. order'.subtotal \in Nat /\ coupon \in CouponRows
    BY <1>1, <2>3 DEF OrderRows, StoreTypeOK
  <2>5. CASE ~cart.coupon
    BY <2>3, <2>5
  <2>6. CASE cart.coupon
    <3>1. coupon.active /\ clock = "open" /\ order'.subtotal >= coupon.minimum
      BY <2>2, <2>3, <2>6 DEF CouponValid
    <3>2. order'.discount = Discount(coupon, order'.subtotal)
      BY <2>3, <2>6
    <3>3. IF coupon.kind = "percentage"
          THEN Nearest(order'.discount, order'.subtotal * coupon.amount, 10000)
          ELSE order'.discount = coupon.amount \/
                 /\ order'.subtotal <= coupon.amount
                 /\ order'.discount = order'.subtotal
      BY <2>4, <3>2, DiscountFits
    <3>4. QED
      BY <2>6, <3>1, <3>3
  <2>7. QED
    BY <2>5, <2>6
<1>2. QED
  BY <1>1, StoreTypeCorrect, PTL DEF StoreSpec, CouponHonoured

=============================================================================
