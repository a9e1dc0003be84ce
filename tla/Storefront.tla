----------------------------- MODULE Storefront -----------------------------
(***************************************************************************)
(* What a buyer is shown and what the order says: a cart with its lines    *)
(* and coupon (apps/cart) and a wishlist (apps/wishlist), over catalog and *)
(* coupon rows that staff edit between any two requests                    *)
(* (apps/products/admin.py, apps/coupons/admin.py).                        *)
(*                                                                         *)
(* Prices, the state of a product and the validity of a coupon are looked  *)
(* up when they are needed: a cart keeps quantities only.  So everything   *)
(* a buyer was told may be old at the checkout, and every figure is        *)
(* computed again.                                                         *)
(*                                                                         *)
(* The shop sells in one currency; CartSession has carts that meet two.    *)
(* The caps of a coupon are counted in Commerce, its dates and its minimum *)
(* are here.  CartSession also has the requests that interleave with one   *)
(* another; here an action is a whole request.                             *)
(***************************************************************************)
EXTENDS Pricing

CONSTANTS
    Products, Variants,
    Parent,       \* ProductVariant.product
    Prices,       \* cents staff give a product or a variant
    CouponRows,   \* what staff make of the coupon: kind, amount, minimum, active
    MaxStock,     \* bound of the model: units staff keep
    None          \* no order

Targets == Products \cup Variants

\* A target without a line has quantity 0.
CartRows == [lines : [Targets -> [qty : 0 .. MaxStock, saved : BOOLEAN]],
             coupon : BOOLEAN, active : BOOLEAN]
OrderLines == [price : Prices, qty : 1 .. MaxStock]
OrderRows == [lines : UNION {[T -> OrderLines] : T \in SUBSET Targets},
              subtotal : Nat, discount : Nat, tax : Nat, shipping : Nat, grand : Nat]

ASSUME StorefrontAssumption ==
    /\ Products \cap Variants = {}
    /\ Parent \in [Variants -> Products]
    /\ Prices \subseteq Nat
    /\ CouponRows \subseteq [kind : {"percentage", "fixed"}, amount : Nat,
                             minimum : Nat, active : BOOLEAN]
    /\ \A c \in CouponRows : c.kind = "percentage" => c.amount <= 10000
    /\ MaxStock \in Nat
    /\ IsFiniteSet(Targets)
    /\ None \notin OrderRows

VARIABLES
    product,   \* status, base_price and stock_quantity of each product
    variant,   \* is_active, price_override and stock_quantity of each variant
    coupon,    \* the row of the one coupon
    clock,     \* the time, against starts_at and ends_at of the coupon
    cart,      \* the buyer's newest cart: its lines, coupon and is_active flag
    order,     \* what the last checkout of that cart wrote
    wishes     \* products of the buyer's wishlist

vars == <<product, variant, coupon, clock, cart, order, wishes>>

\* "draft" stands for archived too; "hidden" is an active product of a category
\* that is not.
ProductStatus == {"draft", "active", "hidden"}
\* Before starts_at, between the two, from ends_at on.
Times == {"before", "open", "over"}

ProductRows == [status : ProductStatus, price : Prices, stock : 0 .. MaxStock]
VariantRows == [active : BOOLEAN, override : Prices \cup {NoPrice},
                stock : 0 .. MaxStock]

NoLine == [qty |-> 0, saved |-> FALSE]
EmptyCart == [lines |-> [t \in Targets |-> NoLine], coupon |-> FALSE,
              active |-> TRUE]

StoreInit ==
    /\ product \in [Products -> {r \in ProductRows : r.status = "active"}]
    /\ variant \in [Variants -> {r \in VariantRows : r.active}]
    /\ coupon \in CouponRows
    /\ clock = "before"
    /\ cart = EmptyCart
    /\ order = None
    /\ wishes = {}

-----------------------------------------------------------------------------
(* The catalog                                                             *)

ActiveVariants(p) == {v \in Variants : Parent[v] = p /\ variant[v].active}

\* public_products: what the catalog pages and the API list.
Public(p) == product[p].status = "active"

\* Faulty variant: looks at the product's own stock whatever its variants.
InStockByProduct(p) == product[p].stock > 0

\* ProductListSerializer.get_in_stock.
InStock(p) ==
    IF ActiveVariants(p) # {} THEN \E v \in ActiveVariants(p) : variant[v].stock > 0
    ELSE product[p].stock > 0

ProductOf(t) == IF t \in Products THEN t ELSE Parent[t]
StockOf(t) == IF t \in Products THEN product[t].stock ELSE variant[t].stock

-----------------------------------------------------------------------------
(* The cart page                                                           *)

\* Faulty variant: lines that were put aside count as well.
ForSaleWithSaved == {t \in Targets : cart.lines[t].qty > 0}

\* The lines cart_summary, apply_coupon and the checkout work on.
ForSale == {t \in Targets : cart.lines[t].qty > 0 /\ ~cart.lines[t].saved}

PriceOf(t) ==
    IF t \in Products THEN product[t].price
    ELSE LinePrice(product[Parent[t]].price, variant[t].override)

SaleLines == [t \in ForSale |-> [price |-> PriceOf(t), qty |-> cart.lines[t].qty]]

\* _validate_coupon, without the caps.
CouponValid(subtotal) ==
    /\ coupon.active
    /\ clock = "open"
    /\ subtotal >= coupon.minimum

\* cart_summary when the coupon, if the cart has one, is valid: what a checkout
\* goes by.  With a coupon that is not, a page shows the figures without it.
Summary(method) ==
    LET subtotal == Subtotal(SaleLines)
        discount == IF cart.coupon THEN Discount(coupon, subtotal) ELSE 0
    IN  Figures(SaleLines, subtotal, discount, method)

-----------------------------------------------------------------------------
(* The buyer's requests                                                    *)

\* The buyer has an active cart; a checked-out one is never worked on.
Shopping == cart.active

\* What cart_add, AddToCartForm and add_item accept: an active product, its
\* category is not asked for, and, if it has active variants, one of them.
Addable(t) ==
    /\ product[ProductOf(t)].status # "draft"
    /\ IF t \in Variants THEN variant[t].active ELSE ActiveVariants(t) = {}

\* Faulty variant: only the units asked for are held against the stock.
AddItemEachTime(t, n) ==
    /\ Shopping
    /\ Addable(t)
    /\ n <= StockOf(t)
    /\ cart' = [cart EXCEPT !.lines[t] = [qty |-> @.qty + n, saved |-> FALSE]]
    /\ UNCHANGED <<product, variant, coupon, clock, order, wishes>>

\* add_item: the units come on top of a line that is there, put aside or not,
\* and make it one that is for sale.
AddItem(t, n) ==
    LET qty == cart.lines[t].qty + n IN
    /\ Shopping
    /\ Addable(t)
    /\ qty <= StockOf(t)
    /\ cart' = [cart EXCEPT !.lines[t] = [qty |-> qty, saved |-> FALSE]]
    /\ UNCHANGED <<product, variant, coupon, clock, order, wishes>>

\* cart_update, cart_remove (n = 0): the state of the product is not asked for.
UpdateItem(t, n) ==
    /\ Shopping
    /\ cart.lines[t].qty > 0
    /\ n <= StockOf(t)
    /\ cart' = [cart EXCEPT !.lines[t] =
                  IF n = 0 THEN NoLine ELSE [@ EXCEPT !.qty = n]]
    /\ UNCHANGED <<product, variant, coupon, clock, order, wishes>>

\* cart_save_for_later, cart_restore: an update with the quantity the line has,
\* which is refused when there is no longer so much in stock.
MoveItem(t, aside) ==
    /\ Shopping
    /\ cart.lines[t].qty \in 1 .. StockOf(t)
    /\ cart' = [cart EXCEPT !.lines[t].saved = aside]
    /\ UNCHANGED <<product, variant, coupon, clock, order, wishes>>

\* cart_coupon with a code: apply_coupon.
ApplyCoupon ==
    /\ Shopping
    /\ CouponValid(Subtotal(SaleLines))
    /\ cart' = [cart EXCEPT !.coupon = TRUE]
    /\ UNCHANGED <<product, variant, coupon, clock, order, wishes>>

\* cart_coupon without one: clear_coupon.
ClearCoupon ==
    /\ Shopping
    /\ cart' = [cart EXCEPT !.coupon = FALSE]
    /\ UNCHANGED <<product, variant, coupon, clock, order, wishes>>

\* adjust_inventory for every line.
TakeStock(lines, sign) ==
    LET Units(t) == IF t \in DOMAIN lines THEN sign * lines[t].qty ELSE 0 IN
    /\ product' = [p \in Products |->
                     [product[p] EXCEPT !.stock = @ + Units(p)]]
    /\ variant' = [v \in Variants |->
                     [variant[v] EXCEPT !.stock = @ + Units(v)]]

\* Faulty variant: the coupon was checked when it was applied.
CheckoutOnTrust(method) ==
    /\ Shopping
    /\ ForSale # {}
    /\ \A t \in ForSale : cart.lines[t].qty <= StockOf(t)
    /\ order' = Summary(method)
    /\ TakeStock(SaleLines, -1)
    /\ cart' = [cart EXCEPT !.active = FALSE]
    /\ UNCHANGED <<coupon, clock, wishes>>

\* _checkout of a new token: the figures are computed from the rows as they
\* are, an invalid coupon raises, and so does a line that stock does not cover.
\* Neither the state of a product nor that of a variant is asked for.
Checkout(method) ==
    /\ Shopping
    /\ cart.coupon => CouponValid(Subtotal(SaleLines))
    /\ ForSale # {}
    /\ \A t \in ForSale : cart.lines[t].qty <= StockOf(t)
    /\ order' = Summary(method)
    /\ TakeStock(SaleLines, -1)
    /\ cart' = [cart EXCEPT !.active = FALSE]
    /\ UNCHANGED <<coupon, clock, wishes>>

\* The order stands, and current_cart makes the buyer another cart.
NextCart ==
    /\ order # None
    /\ order' = None
    /\ cart' = EmptyCart
    /\ UNCHANGED <<product, variant, coupon, clock, wishes>>

\* mark_payment_failed: the units come back and the cart is open again, with
\* the lines and the coupon it had.
PaymentFails ==
    /\ order # None
    /\ order' = None
    /\ TakeStock(order.lines, 1)
    /\ cart' = [cart EXCEPT !.active = TRUE]
    /\ UNCHANGED <<coupon, clock, wishes>>

-----------------------------------------------------------------------------
(* The wishlist, on the site and in the API                                *)

\* WishlistView._response: what the API shows of the wishlist.
WishesShown == {p \in wishes : Public(p)}

\* wishlist_add: the state of the category is not asked for.
WishOnSite(p) ==
    /\ Shopping
    /\ product[p].status # "draft"
    /\ wishes' = wishes \cup {p}
    /\ UNCHANGED <<product, variant, coupon, clock, cart, order>>

\* wishlist_remove, of any product.
UnwishOnSite(p) ==
    /\ Shopping
    /\ wishes' = wishes \ {p}
    /\ UNCHANGED <<product, variant, coupon, clock, cart, order>>

\* WishlistView.post.
WishByApi(p) ==
    /\ Shopping
    /\ product[p].status = "active"
    /\ wishes' = wishes \cup {p}
    /\ UNCHANGED <<product, variant, coupon, clock, cart, order>>

\* WishlistProductView.delete: a product of the wishlist, shown or not.
UnwishByApi(p) ==
    /\ Shopping
    /\ p \in wishes
    /\ wishes' = wishes \ {p}
    /\ UNCHANGED <<product, variant, coupon, clock, cart, order>>

-----------------------------------------------------------------------------
(* Staff and time.  Nothing reads a checked-out cart before one of the two *)
(* actions above, and those commute with the ones below: it is enough to   *)
(* let the latter wait for an active cart.                                 *)

\* ProductAdmin, and the is_active flag of its category.
StaffEditProduct(p, row) ==
    /\ Shopping
    /\ product' = [product EXCEPT ![p] = row]
    /\ UNCHANGED <<variant, coupon, clock, cart, order, wishes>>

StaffEditVariant(v, row) ==
    /\ Shopping
    /\ variant' = [variant EXCEPT ![v] = row]
    /\ UNCHANGED <<product, coupon, clock, cart, order, wishes>>

\* A new starts_at or ends_at puts the present time elsewhere.
StaffEditCoupon(row) ==
    /\ Shopping
    /\ coupon' = row
    /\ clock' \in Times
    /\ UNCHANGED <<product, variant, cart, order, wishes>>

TimePasses ==
    /\ Shopping
    /\ \/ clock = "before" /\ clock' = "open"
       \/ clock = "open" /\ clock' = "over"
    /\ UNCHANGED <<product, variant, coupon, cart, order, wishes>>

StoreNext ==
    \/ \E t \in Targets : \/ \E n \in 1 .. MaxStock : AddItem(t, n)
                          \/ \E n \in 0 .. MaxStock : UpdateItem(t, n)
                          \/ \E aside \in BOOLEAN : MoveItem(t, aside)
    \/ ApplyCoupon \/ ClearCoupon
    \/ \E method \in ShippingMethods : Checkout(method)
    \/ NextCart \/ PaymentFails
    \/ \E p \in Products : \/ WishOnSite(p) \/ UnwishOnSite(p)
                         \/ WishByApi(p) \/ UnwishByApi(p)
    \/ \E p \in Products, row \in ProductRows : StaffEditProduct(p, row)
    \/ \E v \in Variants, row \in VariantRows : StaffEditVariant(v, row)
    \/ \E row \in CouponRows : StaffEditCoupon(row)
    \/ TimePasses

StoreSpec == StoreInit /\ [][StoreNext]_vars

-----------------------------------------------------------------------------
(* Properties                                                              *)

\* The rows of the shop are rows of their tables; a cart is closed exactly
\* while there is an order on it, and figures are never negative.
StoreTypeOK ==
    /\ product \in [Products -> ProductRows]
    /\ variant \in [Variants -> VariantRows]
    /\ coupon \in CouponRows
    /\ clock \in Times
    /\ cart \in CartRows
    /\ order \in OrderRows \cup {None}
    /\ cart.active = (order = None)
    /\ wishes \subseteq Products

\* What the catalog and the API's wishlist show as in stock, and nothing else
\* they show, can be put into a cart that has no line of it, whatever happened
\* to it since it was wished for: the rule of in_stock and the rules of the add
\* form and of add_item, written in three places, agree.  (A line that was put
\* aside keeps its units and may make add_item refuse.)
ShownInStockIsAddable ==
    \A p \in {p \in Products : Public(p)} \cup WishesShown :
        (InStock(p) <=>
            \E t \in {t \in Targets : ProductOf(t) = p} :
                Addable(t) /\ StockOf(t) >= 1)

\* Everything a cart sells, and nothing that was put aside, is on its order at
\* the price of the day, and the figures of the order add up: the tax is the
\* cent nearest to the exact one, the total covers it and the shipping, and
\* the coupon takes off no more than the lines cost.
OrderAddsUp ==
    order # None =>
        LET costs == [t \in DOMAIN order.lines |-> order.lines[t].price * order.lines[t].qty] IN
        /\ DOMAIN order.lines =
             {t \in Targets : cart.lines[t].qty # 0 /\ cart.lines[t].saved = FALSE}
        /\ DOMAIN order.lines # {}
        /\ \A t \in DOMAIN order.lines :
             /\ order.lines[t].qty = cart.lines[t].qty
             /\ t \in Variants /\ variant[t].override # NoPrice
                  => order.lines[t].price = variant[t].override
             /\ t \in Products \/ variant[t].override = NoPrice
                  => order.lines[t].price = product[ProductOf(t)].price
        /\ order.subtotal = SumFunction(costs)
        /\ order.discount <= order.subtotal
        /\ Nearest(order.tax, (order.subtotal - order.discount) * TaxNum, TaxDen)
        /\ order.grand + order.discount = order.subtotal + order.tax + order.shipping
        /\ order.shipping \in {1000, 2500}

\* No order is discounted by a coupon that is not valid when the order is
\* placed, however long ago it was applied and whatever was changed since: it
\* is active, in its dates, the lines for sale reach its minimum, and the
\* discount is the one it stands for, to the nearest cent.
CouponHonoured ==
    [][order' # None /\ order' # order =>
         IF ~cart.coupon THEN order'.discount = 0
         ELSE /\ coupon.active /\ clock = "open"
              /\ order'.subtotal >= coupon.minimum
              /\ IF coupon.kind = "percentage"
                 THEN Nearest(order'.discount, order'.subtotal * coupon.amount, 10000)
                 ELSE order'.discount = coupon.amount \/
                        /\ order'.subtotal <= coupon.amount
                        /\ order'.discount = order'.subtotal]_vars

=============================================================================
