------------------------------ MODULE Commerce ------------------------------
(***************************************************************************)
(* Carts, orders and payments of the shop: checkout (apps/cart), the       *)
(* payment services, webhooks and expiry command (apps/payments), and the  *)
(* order services and staff pages (apps/orders), over the stock service    *)
(* (Inventory) and the payment providers (Gateway).                        *)
(*                                                                         *)
(* One action is one database transaction, or one call to a provider.  The *)
(* code runs each service inside transaction.atomic, and the database of   *)
(* the supported build commits such blocks one at a time; everything that  *)
(* spans two transactions (a checkout request, a PayPal return, a sweep of *)
(* expired payments) is several actions, and any other action may come     *)
(* between them.  A worker may vanish between any two of its steps.        *)
(*                                                                         *)
(* The checkout token is the payment's idempotency key, unique in the      *)
(* database.  Each successful checkout makes one order and one payment     *)
(* under it, so both are named by their token.                             *)
(***************************************************************************)
EXTENDS Inventory, Gateway, FiniteSets

CONSTANTS
    Carts,          \* cart rows
    Users,          \* signed-in customers
    Guest,          \* Order.user and Cart.user when null
    CartOwner,      \* Cart.user of each cart, fixed when the row is made
    Workers,        \* web workers
    Providers,      \* the payment methods that are configured
    MaxQty,         \* bound of the model: units of one target in a cart
    CouponChoices,  \* whether carts carry the coupon: a subset of BOOLEAN
    UsageLimit,     \* Coupon.usage_limit
    PerUserLimit,   \* Coupon.per_user_limit
    StaffMoves      \* edits of (status, payment_status) staff make

COD == "cash_on_delivery"
Online == {"stripe", "paypal"}
Buyers == Users \cup {Guest}

OrderStatus == {"none", "pending", "confirmed", "processing", "shipped",
                "delivered", "cancelled", "return_requested", "refunded"}
PayStatus == {"none", "pending", "paid", "failed", "refunded"}
PaymentStatus == {"none", "pending", "succeeded", "failed"}
RequestTypes == {"return", "refund"}
RequestStatus == {"none", "open", "closed"}

\* The lines of a cart that has at least one line in it.
Baskets == {b \in [Products -> 0 .. MaxQty] : \E p \in Products : b[p] # 0}

\* What checkout copies into the order and payment rows for good.
Terms == [lines : [Products -> Nat], buyer : Buyers, coupon : BOOLEAN,
          provider : {COD} \cup Online, cart : Carts]
NoTerms == [lines |-> [p \in Products |-> 0]]

\* Staff work on orders that were placed and not called off.  They carry an
\* order through fulfilment and record money collected or paid back.  They do
\* not cancel: the admin page returns no stock, the customer's button does.
StaffMovesLegal ==
    \A move \in StaffMoves :
        LET from == move[1]
            to == move[2]
        IN  /\ from[1] \notin {"none", "pending"}
            /\ to[1] \notin {"none", "pending"}
            /\ (from[1] = "cancelled") <=> (to[1] = "cancelled")
            /\ from[2] \notin {"none", "failed"}
            /\ to[2] \notin {"none", "failed"}
            /\ from[2] = "paid" => to[2] # "pending"
            /\ from[2] = "refunded" => to[2] = "refunded"
            /\ from[1] = "cancelled" => from[2] # "pending"

ASSUME CommerceAssumption ==
    /\ MaxQty \in Nat
    /\ CouponChoices \subseteq BOOLEAN
    /\ Providers \subseteq {COD} \cup Online
    /\ Guest \notin Users
    /\ CartOwner \in [Carts -> Buyers]
    /\ UsageLimit \in Nat
    /\ PerUserLimit \in Nat
    /\ StaffMoves \subseteq (OrderStatus \X PayStatus) \X (OrderStatus \X PayStatus)
    /\ StaffMovesLegal

VARIABLES
    order,      \* Order.status, or "none" before checkout
    paid,       \* Order.payment_status
    terms,      \* the fixed part of the order and payment rows
    payment,    \* Payment.status
    linked,     \* tokens whose Payment.external_payment_id is saved
    active,     \* carts with Cart.is_active
    redeemed,   \* users in Coupon.redeemed_by
    requests,   \* OrderRequest rows of each order, by type
    mailed,     \* confirmation emails handed to the mail server
    worker,     \* what each web worker is in the middle of
    sweep       \* payments the running expiry command has still to visit

orderVars == <<order, paid, terms, requests>>
paymentVars == <<payment, linked>>
processVars == <<worker, sweep>>
tableVars == <<orderVars, paymentVars, active, redeemed, mailed>>
vars == <<inventoryVars, gatewayVars, tableVars, processVars>>

Idle == [at |-> "idle"]
At(step, k) == [at |-> step, token |-> k]

TypeOK ==
    /\ InventoryTypeOK
    /\ GatewayTypeOK
    /\ order \in [Tokens -> OrderStatus]
    /\ paid \in [Tokens -> PayStatus]
    /\ terms \in [Tokens -> Terms \cup {NoTerms}]
    /\ \A k \in Tokens :
         terms[k] \in Terms \/ (order[k] = "none" /\ payment[k] = "none")
    /\ payment \in [Tokens -> PaymentStatus]
    /\ linked \subseteq Tokens
    /\ active \subseteq Carts
    /\ redeemed \subseteq Users
    /\ requests \in [Tokens -> [RequestTypes -> RequestStatus]]
    /\ mailed \in [Tokens -> Nat]
    /\ worker \in [Workers -> {Idle} \cup
         {At(step, k) : step \in {"create", "save", "capture", "record"}, k \in Tokens}]
    /\ sweep \subseteq Tokens

Init ==
    /\ InventoryInit
    /\ GatewayInit
    /\ order = [k \in Tokens |-> "none"]
    /\ paid = [k \in Tokens |-> "none"]
    /\ terms = [k \in Tokens |-> NoTerms]
    /\ payment = [k \in Tokens |-> "none"]
    /\ linked = {}
    /\ active = Carts
    /\ redeemed = {}
    /\ requests = [k \in Tokens |-> [t \in RequestTypes |-> "none"]]
    /\ mailed = [k \in Tokens |-> 0]
    /\ worker = [w \in Workers |-> Idle]
    /\ sweep = {}

-----------------------------------------------------------------------------
(* Services shared by several handlers *)

Placed(k) == order[k] # "none"
IsOnline(k) == Placed(k) /\ terms[k].provider \in Online

\* The order confirmation is sent by an on_commit hook: after the commit, in
\* the same process, unless the process is gone by then or the mail fails.
Confirm(k) ==
    \/ mailed' = [mailed EXCEPT ![k] = @ + 1]
    \/ UNCHANGED mailed

\* The orders that count against the coupon's limits.
CouponOrders ==
    {k \in Tokens : Placed(k) /\ order[k] # "cancelled" /\ terms[k].coupon}
\* Faulty variant: one order too many.
CouponUsableOffByOne(user) ==
    /\ Cardinality(CouponOrders) <= UsageLimit
    /\ user # Guest =>
         Cardinality({k \in CouponOrders : terms[k].buyer = user}) < PerUserLimit

CouponUsable(user) ==
    /\ Cardinality(CouponOrders) < UsageLimit
    /\ user # Guest =>
         Cardinality({k \in CouponOrders : terms[k].buyer = user}) < PerUserLimit

Redeem(k, t) ==
    redeemed' = IF t.coupon /\ t.buyer # Guest
                THEN redeemed \cup {t.buyer} ELSE redeemed

\* Faulty variant: applied on every notification, not only the first.
MarkSucceededEachTime(k) ==
    /\ payment[k] \in {"pending", "succeeded"}
    /\ payment' = [payment EXCEPT ![k] = "succeeded"]
    /\ order' = [order EXCEPT ![k] = "confirmed"]
    /\ paid' = [paid EXCEPT ![k] = "paid"]
    /\ Redeem(k, terms[k])
    /\ Confirm(k)
    /\ UNCHANGED <<inventoryVars, terms, requests, linked, active>>

\* Faulty variant: a failed payment may still succeed.
MarkSucceededAfterFailure(k) ==
    \/ /\ payment[k] \in {"pending", "failed"}
       /\ payment' = [payment EXCEPT ![k] = "succeeded"]
       /\ order' = [order EXCEPT ![k] = "confirmed"]
       /\ paid' = [paid EXCEPT ![k] = "paid"]
       /\ Redeem(k, terms[k])
       /\ Confirm(k)
       /\ UNCHANGED <<inventoryVars, terms, requests, linked, active>>
    \/ /\ payment[k] = "succeeded"
       /\ UNCHANGED <<inventoryVars, tableVars>>

\* mark_payment_succeeded
MarkSucceeded(k) ==
    \/ /\ payment[k] = "pending"
       /\ payment' = [payment EXCEPT ![k] = "succeeded"]
       /\ order' = [order EXCEPT ![k] = "confirmed"]
       /\ paid' = [paid EXCEPT ![k] = "paid"]
       /\ Redeem(k, terms[k])
       /\ Confirm(k)
       /\ UNCHANGED <<inventoryVars, terms, requests, linked, active>>
    \/ /\ payment[k] # "pending"
       /\ UNCHANGED <<inventoryVars, tableVars>>

\* Faulty variant: a payment that failed before fails again.
MarkFailedEachTime(k) ==
    /\ payment[k] \in {"pending", "failed"}
    /\ payment' = [payment EXCEPT ![k] = "failed"]
    /\ order' = [order EXCEPT ![k] = "cancelled"]
    /\ paid' = [paid EXCEPT ![k] = "failed"]
    /\ Release(terms[k].lines)
    /\ active' = active \cup {terms[k].cart}
    /\ UNCHANGED <<terms, requests, linked, redeemed, mailed>>

\* Faulty variant: the cart is not given back.
MarkFailedKeepsCart(k) ==
    /\ payment[k] = "pending"
    /\ payment' = [payment EXCEPT ![k] = "failed"]
    /\ order' = [order EXCEPT ![k] = "cancelled"]
    /\ paid' = [paid EXCEPT ![k] = "failed"]
    /\ Release(terms[k].lines)
    /\ UNCHANGED <<active, terms, requests, linked, redeemed, mailed>>

\* Faulty variant: the order's payment status is left behind.
MarkFailedForgetsOrder(k) ==
    /\ payment[k] = "pending"
    /\ payment' = [payment EXCEPT ![k] = "failed"]
    /\ order' = [order EXCEPT ![k] = "cancelled"]
    /\ Release(terms[k].lines)
    /\ active' = active \cup {terms[k].cart}
    /\ UNCHANGED <<paid, terms, requests, linked, redeemed, mailed>>

\* mark_payment_failed
MarkFailed(k) ==
    \/ /\ payment[k] = "pending"
       /\ payment' = [payment EXCEPT ![k] = "failed"]
       /\ order' = [order EXCEPT ![k] = "cancelled"]
       /\ paid' = [paid EXCEPT ![k] = "failed"]
       /\ Release(terms[k].lines)
       /\ active' = active \cup {terms[k].cart}
       /\ UNCHANGED <<terms, requests, linked, redeemed, mailed>>
    \/ /\ payment[k] # "pending"
       /\ UNCHANGED <<inventoryVars, tableVars>>

-----------------------------------------------------------------------------
(* Checkout *)

\* What a cart, its customer and the form may put before checkout.  A cart
\* made before signing in has no user even when the request has one.
Offers ==
    {t \in [lines : Baskets, buyer : Buyers, coupon : CouponChoices,
            provider : Providers, cart : active] :
        CartOwner[t.cart] \in {Guest, t.buyer}}

\* _checkout for a token no payment has: order, reservation and payment in
\* one transaction.  An online payment sends the worker on to the provider.
Checkout(w, k) ==
    /\ worker[w] = Idle
    /\ payment[k] = "none"
    /\ \E t \in Offers :
        /\ t.coupon => CouponUsable(CartOwner[t.cart])
        /\ Reserve(t.lines)
        /\ terms' = [terms EXCEPT ![k] = t]
        /\ payment' = [payment EXCEPT ![k] = "pending"]
        /\ paid' = [paid EXCEPT ![k] = "pending"]
        /\ active' = active \ {t.cart}
        /\ \/ /\ t.provider = COD
              /\ order' = [order EXCEPT ![k] = "confirmed"]
              /\ Redeem(k, t)
              /\ Confirm(k)
              /\ UNCHANGED worker
           \/ /\ t.provider # COD
              /\ order' = [order EXCEPT ![k] = "pending"]
              /\ worker' = [worker EXCEPT ![w] = At("create", k)]
              /\ UNCHANGED <<redeemed, mailed>>
    /\ UNCHANGED <<gatewayVars, linked, requests, sweep>>

\* _checkout for a token that was used: the existing payment, whatever its
\* status, and on to its provider again.
Retry(w, k) ==
    /\ worker[w] = Idle
    /\ IsOnline(k)
    /\ worker' = [worker EXCEPT ![w] = At("create", k)]
    /\ UNCHANGED <<inventoryVars, gatewayVars, tableVars, sweep>>

\* create_stripe_checkout, create_paypal_order: the provider answers.
CreateSession(w, k) ==
    /\ worker[w] = At("create", k)
    /\ OpenSession(k)
    /\ worker' = [worker EXCEPT ![w] = At("save", k)]
    /\ UNCHANGED <<inventoryVars, tableVars, sweep>>

\* _save_external_id, after which the buyer is sent to the provider.  A token's
\* idempotency key always yields the same session (OpenSession), so the payment
\* never has the reference of another one and that refusal is not a case here.
SaveExternalId(w, k) ==
    /\ worker[w] = At("save", k)
    /\ linked' = linked \cup {k}
    /\ worker' = [worker EXCEPT ![w] = Idle]
    /\ UNCHANGED <<inventoryVars, gatewayVars, orderVars, payment, active,
                   redeemed, mailed, sweep>>

\* The provider cannot be reached, refuses or times out, or the process dies:
\* the request ends where it stands.
Abandon(w) ==
    /\ worker[w] # Idle
    /\ worker' = [worker EXCEPT ![w] = Idle]
    /\ UNCHANGED <<inventoryVars, gatewayVars, tableVars, sweep>>

-----------------------------------------------------------------------------
(* The buyer at the provider, and coming back *)

\* The buyer has the provider's page once the external id is saved.
BuyerPays(k) ==
    /\ k \in linked
    /\ session[k] = "open"
    /\ \/ terms[k].provider = "stripe" /\ Capture(k)
       \/ terms[k].provider = "paypal" /\ Approve(k)
    /\ UNCHANGED <<inventoryVars, tableVars, processVars>>

ProviderGivesUp(k) ==
    /\ ExpireSession(k) \/ DenyCapture(k)
    /\ UNCHANGED <<inventoryVars, tableVars, processVars>>

\* stripe_cancel and paypal_cancel.  The Stripe link names the payment, the
\* PayPal link its external id; a guest may only name an order whose checkout
\* request came to its end.
CancelPayment(k) ==
    /\ IsOnline(k)
    /\ terms[k].provider = "paypal" \/ terms[k].buyer = Guest => k \in linked
    /\ MarkFailed(k)
    /\ UNCHANGED <<gatewayVars, processVars>>

\* paypal_return, capture_paypal_payment up to the call: the payment is read
\* without a lock, and only a succeeded one ends the request here.
PaypalReturn(w, k) ==
    /\ worker[w] = Idle
    /\ k \in linked
    /\ terms[k].provider = "paypal"
    /\ payment[k] # "succeeded"
    /\ worker' = [worker EXCEPT ![w] = At("capture", k)]
    /\ UNCHANGED <<inventoryVars, gatewayVars, tableVars, sweep>>

\* The capture call.  Repeated for a captured order it is answered as before.
PaypalCapture(w, k) ==
    /\ worker[w] = At("capture", k)
    /\ \/ session[k] = "approved" /\ Capture(k)
       \/ session[k] = "captured" /\ UNCHANGED gatewayVars
    /\ worker' = [worker EXCEPT ![w] = At("record", k)]
    /\ UNCHANGED <<inventoryVars, tableVars, sweep>>

\* Faulty variant: the captured amount is not checked.
RecordCaptureUnchecked(w, k) ==
    /\ worker[w] = At("record", k)
    /\ MarkSucceeded(k)
    /\ worker' = [worker EXCEPT ![w] = Idle]
    /\ UNCHANGED <<gatewayVars, sweep>>

\* The captured amount is checked and the outcome recorded.
RecordCapture(w, k) ==
    /\ worker[w] = At("record", k)
    /\ \/ <<k, "paid">> \in events /\ MarkSucceeded(k)
       \/ <<k, "mismatch">> \in events /\ MarkFailed(k)
    /\ worker' = [worker EXCEPT ![w] = Idle]
    /\ UNCHANGED <<gatewayVars, sweep>>

\* process_stripe_webhook, process_paypal_webhook: an event for an external
\* id no payment has is acknowledged and dropped.
Webhook(k, kind) ==
    /\ <<k, kind>> \in events
    /\ k \in linked
    /\ \/ kind = "paid" /\ MarkSucceeded(k)
       \/ kind \in {"mismatch", "failed"} /\ MarkFailed(k)
    /\ UNCHANGED <<gatewayVars, processVars>>

-----------------------------------------------------------------------------
(* expire_pending_payments *)

\* Faulty variant: the query only selects card payments.
SweepFindsStripe(k) ==
    /\ IsOnline(k)
    /\ terms[k].provider = "stripe"
    /\ payment[k] = "pending"
    /\ sweep' = sweep \cup {k}
    /\ UNCHANGED <<inventoryVars, gatewayVars, tableVars, worker>>

\* The query: online payments that are pending when their time is up.  The
\* clock is not modelled, a pending payment may be overdue at any moment.
SweepFinds(k) ==
    /\ IsOnline(k)
    /\ payment[k] = "pending"
    /\ sweep' = sweep \cup {k}
    /\ UNCHANGED <<inventoryVars, gatewayVars, tableVars, worker>>

\* The loop body, on a row that may have changed since the query.
SweepExpires(k) ==
    /\ k \in sweep
    /\ MarkFailed(k)
    /\ sweep' = sweep \ {k}
    /\ UNCHANGED <<gatewayVars, worker>>

SweepDies ==
    /\ sweep # {}
    /\ sweep' = {}
    /\ UNCHANGED <<inventoryVars, gatewayVars, tableVars, worker>>

-----------------------------------------------------------------------------
(* Customers and their orders *)

\* _customer_order: the pages of an order only answer to the customer who placed
\* it; a guest's order has no such pages.
CustomerOrder(k) == terms[k].buyer # Guest

\* _create_request
OpenRequest(k, type) ==
    /\ requests[k][type] # "open"
    /\ requests' = [requests EXCEPT ![k][type] = "open"]

\* Faulty variant: no refund request for a paid order.
CancelOrderNoRefund(k) ==
    /\ order[k] = "confirmed"
    /\ CustomerOrder(k)
    /\ order' = [order EXCEPT ![k] = "cancelled"]
    /\ Release(terms[k].lines)
    /\ UNCHANGED <<gatewayVars, paid, terms, requests, paymentVars, active,
                   redeemed, mailed, processVars>>

\* Faulty variant: an order may be cancelled again.
CancelOrderTwice(k) ==
    /\ order[k] \in {"confirmed", "cancelled"}
    /\ CustomerOrder(k)
    /\ order' = [order EXCEPT ![k] = "cancelled"]
    /\ Release(terms[k].lines)
    /\ \/ paid[k] = "paid" /\ OpenRequest(k, "refund")
       \/ paid[k] # "paid" /\ UNCHANGED requests
    /\ UNCHANGED <<gatewayVars, paid, terms, paymentVars, active, redeemed,
                   mailed, processVars>>

\* cancel_order
CancelOrder(k) ==
    /\ order[k] = "confirmed"
    /\ CustomerOrder(k)
    /\ order' = [order EXCEPT ![k] = "cancelled"]
    /\ Release(terms[k].lines)
    /\ \/ paid[k] = "paid" /\ OpenRequest(k, "refund")
       \/ paid[k] # "paid" /\ UNCHANGED requests
    /\ UNCHANGED <<gatewayVars, paid, terms, paymentVars, active, redeemed,
                   mailed, processVars>>

\* request_return
RequestReturn(k) ==
    /\ order[k] = "delivered"
    /\ CustomerOrder(k)
    /\ OpenRequest(k, "return")
    /\ order' = [order EXCEPT ![k] = "return_requested"]
    /\ UNCHANGED <<inventoryVars, gatewayVars, paid, terms, paymentVars,
                   active, redeemed, mailed, processVars>>

\* request_refund
RequestRefund(k) ==
    /\ paid[k] = "paid"
    /\ order[k] \in {"cancelled", "delivered", "return_requested"}
    /\ CustomerOrder(k)
    /\ OpenRequest(k, "refund")
    /\ UNCHANGED <<inventoryVars, gatewayVars, order, paid, terms, paymentVars,
                   active, redeemed, mailed, processVars>>

\* order_cancel, order_return_request, order_refund_request.
CustomerRequests(k) == CancelOrder(k) \/ RequestReturn(k) \/ RequestRefund(k)

-----------------------------------------------------------------------------
(* Staff in the Django admin *)

\* OrderAdmin, posted from a form that shows the order as it is.  (Module
\* StaffDesk lets the form grow old.)
StaffEditsOrder(k) ==
    /\ \E move \in StaffMoves :
        /\ move[1] = <<order[k], paid[k]>>
        /\ order' = [order EXCEPT ![k] = move[2][1]]
        /\ paid' = [paid EXCEPT ![k] = move[2][2]]
    /\ UNCHANGED <<inventoryVars, gatewayVars, terms, requests, paymentVars,
                   active, redeemed, mailed, processVars>>

\* OrderRequestAdmin: staff close a request, or open it again.
StaffEditsRequest(k, type) ==
    /\ requests[k][type] # "none"
    /\ requests' = [requests EXCEPT ![k][type] =
                        IF @ = "open" THEN "closed" ELSE "open"]
    /\ UNCHANGED <<inventoryVars, gatewayVars, order, paid, terms, paymentVars,
                   active, redeemed, mailed, processVars>>

StaffEditsStock ==
    /\ StaffStock
    /\ UNCHANGED <<gatewayVars, tableVars, processVars>>

-----------------------------------------------------------------------------

Next ==
    \/ \E w \in Workers, k \in Tokens :
        \/ Checkout(w, k) \/ Retry(w, k)
        \/ CreateSession(w, k) \/ SaveExternalId(w, k)
        \/ PaypalReturn(w, k) \/ PaypalCapture(w, k) \/ RecordCapture(w, k)
    \/ \E w \in Workers : Abandon(w)
    \/ \E k \in Tokens :
        \/ BuyerPays(k) \/ ProviderGivesUp(k) \/ CancelPayment(k)
        \/ \E kind \in EventKinds : Webhook(k, kind)
        \/ SweepFinds(k) \/ SweepExpires(k)
        \/ CustomerRequests(k)
        \/ StaffEditsOrder(k)
        \/ \E type \in RequestTypes : StaffEditsRequest(k, type)
    \/ SweepDies
    \/ StaffEditsStock

Spec == Init /\ [][Next]_vars

=============================================================================
