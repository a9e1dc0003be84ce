--------------------------- MODULE CommerceProofs ---------------------------
(***************************************************************************)
(* Theorems about Commerce, for any number of products, carts, customers,  *)
(* workers and checkout tokens: types; payments that settle once and in    *)
(* step with their orders; carts, mails, refunds and coupons; the promise  *)
(* about stock and the units it conserves; and what of this survives order *)
(* forms that grow old (StaffDesk).                                        *)
(*                                                                         *)
(* Core is the inductive invariant.  PaymentMatchesOrder alone is not one: *)
(* a webhook for a cash order, or a capture for an order never placed,     *)
(* would break it, and what rules these out is what the workers, the sweep *)
(* and the saved external ids refer to.                                    *)
(***************************************************************************)
EXTENDS StaffDesk, SumProofs

-----------------------------------------------------------------------------
(* Types *)

\* The initial state is well typed.
LEMMA InitTypeOK == Init => TypeOK
<1> SUFFICES ASSUME Init PROVE TypeOK
    OBVIOUS
<1>1. InventoryTypeOK
    BY InventoryAssumption DEF Init, InventoryInit, InventoryTypeOK
<1>2. GatewayTypeOK
    BY DEF Init, GatewayInit, GatewayTypeOK, SessionStatus
<1>3. requests \in [Tokens -> [RequestTypes -> RequestStatus]]
    BY DEF Init, RequestStatus
<1>4. terms \in [Tokens -> Terms \cup {NoTerms}]
    BY DEF Init
<1>5. QED
    BY <1>1, <1>2, <1>3, <1>4
       DEF Init, TypeOK, OrderStatus, PayStatus, PaymentStatus

-----------------------------------------------------------------------------
(* The services keep the types of what they touch *)

\* What is checked out can be kept as terms.
LEMMA OffersAreTerms ==
    ASSUME active \subseteq Carts, NEW t \in Offers
    PROVE  t \in Terms /\ t.cart \in active
BY CommerceAssumption DEF Offers, Terms, Baskets

\* A reservation never takes more than there is.
LEMMA ReserveTypeOK ==
    ASSUME InventoryTypeOK, NEW lines \in [Products -> Nat], Reserve(lines)
    PROVE  InventoryTypeOK'
BY DEF InventoryTypeOK, Reserve, Covers

\* Returning an order's units keeps stock a number.
LEMMA ReleaseTypeOK ==
    ASSUME TypeOK, NEW k \in Tokens, Release(terms[k].lines)
    PROVE  InventoryTypeOK'
<1>1. terms[k].lines \in [Products -> Nat]
  BY DEF TypeOK, Terms, NoTerms
<1>2. QED
  BY <1>1 DEF TypeOK, InventoryTypeOK, Release

\* Staff cannot set stock below zero.
LEMMA StaffStockTypeOK ==
    ASSUME InventoryTypeOK, StaffStock PROVE InventoryTypeOK'
<1>1. ASSUME NEW p \in Products, NEW delta \in Int, Adjust(p, delta)
      PROVE  InventoryTypeOK'
  BY <1>1 DEF InventoryTypeOK, Adjust
<1>2. ASSUME NEW p \in Products, NEW delta \in Deltas, BookAdjustment(p, delta)
      PROVE  InventoryTypeOK'
  BY <1>1, <1>2, InventoryAssumption DEF BookAdjustment
<1>3. ASSUME NEW p \in Products, NEW quantity \in 0 .. MaxStock, SetStock(p, quantity)
      PROVE  InventoryTypeOK'
  <2>1. quantity - stock[p] \in Int
    BY InventoryAssumption DEF InventoryTypeOK
  <2>2. QED
    BY <1>1, <1>3, <2>1 DEF SetStock
<1>4. QED
  BY <1>2, <1>3 DEF StaffStock

\* A capture issues a known kind of event.
LEMMA CaptureTypeOK ==
    ASSUME GatewayTypeOK, NEW k \in Tokens, Capture(k) PROVE GatewayTypeOK'
BY GatewayAssumption DEF GatewayTypeOK, Capture, SessionStatus, EventKinds

\* Only signed-in buyers are recorded on the coupon.
LEMMA RedeemTypeOK ==
    ASSUME redeemed \subseteq Users, NEW k \in Tokens, NEW t \in Terms, Redeem(k, t)
    PROVE  redeemed' \subseteq Users
<1>1. CASE redeemed' = redeemed
  BY <1>1
<1>2. CASE t.buyer # Guest /\ redeemed' = redeemed \cup {t.buyer}
  BY <1>2 DEF Terms, Buyers
<1>3. QED
  BY <1>1, <1>2 DEF Redeem

\* Opening a request keeps the table of requests well typed.
LEMMA OpenRequestTypeOK ==
    ASSUME requests \in [Tokens -> [RequestTypes -> RequestStatus]],
           NEW k \in Tokens, NEW type \in RequestTypes,
           OpenRequest(k, type) \/ UNCHANGED requests
    PROVE  requests' \in [Tokens -> [RequestTypes -> RequestStatus]]
BY DEF OpenRequest, RequestStatus

\* mark_payment_succeeded and mark_payment_failed keep the types.
LEMMA MarkTypeOK ==
    ASSUME TypeOK, NEW k \in Tokens, MarkSucceeded(k) \/ MarkFailed(k),
           sweep' \subseteq Tokens,
           worker' \in [Workers -> {Idle} \cup
             {At(step, j) : step \in {"create", "save", "capture", "record"}, j \in Tokens}],
           GatewayTypeOK'
    PROVE  TypeOK'
<1>1. CASE payment[k] # "pending"
  BY <1>1 DEF MarkSucceeded, MarkFailed, TypeOK, InventoryTypeOK, inventoryVars,
              tableVars, orderVars, paymentVars
<1>2. CASE payment[k] = "pending" /\ MarkSucceeded(k)
  <2>1. terms[k] \in Terms
    BY <1>2 DEF TypeOK
  <2>2. redeemed' \subseteq Users
    BY <1>2, <2>1, RedeemTypeOK DEF MarkSucceeded, TypeOK
  <2>3. mailed' \in [Tokens -> Nat]
    BY <1>2 DEF MarkSucceeded, Confirm, TypeOK
  <2>4. /\ order' = [order EXCEPT ![k] = "confirmed"]
        /\ paid' = [paid EXCEPT ![k] = "paid"]
        /\ payment' = [payment EXCEPT ![k] = "succeeded"]
        /\ UNCHANGED <<inventoryVars, terms, requests, linked, active>>
    BY <1>2 DEF MarkSucceeded
  <2>5. order' \in [Tokens -> OrderStatus]
    BY <2>4 DEF TypeOK, OrderStatus
  <2>6. paid' \in [Tokens -> PayStatus]
    BY <2>4 DEF TypeOK, PayStatus
  <2>7. payment' \in [Tokens -> PaymentStatus]
    BY <2>4 DEF TypeOK, PaymentStatus
  <2>8. \A j \in Tokens :
          terms'[j] \in Terms \/ (order'[j] = "none" /\ payment'[j] = "none")
    BY <1>2, <2>1 DEF MarkSucceeded, TypeOK
  <2>9. QED
    BY <2>2, <2>3, <2>4, <2>5, <2>6, <2>7, <2>8
       DEF TypeOK, InventoryTypeOK, inventoryVars
<1>3. CASE payment[k] = "pending" /\ MarkFailed(k)
  <2>1. InventoryTypeOK'
    BY <1>3, ReleaseTypeOK DEF MarkFailed
  <2>2. terms[k] \in Terms
    BY <1>3 DEF TypeOK
  <2>3. active' \subseteq Carts
    BY <1>3, <2>2 DEF MarkFailed, Terms, TypeOK
  <2>4. /\ order' = [order EXCEPT ![k] = "cancelled"]
        /\ paid' = [paid EXCEPT ![k] = "failed"]
        /\ payment' = [payment EXCEPT ![k] = "failed"]
        /\ UNCHANGED <<terms, requests, linked, redeemed, mailed>>
    BY <1>3 DEF MarkFailed
  <2>5. order' \in [Tokens -> OrderStatus]
    BY <2>4 DEF TypeOK, OrderStatus
  <2>6. paid' \in [Tokens -> PayStatus]
    BY <2>4 DEF TypeOK, PayStatus
  <2>7. payment' \in [Tokens -> PaymentStatus]
    BY <2>4 DEF TypeOK, PaymentStatus
  <2>8. \A j \in Tokens :
          terms'[j] \in Terms \/ (order'[j] = "none" /\ payment'[j] = "none")
    BY <1>3, <2>2 DEF MarkFailed, TypeOK
  <2>9. QED
    BY <2>1, <2>3, <2>4, <2>5, <2>6, <2>7, <2>8 DEF TypeOK
<1>4. QED
  BY <1>1, <1>2, <1>3

\* Every step keeps the types.
LEMMA StepTypeOK == TypeOK /\ [Next]_vars => TypeOK'
<1> SUFFICES ASSUME TypeOK, [Next]_vars PROVE TypeOK'
    OBVIOUS
<1> USE DEF TypeOK, InventoryTypeOK, GatewayTypeOK, inventoryVars, gatewayVars,
        tableVars, orderVars, paymentVars, processVars, OrderStatus, PayStatus,
        PaymentStatus, SessionStatus, Idle, At
<1>1. ASSUME NEW w \in Workers, NEW k \in Tokens, Checkout(w, k) PROVE TypeOK'
  <2>1. PICK t \in Offers :
          /\ t.coupon => CouponUsable(CartOwner[t.cart])
          /\ Reserve(t.lines)
          /\ terms' = [terms EXCEPT ![k] = t]
          /\ payment' = [payment EXCEPT ![k] = "pending"]
          /\ paid' = [paid EXCEPT ![k] = "pending"]
          /\ active' = active \ {t.cart}
          /\ \/ /\ t.provider = COD
                /\ order' = [order EXCEPT ![k] = "confirmed"]
                /\ Redeem(k, t)
                /\ Confirm(k)
                /\ UNCHANGED worker
             \/ /\ t.provider # COD
                /\ order' = [order EXCEPT ![k] = "pending"]
                /\ worker' = [worker EXCEPT ![w] = At("create", k)]
                /\ UNCHANGED <<redeemed, mailed>>
    BY <1>1 DEF Checkout
  <2>2. t \in Terms
    BY <2>1, OffersAreTerms
  <2>3. InventoryTypeOK'
    BY <2>1, <2>2, ReserveTypeOK DEF Terms
  <2>4. redeemed' \subseteq Users
    BY <2>1, <2>2, RedeemTypeOK
  <2>5. mailed' \in [Tokens -> Nat]
    BY <2>1 DEF Confirm
  <2>6. terms' \in [Tokens -> Terms \cup {NoTerms}]
    BY <2>1, <2>2
  <2>7. \A j \in Tokens :
          terms'[j] \in Terms \/ (order'[j] = "none" /\ payment'[j] = "none")
    BY <2>1, <2>2
  <2>8. worker' \in [Workers -> {Idle} \cup
          {At(step, j) : step \in {"create", "save", "capture", "record"}, j \in Tokens}]
    BY <2>1
  <2>9. order' \in [Tokens -> OrderStatus] /\ paid' \in [Tokens -> PayStatus]
        /\ payment' \in [Tokens -> PaymentStatus] /\ active' \subseteq Carts
    BY <2>1
  <2>10. QED
    BY <1>1, <2>3, <2>4, <2>5, <2>6, <2>7, <2>8, <2>9 DEF Checkout
<1>2. ASSUME NEW w \in Workers, NEW k \in Tokens, Retry(w, k) PROVE TypeOK'
  BY <1>2 DEF Retry
<1>3. ASSUME NEW w \in Workers, NEW k \in Tokens, CreateSession(w, k) PROVE TypeOK'
  BY <1>3 DEF CreateSession, OpenSession
<1>4. ASSUME NEW w \in Workers, NEW k \in Tokens, SaveExternalId(w, k) PROVE TypeOK'
  BY <1>4 DEF SaveExternalId
<1>5. ASSUME NEW w \in Workers, NEW k \in Tokens, PaypalReturn(w, k) PROVE TypeOK'
  BY <1>5 DEF PaypalReturn
<1>6. ASSUME NEW w \in Workers, NEW k \in Tokens, PaypalCapture(w, k) PROVE TypeOK'
  <2>1. GatewayTypeOK'
    BY <1>6, CaptureTypeOK DEF PaypalCapture
  <2>2. QED
    BY <1>6, <2>1 DEF PaypalCapture
<1>7. ASSUME NEW w \in Workers, NEW k \in Tokens, RecordCapture(w, k) PROVE TypeOK'
  <2>1. MarkSucceeded(k) \/ MarkFailed(k)
    BY <1>7 DEF RecordCapture
  <2>2. QED
    BY <1>7, <2>1, MarkTypeOK DEF RecordCapture
<1>8. ASSUME NEW w \in Workers, Abandon(w) PROVE TypeOK'
  BY <1>8 DEF Abandon
<1>9. ASSUME NEW k \in Tokens, BuyerPays(k) PROVE TypeOK'
  <2>1. GatewayTypeOK'
    BY <1>9, CaptureTypeOK DEF BuyerPays, Approve
  <2>2. QED
    BY <1>9, <2>1 DEF BuyerPays
<1>10. ASSUME NEW k \in Tokens, ProviderGivesUp(k) PROVE TypeOK'
  BY <1>10 DEF ProviderGivesUp, ExpireSession, DenyCapture, EventKinds
<1>11. ASSUME NEW k \in Tokens, CancelPayment(k) PROVE TypeOK'
  BY <1>11, MarkTypeOK DEF CancelPayment
<1>12. ASSUME NEW k \in Tokens, NEW kind \in EventKinds, Webhook(k, kind) PROVE TypeOK'
  <2>1. MarkSucceeded(k) \/ MarkFailed(k)
    BY <1>12 DEF Webhook
  <2>2. QED
    BY <1>12, <2>1, MarkTypeOK DEF Webhook
<1>13. ASSUME NEW k \in Tokens, SweepFinds(k) PROVE TypeOK'
  BY <1>13 DEF SweepFinds
<1>14. ASSUME NEW k \in Tokens, SweepExpires(k) PROVE TypeOK'
  BY <1>14, MarkTypeOK DEF SweepExpires
<1>15. ASSUME SweepDies PROVE TypeOK'
  BY <1>15 DEF SweepDies
<1>16. ASSUME NEW k \in Tokens, CancelOrder(k) PROVE TypeOK'
  <2>1. InventoryTypeOK'
    BY <1>16, ReleaseTypeOK DEF CancelOrder
  <2>2. requests' \in [Tokens -> [RequestTypes -> RequestStatus]]
    <3>1. OpenRequest(k, "refund") \/ UNCHANGED requests
      BY <1>16 DEF CancelOrder
    <3>2. "refund" \in RequestTypes
      BY DEF RequestTypes
    <3>3. QED
      BY <3>1, <3>2, OpenRequestTypeOK
  <2>3. \A j \in Tokens :
          terms'[j] \in Terms \/ (order'[j] = "none" /\ payment'[j] = "none")
    BY <1>16 DEF CancelOrder
  <2>4. order' \in [Tokens -> OrderStatus]
    BY <1>16 DEF CancelOrder
  <2>5. UNCHANGED <<gatewayVars, paid, terms, paymentVars, active, redeemed,
                    mailed, processVars>>
    BY <1>16 DEF CancelOrder
  <2>6. QED
    BY <2>1, <2>2, <2>3, <2>4, <2>5
<1>17. ASSUME NEW k \in Tokens, RequestReturn(k) PROVE TypeOK'
  BY <1>17 DEF RequestReturn, OpenRequest, RequestTypes, RequestStatus
<1>18. ASSUME NEW k \in Tokens, RequestRefund(k) PROVE TypeOK'
  BY <1>18 DEF RequestRefund, OpenRequest, RequestTypes, RequestStatus
<1>19. ASSUME NEW k \in Tokens, StaffEditsOrder(k) PROVE TypeOK'
  <2>1. PICK move \in StaffMoves :
          /\ move[1] = <<order[k], paid[k]>>
          /\ order' = [order EXCEPT ![k] = move[2][1]]
          /\ paid' = [paid EXCEPT ![k] = move[2][2]]
    BY <1>19 DEF StaffEditsOrder
  <2>2. move[2][1] \in OrderStatus /\ move[2][2] \in PayStatus /\ move[1][1] # "none"
    BY CommerceAssumption DEF StaffMovesLegal
  <2>3. order[k] # "none"
    BY <2>1, <2>2
  <2>4. QED
    BY <1>19, <2>1, <2>2, <2>3 DEF StaffEditsOrder
<1>20. ASSUME NEW k \in Tokens, NEW type \in RequestTypes, StaffEditsRequest(k, type)
       PROVE TypeOK'
  BY <1>20 DEF StaffEditsRequest, RequestStatus
<1>21. ASSUME StaffEditsStock PROVE TypeOK'
  BY <1>21, StaffStockTypeOK DEF StaffEditsStock
<1>22. CASE UNCHANGED vars
  BY <1>22 DEF vars
<1> HIDE DEF TypeOK
<1>23. QED
  BY <1>1, <1>2, <1>3, <1>4, <1>5, <1>6, <1>7, <1>8, <1>9, <1>10, <1>11, <1>12,
     <1>13, <1>14, <1>15, <1>16, <1>17, <1>18, <1>19, <1>20, <1>21, <1>22
  DEF Next, CustomerRequests

\* Every variable keeps its type: in particular stock is never negative.
THEOREM TypeCorrect == Spec => []TypeOK
<1>1. QED
  BY InitTypeOK, StepTypeOK, PTL DEF Spec

-----------------------------------------------------------------------------
(* Requests under way *)

\* Requests under way, saved external ids and the rows of a running sweep all
\* belong to online payments.
WorkInv ==
    /\ \A w \in Workers : worker[w] # Idle => IsOnline(worker[w].token)
    /\ \A k \in linked \cup sweep : IsOnline(k)

\* An order and its payment are made in one transaction.
RowsInv == \A k \in Tokens : order[k] = "none" <=> payment[k] = "none"

\* Ground is what even order forms that grow old do not disturb.
Ground == TypeOK /\ WorkInv /\ RowsInv

Core == TypeOK /\ WorkInv /\ PaymentMatchesOrder

LEMMA CoreGround == Core => Ground
BY DEF Core, Ground, RowsInv, PaymentMatchesOrder, Agrees

-----------------------------------------------------------------------------
(* The shapes of a step *)

\* A payment reported paid is applied to a pending online order.
Succeeds(k) ==
    /\ IsOnline(k)
    /\ payment[k] = "pending"
    /\ <<k, "paid">> \in events
    /\ payment' = [payment EXCEPT ![k] = "succeeded"]
    /\ order' = [order EXCEPT ![k] = "confirmed"]
    /\ paid' = [paid EXCEPT ![k] = "paid"]
    /\ Confirm(k)
    /\ UNCHANGED <<inventoryVars, events, terms, requests, active>>

\* A pending online payment fails.
Fails(k) ==
    /\ IsOnline(k)
    /\ payment[k] = "pending"
    /\ payment' = [payment EXCEPT ![k] = "failed"]
    /\ order' = [order EXCEPT ![k] = "cancelled"]
    /\ paid' = [paid EXCEPT ![k] = "failed"]
    /\ Release(terms[k].lines)
    /\ active' = active \cup {terms[k].cart}
    /\ UNCHANGED <<events, terms, requests, mailed>>

\* The order and payment tables stay as they are; staff may set stock and
\* handle requests, providers may issue events.
Quiet ==
    /\ UNCHANGED <<order, paid, terms, payment, active, mailed>>
    /\ UNCHANGED inventoryVars \/ StaffStock
    /\ events \subseteq events'
    /\ \A k \in Tokens, t \in RequestTypes :
         requests[k][t] # "none" => requests'[k][t] # "none"

\* The services change nothing, or have the shape of a settlement.
LEMMA MarkShapes ==
    ASSUME NEW k \in Tokens, IsOnline(k), UNCHANGED events
    PROVE  /\ MarkSucceeded(k) /\ <<k, "paid">> \in events => Succeeds(k) \/ Quiet
           /\ MarkFailed(k) => Fails(k) \/ Quiet
BY DEF MarkSucceeded, MarkFailed, Succeeds, Fails, Quiet, inventoryVars,
       tableVars, orderVars, paymentVars

\* Every step is a checkout, a settlement, a move of an order, or quiet.
LEMMA StepShapes ==
    ASSUME TypeOK, WorkInv, Next
    PROVE  \/ \E w \in Workers, k \in Tokens : Checkout(w, k)
           \/ \E k \in Tokens : Succeeds(k) \/ Fails(k) \/ CancelOrder(k)
                                \/ RequestReturn(k) \/ StaffEditsOrder(k)
           \/ Quiet
<1> DEFINE Shape ==
           \/ \E w \in Workers, k \in Tokens : Checkout(w, k)
           \/ \E k \in Tokens : Succeeds(k) \/ Fails(k) \/ CancelOrder(k)
                                \/ RequestReturn(k) \/ StaffEditsOrder(k)
           \/ Quiet
<1>1. ASSUME NEW w \in Workers, NEW k \in Tokens,
             \/ Retry(w, k) \/ CreateSession(w, k) \/ SaveExternalId(w, k)
             \/ PaypalReturn(w, k) \/ PaypalCapture(w, k)
      PROVE  Quiet
  BY <1>1 DEF Retry, CreateSession, OpenSession, SaveExternalId, PaypalReturn,
              PaypalCapture, Capture, Quiet, inventoryVars, gatewayVars,
              tableVars, orderVars, paymentVars
<1>2. ASSUME NEW w \in Workers, NEW k \in Tokens, RecordCapture(w, k)
      PROVE  Shape
  <2>1. IsOnline(k)
    BY <1>2 DEF RecordCapture, WorkInv, At, Idle
  <2>2. QED
    BY <1>2, <2>1, MarkShapes DEF RecordCapture, gatewayVars
<1>3. ASSUME NEW k \in Tokens, CancelPayment(k) PROVE Shape
  BY <1>3, MarkShapes DEF CancelPayment, gatewayVars
<1>4. ASSUME NEW k \in Tokens, NEW kind \in EventKinds, Webhook(k, kind)
      PROVE  Shape
  <2>1. IsOnline(k)
    BY <1>4 DEF Webhook, WorkInv
  <2>2. QED
    BY <1>4, <2>1, MarkShapes DEF Webhook, gatewayVars
<1>5. ASSUME NEW k \in Tokens, SweepExpires(k) PROVE Shape
  <2>1. IsOnline(k)
    BY <1>5 DEF SweepExpires, WorkInv
  <2>2. QED
    BY <1>5, <2>1, MarkShapes DEF SweepExpires, gatewayVars
<1>6. ASSUME NEW k \in Tokens,
             BuyerPays(k) \/ ProviderGivesUp(k) \/ SweepFinds(k)
      PROVE  Quiet
  BY <1>6 DEF BuyerPays, ProviderGivesUp, SweepFinds, Capture, Approve,
              ExpireSession, DenyCapture, Quiet, inventoryVars, gatewayVars,
              tableVars, orderVars, paymentVars
<1>7. ASSUME (\E w \in Workers : Abandon(w)) \/ SweepDies \/ StaffEditsStock
      PROVE  Quiet
  BY <1>7 DEF Abandon, SweepDies, StaffEditsStock, Quiet, inventoryVars,
              gatewayVars, tableVars, orderVars, paymentVars
<1>8. ASSUME NEW k \in Tokens,
             RequestRefund(k) \/ \E type \in RequestTypes : StaffEditsRequest(k, type)
      PROVE  Quiet
  BY <1>8 DEF RequestRefund, OpenRequest, StaffEditsRequest, Quiet, TypeOK,
              RequestTypes, inventoryVars, gatewayVars, paymentVars
<1>9. QED
  BY <1>1, <1>2, <1>3, <1>4, <1>5, <1>6, <1>7, <1>8 DEF Next, CustomerRequests

-----------------------------------------------------------------------------
(* The core invariant *)

\* The initial state satisfies the invariant.
LEMMA InitCore == Init => Core
<1> SUFFICES ASSUME Init PROVE Core
    OBVIOUS
<1>1. TypeOK
  BY InitTypeOK
<1>2. WorkInv
  BY DEF Init, WorkInv
<1>3. PaymentMatchesOrder
  BY DEF Init, PaymentMatchesOrder, Agrees, Placed, IsOnline
<1>4. QED
  BY <1>1, <1>2, <1>3 DEF Core

\* A step of staff moves an order between the statuses they may give it.
LEMMA StaffMoveShape ==
    ASSUME NEW k \in Tokens, StaffEditsOrder(k)
    PROVE  \E s \in OrderStatus \ {"none", "pending"},
              p \in PayStatus \ {"none", "failed"} :
             /\ order[k] \notin {"none", "pending"}
             /\ paid[k] \notin {"none", "failed"}
             /\ order' = [order EXCEPT ![k] = s]
             /\ paid' = [paid EXCEPT ![k] = p]
             /\ order[k] = "cancelled" <=> s = "cancelled"
             /\ paid[k] = "paid" => p # "pending"
             /\ paid[k] = "refunded" => p = "refunded"
             /\ order[k] = "cancelled" => paid[k] # "pending"
<1>1. PICK move \in StaffMoves :
        /\ move[1] = <<order[k], paid[k]>>
        /\ order' = [order EXCEPT ![k] = move[2][1]]
        /\ paid' = [paid EXCEPT ![k] = move[2][2]]
  BY DEF StaffEditsOrder
<1>2. move \in (OrderStatus \X PayStatus) \X (OrderStatus \X PayStatus)
  BY CommerceAssumption
<1>3. /\ move[1][1] \notin {"none", "pending"}
      /\ move[2][1] \notin {"none", "pending"}
      /\ move[1][1] = "cancelled" <=> move[2][1] = "cancelled"
      /\ move[1][2] \notin {"none", "failed"}
      /\ move[2][2] \notin {"none", "failed"}
      /\ move[1][2] = "paid" => move[2][2] # "pending"
      /\ move[1][2] = "refunded" => move[2][2] = "refunded"
      /\ move[1][1] = "cancelled" => move[1][2] # "pending"
  BY CommerceAssumption DEF StaffMovesLegal
<1>4. /\ move[2][1] \in OrderStatus
      /\ move[2][2] \in PayStatus
      /\ move[1][1] = order[k]
      /\ move[1][2] = paid[k]
  BY <1>1, <1>2
<1>5. QED
  BY <1>1, <1>3, <1>4

\* The terms of an order that was placed never change, and it stays placed.
LEMMA PlacedStays ==
    ASSUME Ground, [Next]_vars, NEW k \in Tokens, Placed(k)
    PROVE  Placed(k)' /\ terms'[k] = terms[k]
<1> USE DEF Placed
<1>1. payment[k] # "none" /\ order \in [Tokens -> OrderStatus]
      /\ terms \in [Tokens -> Terms \cup {NoTerms}]
  BY DEF Ground, RowsInv, TypeOK
<1>2. ASSUME NEW w \in Workers, NEW j \in Tokens, Checkout(w, j)
      PROVE  Placed(k)' /\ terms'[k] = terms[k]
  BY <1>1, <1>2 DEF Checkout
<1>3. ASSUME NEW j \in Tokens, Succeeds(j) \/ Fails(j) \/ CancelOrder(j) \/ RequestReturn(j)
      PROVE  Placed(k)' /\ terms'[k] = terms[k]
  BY <1>1, <1>3 DEF Succeeds, Fails, CancelOrder, RequestReturn
<1>4. ASSUME NEW j \in Tokens, StaffEditsOrder(j)
      PROVE  Placed(k)' /\ terms'[k] = terms[k]
  BY <1>1, <1>4, StaffMoveShape DEF StaffEditsOrder
<1>5. CASE Quiet \/ UNCHANGED vars
  BY <1>5 DEF Quiet, vars, tableVars, orderVars
<1>6. QED
  BY <1>2, <1>3, <1>4, <1>5, StepShapes DEF Ground

\* Requests, external ids and sweeps only ever refer to online payments.
LEMMA StepWorkInv == Ground /\ [Next]_vars => WorkInv'
<1> SUFFICES ASSUME Ground, [Next]_vars PROVE WorkInv'
    OBVIOUS
<1>1. ASSUME NEW k \in Tokens, IsOnline(k) PROVE IsOnline(k)'
  BY <1>1, PlacedStays DEF IsOnline
<1>2. /\ worker \in [Workers -> {Idle} \cup
            {At(step, k) : step \in {"create", "save", "capture", "record"}, k \in Tokens}]
      /\ linked \subseteq Tokens
      /\ sweep \subseteq Tokens
      /\ WorkInv
  BY DEF Ground, TypeOK
<1>3. \A w \in Workers : worker[w] # Idle =>
        worker[w].token \in Tokens /\ IsOnline(worker[w].token)
  BY <1>2 DEF WorkInv, At, Idle
\* A worker takes up an online payment, or a step for the payment it is at.
<1>4. ASSUME NEW w \in Workers, NEW k \in Tokens, NEW step,
             IsOnline(k)', worker' = [worker EXCEPT ![w] = At(step, k)],
             linked' \subseteq linked \cup {k}, sweep' \subseteq sweep
      PROVE  WorkInv'
  BY <1>1, <1>2, <1>3, <1>4 DEF WorkInv, At, Idle
<1>5. ASSUME NEW w \in Workers, NEW k \in Tokens, IsOnline(k),
             worker' = [worker EXCEPT ![w] = Idle] \/ UNCHANGED worker,
             linked' \subseteq linked \cup {k}, sweep' \subseteq sweep \cup {k}
      PROVE  WorkInv'
  BY <1>1, <1>2, <1>3, <1>5 DEF WorkInv, At, Idle
<1>6. ASSUME worker' = worker, linked' = linked, sweep' \subseteq sweep
      PROVE  WorkInv'
  BY <1>1, <1>2, <1>3, <1>6 DEF WorkInv
<1>7. ASSUME NEW w \in Workers, NEW k \in Tokens, Checkout(w, k) PROVE WorkInv'
  <2>1. PICK t \in Offers :
          /\ terms' = [terms EXCEPT ![k] = t]
          /\ \/ UNCHANGED worker
             \/ /\ t.provider # COD
                /\ order' = [order EXCEPT ![k] = "pending"]
                /\ worker' = [worker EXCEPT ![w] = At("create", k)]
          /\ linked' = linked /\ sweep' = sweep
    BY <1>7 DEF Checkout
  <2>2. t.provider # COD => t.provider \in Online
    BY <2>1, CommerceAssumption DEF Offers
  <2>3. QED
    BY <1>4, <1>6, <2>1, <2>2 DEF IsOnline, Placed, Ground, TypeOK
<1>8. ASSUME NEW w \in Workers, NEW k \in Tokens, Retry(w, k) PROVE WorkInv'
  BY <1>1, <1>4, <1>8 DEF Retry, tableVars, paymentVars
<1>9. ASSUME NEW w \in Workers, NEW k \in Tokens,
             \/ CreateSession(w, k) \/ SaveExternalId(w, k)
             \/ PaypalCapture(w, k) \/ RecordCapture(w, k)
      PROVE  WorkInv'
  <2>1. IsOnline(k)
    BY <1>9, <1>3 DEF CreateSession, SaveExternalId, PaypalCapture, RecordCapture, At, Idle
  <2>2. CASE CreateSession(w, k) \/ PaypalCapture(w, k)
    BY <1>1, <1>4, <2>1, <2>2 DEF CreateSession, PaypalCapture, tableVars, paymentVars
  <2>3. CASE SaveExternalId(w, k)
    BY <1>5, <2>1, <2>3 DEF SaveExternalId
  <2>4. CASE RecordCapture(w, k)
    BY <1>5, <2>1, <2>4 DEF RecordCapture, MarkSucceeded, MarkFailed, tableVars, paymentVars
  <2>5. QED
    BY <1>9, <2>2, <2>3, <2>4
<1>10. ASSUME NEW w \in Workers, NEW k \in Tokens, PaypalReturn(w, k) PROVE WorkInv'
  <2>1. IsOnline(k)
    BY <1>2, <1>10 DEF PaypalReturn, WorkInv
  <2>2. QED
    BY <1>1, <1>4, <1>10, <2>1 DEF PaypalReturn, tableVars, paymentVars
<1>11. ASSUME NEW w \in Workers, Abandon(w) PROVE WorkInv'
  BY <1>1, <1>2, <1>3, <1>11 DEF Abandon, WorkInv, tableVars, paymentVars
<1>12. ASSUME NEW k \in Tokens,
              \/ BuyerPays(k) \/ ProviderGivesUp(k) \/ CancelPayment(k)
              \/ \E kind \in EventKinds : Webhook(k, kind)
              \/ SweepExpires(k)
              \/ CancelOrder(k) \/ RequestReturn(k) \/ RequestRefund(k)
              \/ StaffEditsOrder(k)
              \/ \E type \in RequestTypes : StaffEditsRequest(k, type)
       PROVE  WorkInv'
  BY <1>6, <1>12
     DEF BuyerPays, ProviderGivesUp, CancelPayment, Webhook, SweepExpires,
         CancelOrder, RequestReturn, RequestRefund, StaffEditsOrder,
         StaffEditsRequest, MarkSucceeded, MarkFailed, processVars, tableVars,
         paymentVars
<1>13. ASSUME NEW k \in Tokens, SweepFinds(k) PROVE WorkInv'
  BY <1>1, <1>2, <1>3, <1>13 DEF SweepFinds, WorkInv, tableVars, paymentVars
<1>14. CASE SweepDies \/ StaffEditsStock \/ UNCHANGED vars
  BY <1>6, <1>14 DEF SweepDies, StaffEditsStock, vars, processVars, tableVars, paymentVars
<1>15. QED
  BY <1>7, <1>8, <1>9, <1>10, <1>11, <1>12, <1>13, <1>14 DEF Next, CustomerRequests

\* Every step keeps orders and payments in pairs.
LEMMA StepRowsInv == Ground /\ [Next]_vars => RowsInv'
<1> SUFFICES ASSUME Ground, [Next]_vars, NEW k \in Tokens
             PROVE  order'[k] = "none" <=> payment'[k] = "none"
    BY DEF RowsInv
<1>1. /\ order \in [Tokens -> OrderStatus]
      /\ payment \in [Tokens -> PaymentStatus]
      /\ order[k] = "none" <=> payment[k] = "none"
  BY DEF Ground, RowsInv, TypeOK
<1>2. ASSUME NEW w \in Workers, NEW j \in Tokens, Checkout(w, j)
      PROVE  order'[k] = "none" <=> payment'[k] = "none"
  BY <1>1, <1>2 DEF Checkout
<1>3. ASSUME NEW j \in Tokens, Succeeds(j) \/ Fails(j)
      PROVE  order'[k] = "none" <=> payment'[k] = "none"
  BY <1>1, <1>3 DEF Succeeds, Fails
<1>4. ASSUME NEW j \in Tokens, CancelOrder(j) \/ RequestReturn(j) \/ StaffEditsOrder(j)
      PROVE  order'[k] = "none" <=> payment'[k] = "none"
  BY <1>1, <1>4, StaffMoveShape DEF CancelOrder, RequestReturn, StaffEditsOrder, paymentVars
<1>5. CASE Quiet \/ UNCHANGED vars
  BY <1>1, <1>5 DEF Quiet, vars, tableVars, orderVars, paymentVars
<1>6. QED
  BY <1>2, <1>3, <1>4, <1>5, StepShapes DEF Ground

\* Every step keeps the ground.
LEMMA StepGround == Ground /\ [Next]_vars => Ground'
BY StepTypeOK, StepWorkInv, StepRowsInv DEF Ground

\* Every step keeps the three statuses in agreement.
LEMMA StepPaymentMatchesOrder == Core /\ [Next]_vars => PaymentMatchesOrder'
<1> SUFFICES ASSUME Core, [Next]_vars, NEW k \in Tokens PROVE Agrees(k)'
    BY DEF PaymentMatchesOrder
<1> USE DEF Agrees, Placed, IsOnline
<1>1. /\ order \in [Tokens -> OrderStatus]
      /\ paid \in [Tokens -> PayStatus]
      /\ terms \in [Tokens -> Terms \cup {NoTerms}]
      /\ payment \in [Tokens -> PaymentStatus]
      /\ Agrees(k)
  BY DEF Core, PaymentMatchesOrder, TypeOK
<1>2. ASSUME NEW w \in Workers, NEW j \in Tokens, Checkout(w, j) PROVE Agrees(k)'
  BY <1>1, <1>2 DEF Checkout, COD, Online
<1>3. ASSUME NEW j \in Tokens, Succeeds(j) \/ Fails(j) PROVE Agrees(k)'
  BY <1>1, <1>3 DEF Succeeds, Fails, COD, Online
<1>4. ASSUME NEW j \in Tokens, CancelOrder(j) \/ RequestReturn(j) PROVE Agrees(k)'
  BY <1>1, <1>4 DEF CancelOrder, RequestReturn, paymentVars
<1>5. ASSUME NEW j \in Tokens, StaffEditsOrder(j) PROVE Agrees(k)'
  BY <1>1, <1>5, StaffMoveShape DEF StaffEditsOrder, paymentVars, OrderStatus, PayStatus, PaymentStatus
<1>6. CASE Quiet \/ UNCHANGED vars
  BY <1>1, <1>6 DEF Quiet, vars, tableVars, orderVars, paymentVars
<1>7. QED
  BY <1>2, <1>3, <1>4, <1>5, <1>6, StepShapes DEF Core

\* Every step keeps the invariant.
LEMMA StepCore == Core /\ [Next]_vars => Core'
BY StepTypeOK, CoreGround, StepWorkInv, StepPaymentMatchesOrder DEF Core

\* The invariant holds in every reachable state.
LEMMA CoreHolds == Spec => []Core
BY InitCore, StepCore, PTL DEF Spec

\* The status of a payment and the two statuses of its order tell one story,
\* whatever webhooks, returns, cancel links, sweeps and staff do in whatever
\* order.
THEOREM StatusesAgree == Spec => []PaymentMatchesOrder
<1>1. Core => PaymentMatchesOrder
  BY DEF Core
<1>2. QED
  BY <1>1, CoreHolds, PTL

-----------------------------------------------------------------------------
(* Settled payments stay settled *)

\* No step changes a settled payment or its terms.
LEMMA StepSettled ==
    ASSUME Ground, [Next]_vars, NEW k \in Tokens, payment[k] \in {"succeeded", "failed"}
    PROVE  payment'[k] = payment[k] /\ terms'[k] = terms[k]
<1>1. Placed(k) /\ payment \in [Tokens -> PaymentStatus]
  BY DEF Ground, RowsInv, Placed, TypeOK
<1>2. terms'[k] = terms[k]
  BY <1>1, PlacedStays
<1>3. ASSUME NEW w \in Workers, NEW j \in Tokens, Checkout(w, j)
      PROVE  payment'[k] = payment[k]
  BY <1>1, <1>3 DEF Checkout
<1>4. ASSUME NEW j \in Tokens,
             \/ Succeeds(j) \/ Fails(j) \/ CancelOrder(j) \/ RequestReturn(j)
             \/ StaffEditsOrder(j)
      PROVE  payment'[k] = payment[k]
  BY <1>1, <1>4
     DEF Succeeds, Fails, CancelOrder, RequestReturn, StaffEditsOrder, paymentVars
<1>5. CASE Quiet \/ UNCHANGED vars
  BY <1>2, <1>5 DEF Quiet, vars, tableVars, paymentVars
<1>6. QED
  BY <1>2, <1>3, <1>4, <1>5, StepShapes DEF Ground

\* A payment that succeeded or failed keeps its status and its terms: no late
\* or repeated event, retried checkout or sweep touches it.
THEOREM SettlementIsFinal == Spec => SettledForGood
<1>1. Core /\ [Next]_vars =>
        [\A k \in Tokens :
            payment[k] \in {"succeeded", "failed"} =>
                payment'[k] = payment[k] /\ terms'[k] = terms[k]]_vars
  BY CoreGround, StepSettled
<1>2. QED
  BY <1>1, CoreHolds, PTL DEF Spec, SettledForGood

-----------------------------------------------------------------------------
(* Nothing ships unpaid *)

\* An event reporting the order's amount is only issued for a captured
\* session, and a payment only succeeds on such an event.
PaidInv ==
    \A k \in Tokens :
        /\ <<k, "paid">> \in events => session[k] = "captured"
        /\ IsOnline(k) /\ payment[k] = "succeeded" => <<k, "paid">> \in events

\* Sessions that are captured stay so, and only Capture reports a payment.
LEMMA StepEvents ==
    ASSUME Ground, [Next]_vars, NEW k \in Tokens
    PROVE  /\ session[k] = "captured" => session'[k] = "captured"
           /\ <<k, "paid">> \in events => <<k, "paid">> \in events'
           /\ <<k, "paid">> \in events' =>
                <<k, "paid">> \in events \/ session'[k] = "captured"
<1> DEFINE Grows ==
           /\ session[k] = "captured" => session'[k] = "captured"
           /\ <<k, "paid">> \in events => <<k, "paid">> \in events'
           /\ <<k, "paid">> \in events' =>
                <<k, "paid">> \in events \/ session'[k] = "captured"
<1>1. session \in [Tokens -> SessionStatus]
  BY DEF Ground, TypeOK, GatewayTypeOK
<1>2. ASSUME NEW j \in Tokens, Capture(j) PROVE Grows
  BY <1>1, <1>2 DEF Capture
<1>3. ASSUME NEW j \in Tokens,
             OpenSession(j) \/ Approve(j) \/ ExpireSession(j) \/ DenyCapture(j)
      PROVE  Grows
  BY <1>1, <1>3 DEF OpenSession, Approve, ExpireSession, DenyCapture
<1>4. CASE UNCHANGED gatewayVars
  BY <1>4 DEF gatewayVars
<1>5. CASE \E w \in Workers, j \in Tokens :
             \/ Checkout(w, j) \/ Retry(w, j)
             \/ CreateSession(w, j) \/ SaveExternalId(w, j)
             \/ PaypalReturn(w, j) \/ PaypalCapture(w, j) \/ RecordCapture(w, j)
  BY <1>2, <1>3, <1>4, <1>5
     DEF Checkout, Retry, CreateSession, SaveExternalId, PaypalReturn,
         PaypalCapture, RecordCapture
<1>6. CASE \E j \in Tokens :
             \/ BuyerPays(j) \/ ProviderGivesUp(j) \/ CancelPayment(j)
             \/ \E kind \in EventKinds : Webhook(j, kind)
             \/ SweepFinds(j) \/ SweepExpires(j)
             \/ CancelOrder(j) \/ RequestReturn(j) \/ RequestRefund(j)
             \/ StaffEditsOrder(j)
             \/ \E type \in RequestTypes : StaffEditsRequest(j, type)
  BY <1>2, <1>3, <1>4, <1>6
     DEF BuyerPays, ProviderGivesUp, CancelPayment, Webhook, SweepFinds,
         SweepExpires, CancelOrder, RequestReturn, RequestRefund,
         StaffEditsOrder, StaffEditsRequest
<1>7. CASE (\E w \in Workers : Abandon(w)) \/ SweepDies \/ StaffEditsStock
           \/ UNCHANGED vars
  BY <1>4, <1>7 DEF Abandon, SweepDies, StaffEditsStock, vars
<1>8. QED
  BY <1>5, <1>6, <1>7 DEF Next, CustomerRequests

\* Every step keeps success tied to a capture of the right amount.
LEMMA StepPaidInv == Core /\ PaidInv /\ [Next]_vars => PaidInv'
<1> SUFFICES ASSUME Core, PaidInv, [Next]_vars, NEW k \in Tokens
             PROVE  /\ (<<k, "paid">> \in events => session[k] = "captured")'
                    /\ (IsOnline(k) /\ payment[k] = "succeeded" => <<k, "paid">> \in events)'
    BY DEF PaidInv
<1>1. (<<k, "paid">> \in events => session[k] = "captured")'
  BY CoreGround, StepEvents DEF PaidInv
<1>2. ASSUME payment[k] = "succeeded", IsOnline(k)' PROVE IsOnline(k)
  <2>1. Placed(k)
    BY <1>2 DEF Core, PaymentMatchesOrder, Agrees, Placed
  <2>2. QED
    BY <1>2, <2>1, CoreGround, PlacedStays DEF IsOnline
<1>3. payment \in [Tokens -> PaymentStatus]
  BY DEF Core, TypeOK
<1> DEFINE Explained == payment'[k] = "succeeded" =>
                          payment[k] = "succeeded" \/ <<k, "paid">> \in events
<1>4. ASSUME NEW w \in Workers, NEW j \in Tokens, Checkout(w, j) PROVE Explained
  BY <1>3, <1>4 DEF Checkout
<1>5. ASSUME NEW j \in Tokens, Succeeds(j) PROVE Explained
  BY <1>3, <1>5 DEF Succeeds
<1>6. ASSUME NEW j \in Tokens,
             Fails(j) \/ CancelOrder(j) \/ RequestReturn(j) \/ StaffEditsOrder(j)
      PROVE  Explained
  BY <1>3, <1>6 DEF Fails, CancelOrder, RequestReturn, StaffEditsOrder, paymentVars
<1>7. ASSUME Quiet \/ UNCHANGED vars PROVE Explained
  BY <1>7 DEF Quiet, vars, tableVars, paymentVars
<1>8. Explained
  BY <1>4, <1>5, <1>6, <1>7, StepShapes DEF Core
<1>9. QED
  BY <1>1, <1>2, <1>8, CoreGround, StepEvents DEF PaidInv

\* No online order is worked on before the provider captured its amount.
THEOREM ShippedIsPaid == Spec => []NothingShipsUnpaid
<1>1. Init => PaidInv
  BY DEF Init, GatewayInit, PaidInv, IsOnline, Placed
<1>2. Spec => []PaidInv
  BY <1>1, StepPaidInv, CoreHolds, PTL DEF Spec
<1>3. Core /\ PaidInv => NothingShipsUnpaid
  <2> SUFFICES ASSUME Core, PaidInv, NEW k \in Tokens, IsOnline(k),
                      order[k] \notin {"pending", "cancelled"}
               PROVE  session[k] = "captured" /\ <<k, "paid">> \in events
      BY DEF NothingShipsUnpaid
  <2>1. payment[k] = "succeeded"
    BY DEF Core, PaymentMatchesOrder, Agrees, IsOnline, Placed, TypeOK, PaymentStatus
  <2>2. QED
    BY <2>1 DEF PaidInv
<1>4. QED
  BY <1>2, <1>3, CoreHolds, PTL

-----------------------------------------------------------------------------
(* The confirmation mail *)

\* A mail is only sent for an order that is placed, and for a pending online
\* order not yet.
MailInv ==
    \A k \in Tokens :
        /\ mailed[k] <= 1
        /\ mailed[k] > 0 => Placed(k) /\ (IsOnline(k) => payment[k] = "succeeded")

\* Every step keeps mails single and not early.
LEMMA StepMailInv == Core /\ MailInv /\ [Next]_vars => MailInv'
<1> SUFFICES ASSUME Core, MailInv, [Next]_vars, NEW k \in Tokens
             PROVE  /\ mailed'[k] <= 1
                    /\ mailed'[k] > 0 =>
                         Placed(k)' /\ (IsOnline(k)' => payment'[k] = "succeeded")
    BY DEF MailInv
<1> DEFINE Fine ==
           /\ mailed'[k] <= 1
           /\ mailed'[k] > 0 =>
                Placed(k)' /\ (IsOnline(k)' => payment'[k] = "succeeded")
<1> USE DEF Placed, IsOnline
<1>1. /\ mailed \in [Tokens -> Nat]
      /\ payment \in [Tokens -> PaymentStatus]
      /\ order \in [Tokens -> OrderStatus]
      /\ paid \in [Tokens -> PayStatus]
      /\ terms \in [Tokens -> Terms \cup {NoTerms}]
      /\ order[k] = "none" <=> payment[k] = "none"
      /\ mailed[k] <= 1
      /\ mailed[k] > 0 => Placed(k) /\ (IsOnline(k) => payment[k] = "succeeded")
  BY DEF Core, PaymentMatchesOrder, Agrees, TypeOK, MailInv
<1>2. ASSUME NEW w \in Workers, NEW j \in Tokens, Checkout(w, j) PROVE Fine
  BY <1>1, <1>2 DEF Checkout, Confirm, COD, Online
<1>3. ASSUME NEW j \in Tokens, Succeeds(j) PROVE Fine
  BY <1>1, <1>3 DEF Succeeds, Confirm
<1>4. ASSUME NEW j \in Tokens, Fails(j) \/ CancelOrder(j) \/ RequestReturn(j)
      PROVE  Fine
  BY <1>1, <1>4 DEF Fails, CancelOrder, RequestReturn, paymentVars
<1>5. ASSUME NEW j \in Tokens, StaffEditsOrder(j) PROVE Fine
  BY <1>1, <1>5, StaffMoveShape DEF StaffEditsOrder, paymentVars
<1>6. ASSUME Quiet \/ UNCHANGED vars PROVE Fine
  BY <1>1, <1>6 DEF Quiet, vars, tableVars, orderVars, paymentVars
<1>7. QED
  BY <1>2, <1>3, <1>4, <1>5, <1>6, StepShapes DEF Core

\* An order is confirmed by mail at most once, and an online order not before
\* its payment succeeded.
THEOREM MailedOnce == Spec => []ConfirmedOnce
<1>1. Init => MailInv
  BY DEF Init, MailInv
<1>2. MailInv => ConfirmedOnce
  BY DEF MailInv, ConfirmedOnce
<1>3. QED
  BY <1>1, <1>2, StepMailInv, CoreHolds, PTL DEF Spec

-----------------------------------------------------------------------------
(* Refunds *)

\* Every step keeps owed refunds on file.
LEMMA StepRefundOnFile == Core /\ RefundOnFile /\ [Next]_vars => RefundOnFile'
<1> SUFFICES ASSUME Core, RefundOnFile, [Next]_vars, NEW k \in Tokens
             PROVE  order'[k] = "cancelled" /\ paid'[k] = "paid" =>
                        requests'[k]["refund"] # "none"
    BY DEF RefundOnFile
<1> DEFINE Filed == order'[k] = "cancelled" /\ paid'[k] = "paid" =>
                        requests'[k]["refund"] # "none"
<1>1. /\ order \in [Tokens -> OrderStatus]
      /\ paid \in [Tokens -> PayStatus]
      /\ requests \in [Tokens -> [RequestTypes -> RequestStatus]]
      /\ order[k] = "cancelled" /\ paid[k] = "paid" =>
           requests[k]["refund"] # "none"
      /\ "refund" \in RequestTypes
  BY DEF Core, TypeOK, RefundOnFile, RequestTypes
<1>2. ASSUME NEW w \in Workers, NEW j \in Tokens, Checkout(w, j) PROVE Filed
  BY <1>1, <1>2 DEF Checkout
<1>3. ASSUME NEW j \in Tokens, Succeeds(j) \/ Fails(j) PROVE Filed
  BY <1>1, <1>3 DEF Succeeds, Fails
<1>4. ASSUME NEW j \in Tokens, CancelOrder(j) PROVE Filed
  BY <1>1, <1>4 DEF CancelOrder, OpenRequest
<1>5. ASSUME NEW j \in Tokens, RequestReturn(j) PROVE Filed
  BY <1>1, <1>5 DEF RequestReturn, OpenRequest
<1>6. ASSUME NEW j \in Tokens, StaffEditsOrder(j) PROVE Filed
  BY <1>1, <1>6, StaffMoveShape DEF StaffEditsOrder, PayStatus
<1>7. ASSUME Quiet \/ UNCHANGED vars PROVE Filed
  BY <1>1, <1>7 DEF Quiet, vars, tableVars, orderVars
<1>8. QED
  BY <1>2, <1>3, <1>4, <1>5, <1>6, <1>7, StepShapes DEF Core

\* A cancelled order the shop has the money of has a refund request on file.
THEOREM RefundsAreFiled == Spec => []RefundOnFile
<1>1. Init => RefundOnFile
  BY DEF Init, RefundOnFile
<1>2. QED
  BY <1>1, StepRefundOnFile, CoreHolds, PTL DEF Spec

-----------------------------------------------------------------------------
(* Carts *)

\* AttemptsOn with nothing hidden in a set.
Attempt(k, c) == Placed(k) /\ terms[k].cart = c /\ payment[k] # "failed"
CartInv ==
    \A c \in Carts :
        /\ \A j, k \in Tokens : Attempt(j, c) /\ Attempt(k, c) => j = k
        /\ c \in active <=> \A k \in Tokens : ~Attempt(k, c)

\* A cart keeps its attempts unless one starts or fails.
LEMMA AttemptsKept ==
    ASSUME CartInv, \A k \in Tokens, c \in Carts : Attempt(k, c)' <=> Attempt(k, c),
           UNCHANGED active
    PROVE  CartInv'
BY DEF CartInv

\* Every step keeps a cart to one live attempt.
LEMMA StepCartInv == Core /\ CartInv /\ [Next]_vars => CartInv'
<1> SUFFICES ASSUME Core, CartInv, [Next]_vars PROVE CartInv'
    OBVIOUS
<1>1. /\ order \in [Tokens -> OrderStatus]
      /\ payment \in [Tokens -> PaymentStatus]
      /\ terms \in [Tokens -> Terms \cup {NoTerms}]
      /\ \A k \in Tokens : Placed(k) => terms[k] \in Terms
      /\ \A k \in Tokens : Placed(k) <=> payment[k] # "none"
      /\ active \subseteq Carts
  BY DEF Core, PaymentMatchesOrder, Agrees, Placed, TypeOK
<1>2. ASSUME NEW w \in Workers, NEW k \in Tokens, Checkout(w, k) PROVE CartInv'
  <2>1. PICK t \in Offers :
          /\ terms' = [terms EXCEPT ![k] = t]
          /\ payment' = [payment EXCEPT ![k] = "pending"]
          /\ active' = active \ {t.cart}
          /\ \/ order' = [order EXCEPT ![k] = "confirmed"]
             \/ order' = [order EXCEPT ![k] = "pending"]
    BY <1>2 DEF Checkout
  <2>2. t.cart \in active
    BY <2>1 DEF Offers
  <2>3. ~Placed(k)
    BY <1>1, <1>2 DEF Checkout
  <2>4. \A j \in Tokens, c \in Carts :
          Attempt(j, c)' <=> (Attempt(j, c) \/ (j = k /\ c = t.cart))
    BY <1>1, <2>1, <2>3 DEF Attempt, Placed
  <2>5. QED
    BY <1>1, <2>1, <2>2, <2>3, <2>4 DEF CartInv
<1>3. ASSUME NEW k \in Tokens, Fails(k) PROVE CartInv'
  <2>1. /\ Attempt(k, terms[k].cart)
        /\ terms[k].cart \in Carts
        /\ active' = active \cup {terms[k].cart}
    BY <1>1, <1>3 DEF Fails, Attempt, IsOnline, Terms
  <2>2. \A j \in Tokens, c \in Carts : Attempt(j, c)' <=> (Attempt(j, c) /\ j # k)
    BY <1>1, <1>3 DEF Fails, Attempt, Placed
  <2>3. QED
    BY <1>1, <2>1, <2>2 DEF CartInv, Attempt
<1>4. ASSUME NEW k \in Tokens, Succeeds(k) \/ CancelOrder(k) \/ RequestReturn(k)
      PROVE  CartInv'
  <2>1. \A j \in Tokens, c \in Carts : Attempt(j, c)' <=> Attempt(j, c)
    BY <1>1, <1>4
       DEF Succeeds, CancelOrder, RequestReturn, Attempt, Placed, IsOnline, paymentVars
  <2>2. UNCHANGED active
    BY <1>4 DEF Succeeds, CancelOrder, RequestReturn
  <2>3. QED
    BY <2>1, <2>2, AttemptsKept
<1>5. ASSUME NEW k \in Tokens, StaffEditsOrder(k) PROVE CartInv'
  <2>1. \A j \in Tokens, c \in Carts : Attempt(j, c)' <=> Attempt(j, c)
    BY <1>1, <1>5, StaffMoveShape DEF StaffEditsOrder, Attempt, Placed, paymentVars
  <2>2. UNCHANGED active
    BY <1>5 DEF StaffEditsOrder
  <2>3. QED
    BY <2>1, <2>2, AttemptsKept
<1>6. CASE Quiet \/ UNCHANGED vars
  BY <1>6, AttemptsKept
     DEF Quiet, Attempt, Placed, vars, tableVars, orderVars, paymentVars
<1>7. QED
  BY <1>2, <1>3, <1>4, <1>5, <1>6, StepShapes DEF Core

\* A cart feeds at most one attempt that has not failed, and it is closed
\* exactly as long as there is one.
THEOREM CartsFeedOneAttempt == Spec => []OneAttemptPerCart
<1>1. Init => CartInv
  BY DEF Init, CartInv, Attempt, Placed
<1>2. CartInv => OneAttemptPerCart
  BY DEF CartInv, OneAttemptPerCart, AttemptsOn, Attempt
<1>3. QED
  BY <1>1, <1>2, StepCartInv, CoreHolds, PTL DEF Spec

-----------------------------------------------------------------------------
(* The coupon *)

\* There are finitely many orders with the coupon at any time, so they can be
\* counted; they grow by a checkout only, which finds the limit not reached.
CouponInv == IsFiniteSet(CouponOrders) /\ Cardinality(CouponOrders) <= UsageLimit

\* Fewer orders with the coupon are within the limit too.
LEMMA CouponShrinks ==
    ASSUME CouponInv, CouponOrders' \subseteq CouponOrders
    PROVE  CouponInv'
<1>1. IsFiniteSet(CouponOrders') /\ Cardinality(CouponOrders') <= Cardinality(CouponOrders)
  BY FS_Subset DEF CouponInv
<1>2. Cardinality(CouponOrders) \in Nat /\ Cardinality(CouponOrders') \in Nat
  BY <1>1, FS_CardinalityType DEF CouponInv
<1>3. QED
  BY <1>1, <1>2, CommerceAssumption DEF CouponInv

\* One more order is within the limit if it was not reached.
LEMMA CouponGrows ==
    ASSUME CouponInv, NEW k \in Tokens, Cardinality(CouponOrders) < UsageLimit,
           CouponOrders' \subseteq CouponOrders \cup {k}
    PROVE  CouponInv'
<1>1. /\ IsFiniteSet(CouponOrders \cup {k})
      /\ Cardinality(CouponOrders) \in Nat
      /\ Cardinality(CouponOrders \cup {k}) <= Cardinality(CouponOrders) + 1
  <2>1. IsFiniteSet(CouponOrders) /\ Cardinality(CouponOrders) \in Nat
    BY FS_CardinalityType DEF CouponInv
  <2>2. /\ IsFiniteSet(CouponOrders \cup {k})
        /\ \/ Cardinality(CouponOrders \cup {k}) = Cardinality(CouponOrders)
           \/ Cardinality(CouponOrders \cup {k}) = Cardinality(CouponOrders) + 1
    BY <2>1, FS_AddElement
  <2>3. QED
    BY <2>1, <2>2
<1>2. IsFiniteSet(CouponOrders') /\ Cardinality(CouponOrders') <= Cardinality(CouponOrders \cup {k})
  BY <1>1, FS_Subset
<1>3. Cardinality(CouponOrders \cup {k}) \in Nat /\ Cardinality(CouponOrders') \in Nat
  BY <1>1, <1>2, FS_CardinalityType
<1>4. QED
  BY <1>1, <1>2, <1>3, CommerceAssumption DEF CouponInv

\* Every step keeps the coupon within its limit.
LEMMA StepCouponInv == Core /\ CouponInv /\ [Next]_vars => CouponInv'
<1> SUFFICES ASSUME Core, CouponInv, [Next]_vars PROVE CouponInv'
    OBVIOUS
<1>1. /\ order \in [Tokens -> OrderStatus]
      /\ terms \in [Tokens -> Terms \cup {NoTerms}]
      /\ \A k \in Tokens : Agrees(k)
  BY DEF Core, PaymentMatchesOrder, TypeOK
<1>2. ASSUME NEW w \in Workers, NEW k \in Tokens, Checkout(w, k) PROVE CouponInv'
  <2>1. PICK t \in Offers :
          /\ t.coupon => CouponUsable(CartOwner[t.cart])
          /\ terms' = [terms EXCEPT ![k] = t]
          /\ \/ order' = [order EXCEPT ![k] = "confirmed"]
             \/ order' = [order EXCEPT ![k] = "pending"]
    BY <1>2 DEF Checkout
  <2>2. CASE t.coupon
    <3>1. Cardinality(CouponOrders) < UsageLimit
      BY <2>1, <2>2 DEF CouponUsable
    <3>2. CouponOrders' \subseteq CouponOrders \cup {k}
      BY <1>1, <2>1 DEF CouponOrders, Placed
    <3>3. QED
      BY <3>1, <3>2, CouponGrows
  <2>3. CASE ~t.coupon
    <3>1. CouponOrders' \subseteq CouponOrders
      BY <1>1, <2>1, <2>3 DEF CouponOrders, Placed
    <3>2. QED
      BY <3>1, CouponShrinks
  <2>4. QED
    BY <2>2, <2>3
<1>3. ASSUME NEW k \in Tokens,
             Succeeds(k) \/ Fails(k) \/ CancelOrder(k) \/ RequestReturn(k)
      PROVE  CouponOrders' \subseteq CouponOrders
  BY <1>1, <1>3 DEF Succeeds, Fails, CancelOrder, RequestReturn, CouponOrders,
                    Placed, IsOnline, Agrees
<1>4. ASSUME NEW k \in Tokens, StaffEditsOrder(k)
      PROVE  CouponOrders' \subseteq CouponOrders
  BY <1>1, <1>4, StaffMoveShape DEF StaffEditsOrder, CouponOrders, Placed
<1>5. CASE Quiet \/ UNCHANGED vars
  <2>1. CouponOrders' = CouponOrders
    BY <1>5 DEF Quiet, CouponOrders, Placed, vars, tableVars, orderVars
  <2>2. QED
    BY <2>1, CouponShrinks
<1>6. QED
  BY <1>2, <1>3, <1>4, <1>5, StepShapes, CouponShrinks DEF Core

\* The coupon is never on more live orders than its usage limit.
THEOREM CouponIsCapped == Spec => []CouponWithinLimit
<1>1. Init => CouponInv
  <2> SUFFICES ASSUME Init PROVE CouponInv
      OBVIOUS
  <2>1. CouponOrders = {}
    BY DEF Init, CouponOrders, Placed
  <2>2. QED
    BY <2>1, FS_EmptySet, CommerceAssumption DEF CouponInv
<1>2. CouponInv => CouponWithinLimit
  BY DEF CouponInv, CouponWithinLimit
<1>3. QED
  BY <1>1, <1>2, StepCouponInv, CoreHolds, PTL DEF Spec

-----------------------------------------------------------------------------
(* The promise about stock *)

\* The initial state of the shop is one of the shelf.
LEMMA InitShelf == Init => Shelf!ShelfInit
BY InventoryAssumption
   DEF Init, InventoryInit, Shelf!ShelfInit, Claims, Amounts, NoTerms

\* The state of a claim is read off the status of its order.
LEMMA ClaimOf ==
    ASSUME NEW k \in Tokens
    PROVE  /\ Claims[k] = "none" <=> order[k] = "none"
           /\ Claims[k] = "returned" <=> order[k] = "cancelled"
           /\ Claims[k] = "held" <=> order[k] \notin {"none", "cancelled"}
           /\ Amounts[k] = terms[k].lines
BY DEF Claims, Amounts

\* A checkout takes the units of its order off the shelf.
LEMMA CheckoutClaims ==
    ASSUME Core, NEW w \in Workers, NEW k \in Tokens, Checkout(w, k)
    PROVE  Shelf!Claim(k)
<1>1. PICK t \in Offers :
        /\ Reserve(t.lines)
        /\ terms' = [terms EXCEPT ![k] = t]
        /\ \/ order' = [order EXCEPT ![k] = "confirmed"]
           \/ order' = [order EXCEPT ![k] = "pending"]
  BY DEF Checkout
<1>2. /\ order \in [Tokens -> OrderStatus]
      /\ terms \in [Tokens -> Terms \cup {NoTerms}]
      /\ stock \in [Products -> Nat]
      /\ order[k] = "none"
      /\ t.lines \in [Products -> Nat]
  <2>1. payment[k] = "none" /\ active \subseteq Carts
    BY DEF Checkout, Core, TypeOK
  <2>2. t \in Terms
    BY <2>1, OffersAreTerms
  <2>3. QED
    BY <2>1, <2>2 DEF Core, PaymentMatchesOrder, Agrees, TypeOK, InventoryTypeOK, Terms
<1>3. Claims[k] = "none"
  BY <1>2, ClaimOf
<1>4. Claims' = [Claims EXCEPT ![k] = "held"]
  BY <1>1, <1>2 DEF Claims
<1>5. Amounts' = [Amounts EXCEPT ![k] = t.lines] /\ Amounts'[k] = t.lines
  BY <1>1, <1>2 DEF Amounts
<1>6. \A p \in Products :
        /\ t.lines[p] \in 0 .. stock[p]
        /\ stock'[p] = stock[p] - t.lines[p]
  BY <1>1, <1>2 DEF Reserve, Covers
<1>7. UNCHANGED received
  BY <1>1 DEF Reserve
<1>8. QED
  BY <1>3, <1>4, <1>5, <1>6, <1>7 DEF Shelf!Claim

\* An order that is called off puts its units back.
LEMMA CallingOffReturns ==
    ASSUME Core, NEW k \in Tokens, order[k] \notin {"none", "cancelled"},
           order' = [order EXCEPT ![k] = "cancelled"], UNCHANGED terms,
           Release(terms[k].lines)
    PROVE  Shelf!Return(k)
<1>1. order \in [Tokens -> OrderStatus]
  BY DEF Core, TypeOK
<1>2. Claims[k] = "held"
  BY ClaimOf
<1>3. Claims' = [Claims EXCEPT ![k] = "returned"]
  BY <1>1 DEF Claims
<1>4. Amounts' = Amounts /\ Amounts[k] = terms[k].lines
  BY DEF Amounts
<1>5. \A p \in Products : stock'[p] = stock[p] + Amounts[k][p]
  BY <1>4 DEF Release
<1>6. QED
  BY <1>2, <1>3, <1>4, <1>5 DEF Shelf!Return, Release

\* What staff do to stock is booked.
LEMMA StaffBooks ==
    ASSUME Core, StaffStock, UNCHANGED <<order, terms>>
    PROVE  \E p \in Products : Shelf!Book(p)
<1>1. /\ stock \in [Products -> Nat]
      /\ received \in [Products -> Int]
      /\ Deltas \subseteq Int
      /\ UNCHANGED <<Claims, Amounts>>
  BY InventoryAssumption DEF Core, TypeOK, InventoryTypeOK, Claims, Amounts
<1>2. ASSUME NEW p \in Products, NEW delta \in Int, Adjust(p, delta)
      PROVE  Shelf!Book(p)
  <2>1. /\ stock' = [stock EXCEPT ![p] = @ + delta]
        /\ received' = [received EXCEPT ![p] = @ + delta]
        /\ stock[p] + delta >= 0
    BY <1>2 DEF Adjust
  <2>2. stock'[p] = stock[p] + delta /\ stock'[p] \in Nat /\ delta = stock'[p] - stock[p]
    BY <1>1, <2>1
  <2>3. /\ stock' = [stock EXCEPT ![p] = stock'[p]]
        /\ received' = [received EXCEPT ![p] = @ + (stock'[p] - stock[p])]
    BY <2>1, <2>2
  <2>4. QED
    BY <1>1, <2>2, <2>3 DEF Shelf!Book
<1>3. PICK p \in Products, delta \in Int : Adjust(p, delta)
  <2>1. PICK p \in Products :
          \/ \E delta \in Deltas : BookAdjustment(p, delta)
          \/ \E quantity \in 0 .. MaxStock : SetStock(p, quantity)
    BY DEF StaffStock
  <2>2. \A quantity \in 0 .. MaxStock : quantity - stock[p] \in Int
    BY <1>1, InventoryAssumption
  <2>3. QED
    BY <1>1, <2>1, <2>2 DEF BookAdjustment, SetStock
<1>4. QED
  BY <1>2, <1>3

\* Steps that leave stock and the claims alone are invisible on the shelf.
LEMMA OtherwiseStutters ==
    ASSUME UNCHANGED <<inventoryVars, Claims, Amounts>>
    PROVE  UNCHANGED Shelf!rvars
BY DEF Shelf!rvars, inventoryVars

\* Every step is a step of the shelf or leaves it alone.
LEMMA StepShelf == Core /\ [Next]_vars => [Shelf!ShelfNext]_(Shelf!rvars)
<1> SUFFICES ASSUME Core, [Next]_vars
             PROVE  Shelf!ShelfNext \/ UNCHANGED Shelf!rvars
    OBVIOUS
<1>1. /\ order \in [Tokens -> OrderStatus]
      /\ payment \in [Tokens -> PaymentStatus]
      /\ \A k \in Tokens : Agrees(k)
  BY DEF Core, TypeOK, PaymentMatchesOrder
<1>2. ASSUME NEW w \in Workers, NEW k \in Tokens, Checkout(w, k)
      PROVE  Shelf!ShelfNext
  BY <1>2, CheckoutClaims DEF Shelf!ShelfNext
<1>3. ASSUME NEW k \in Tokens, Fails(k) PROVE Shelf!ShelfNext
  <2>1. order[k] = "pending"
    BY <1>1, <1>3 DEF Fails, Agrees
  <2>2. QED
    BY <1>3, <2>1, CallingOffReturns DEF Fails, Shelf!ShelfNext
<1>4. ASSUME NEW k \in Tokens, CancelOrder(k) PROVE Shelf!ShelfNext
  BY <1>4, CallingOffReturns DEF CancelOrder, Shelf!ShelfNext
<1>5. ASSUME NEW k \in Tokens, Succeeds(k) \/ RequestReturn(k) \/ StaffEditsOrder(k)
      PROVE  UNCHANGED Shelf!rvars
  <2>1. CASE Succeeds(k)
    <3>1. order[k] = "pending" /\ order' = [order EXCEPT ![k] = "confirmed"]
      BY <1>1, <2>1 DEF Succeeds, Agrees
    <3>2. UNCHANGED <<inventoryVars, Claims, Amounts>>
      BY <1>1, <2>1, <3>1 DEF Succeeds, Claims, Amounts
    <3>3. QED
      BY <3>2, OtherwiseStutters
  <2>2. CASE RequestReturn(k)
    <3>1. UNCHANGED <<inventoryVars, Claims, Amounts>>
      BY <1>1, <2>2 DEF RequestReturn, Claims, Amounts
    <3>2. QED
      BY <3>1, OtherwiseStutters
  <2>3. CASE StaffEditsOrder(k)
    <3>1. \A j \in Tokens : (order'[j] = "none" <=> order[j] = "none")
                         /\ (order'[j] = "cancelled" <=> order[j] = "cancelled")
      BY <1>1, <2>3, StaffMoveShape
    <3>2. UNCHANGED <<inventoryVars, terms>>
      BY <2>3 DEF StaffEditsOrder
    <3>3. UNCHANGED <<inventoryVars, Claims, Amounts>>
      BY <3>1, <3>2 DEF Claims, Amounts
    <3>4. QED
      BY <3>3, OtherwiseStutters
  <2>4. QED
    BY <1>5, <2>1, <2>2, <2>3
<1>6. CASE Quiet
  <2>1. CASE StaffStock
    BY <1>6, <2>1, StaffBooks DEF Quiet, Shelf!ShelfNext
  <2>2. CASE UNCHANGED inventoryVars
    <3>1. UNCHANGED <<inventoryVars, Claims, Amounts>>
      BY <1>6, <2>2 DEF Quiet, Claims, Amounts
    <3>2. QED
      BY <3>1, OtherwiseStutters
  <2>3. QED
    BY <1>6, <2>1, <2>2 DEF Quiet
<1>7. CASE UNCHANGED vars
  <2>1. UNCHANGED <<inventoryVars, Claims, Amounts>>
    BY <1>7 DEF vars, tableVars, orderVars, Claims, Amounts
  <2>2. QED
    BY <2>1, OtherwiseStutters
<1>8. QED
  BY <1>2, <1>3, <1>4, <1>5, <1>6, <1>7, StepShapes DEF Core

\* Orders, payments and staff keep the promise about stock.
THEOREM StockPromiseKept == Spec => StockPromise
BY InitShelf, StepShelf, CoreHolds, PTL DEF Spec, StockPromise, Shelf!ShelfSpec

-----------------------------------------------------------------------------
(* Units are conserved *)

\* There are finitely many live orders at any time, so their units have a sum.
UnitsInv == IsFiniteSet(LiveOrders) /\ UnitsConserved

\* An order that becomes live adds its units to the sum.
LEMMA UnitsOfOneMore ==
    ASSUME NEW S, IsFiniteSet(S), NEW k, k \notin S, NEW w, NEW v,
           \A j \in S : w[j] \in Int /\ v[j] = w[j], v[k] \in Int
    PROVE  /\ SumFunctionOnSet(w, S) \in Int
           /\ SumFunctionOnSet(v, S \cup {k}) = v[k] + SumFunctionOnSet(w, S)
<1>1. IsFiniteSet(S \cup {k})
  BY FS_AddElement
<1>2. SumFunctionOnSet(v, S \cup {k}) = v[k] + SumFunctionOnSet(v, (S \cup {k}) \ {k})
  BY <1>1, SumAnyFirst
<1>3. (S \cup {k}) \ {k} = S
  OBVIOUS
<1>4. SumFunctionOnSet(v, S) = SumFunctionOnSet(w, S)
  BY SumSame
<1>5. QED
  BY <1>2, <1>3, <1>4, SumInt

\* The types of the quantities in UnitsConserved.
LEMMA UnitsTypes ==
    ASSUME Core
    PROVE  /\ \A k \in Tokens, p \in Products : terms[k].lines[p] \in Nat
           /\ stock \in [Products -> Nat] /\ received \in [Products -> Int]
<1>1. /\ terms \in [Tokens -> Terms \cup {NoTerms}]
      /\ stock \in [Products -> Nat] /\ received \in [Products -> Int]
  BY DEF Core, TypeOK, InventoryTypeOK
<1>2. QED
  BY <1>1 DEF Terms, NoTerms

\* A step of the shelf, which every step of the shop is, conserves the units.
LEMMA StepUnits == Core /\ Core' /\ UnitsInv /\ [Next]_vars => UnitsInv'
<1> SUFFICES ASSUME Core, Core', UnitsInv, [Next]_vars PROVE UnitsInv'
    OBVIOUS
<1>1. /\ \A k \in Tokens, p \in Products : terms[k].lines[p] \in Nat
      /\ stock \in [Products -> Nat] /\ received \in [Products -> Int]
      /\ \A k \in Tokens, p \in Products : terms'[k].lines[p] \in Nat
  <2>1. terms' \in [Tokens -> Terms \cup {NoTerms}]
    BY DEF Core, TypeOK
  <2>2. \A k \in Tokens, p \in Products : terms'[k].lines[p] \in Nat
    BY <2>1 DEF Terms, NoTerms
  <2>3. QED
    BY <2>2, UnitsTypes
<1>2. /\ LiveOrders = {k \in Tokens : Claims[k] = "held"}
      /\ LiveOrders' = {k \in Tokens : Claims'[k] = "held"}
      /\ \A p \in Products : Units(p) = [k \in Tokens |-> Amounts[k][p]]
      /\ \A p \in Products : Units(p)' = [k \in Tokens |-> Amounts'[k][p]]
      /\ \A k \in Tokens : Amounts[k] = terms[k].lines /\ Amounts'[k] = terms'[k].lines
  BY DEF LiveOrders, Claims, Units, Amounts
<1>3. Claims \in [Tokens -> {"none", "held", "returned"}] /\ Amounts \in [Tokens -> {terms[k].lines : k \in Tokens}]
  BY DEF Claims, Amounts
<1>4. IsFiniteSet(LiveOrders)
      /\ \A p \in Products : stock[p] + SumFunctionOnSet(Units(p), LiveOrders) = received[p]
  BY DEF UnitsInv, UnitsConserved
<1>5. SUFFICES IsFiniteSet(LiveOrders')
         /\ \A p \in Products : stock'[p] + SumFunctionOnSet(Units(p)', LiveOrders') = received'[p]
  BY DEF UnitsInv, UnitsConserved
<1>6. CASE \E k \in Tokens : Shelf!Claim(k)
  <2>1. PICK k \in Tokens : Shelf!Claim(k)
    BY <1>6
  <2>2. k \notin LiveOrders /\ LiveOrders' = LiveOrders \cup {k}
    BY <1>2, <1>3, <2>1 DEF Shelf!Claim
  <2>3. \A j \in LiveOrders : Amounts'[j] = Amounts[j]
    BY <1>2, <1>3, <2>1, <2>2 DEF Shelf!Claim
  <2>4. ASSUME NEW p \in Products
        PROVE  stock'[p] + SumFunctionOnSet(Units(p)', LiveOrders') = received'[p]
    <3>1. \A j \in LiveOrders : Units(p)[j] \in Int /\ Units(p)'[j] = Units(p)[j]
      BY <1>1, <1>2, <2>3
    <3>2. Units(p)'[k] \in Int /\ Units(p)'[k] = Amounts'[k][p]
      BY <1>1, <1>2
    <3>3. stock'[p] = stock[p] - Amounts'[k][p] /\ received' = received
      BY <2>1 DEF Shelf!Claim
    <3>4. /\ SumFunctionOnSet(Units(p), LiveOrders) \in Int
          /\ SumFunctionOnSet(Units(p)', LiveOrders \cup {k})
               = Units(p)'[k] + SumFunctionOnSet(Units(p), LiveOrders)
      BY <1>4, <2>2, <3>1, <3>2, UnitsOfOneMore
    <3>5. QED
      BY <1>1, <1>4, <2>2, <3>2, <3>3, <3>4
  <2>5. QED
    BY <1>4, <2>2, <2>4, FS_AddElement
<1>7. CASE \E k \in Tokens : Shelf!Return(k)
  <2>1. PICK k \in Tokens : Shelf!Return(k)
    BY <1>7
  <2> DEFINE rest == LiveOrders \ {k}
  <2>2. k \in LiveOrders /\ LiveOrders' = rest
    BY <1>2, <1>3, <2>1 DEF Shelf!Return
  <2>3. IsFiniteSet(rest)
    BY <1>4, FS_Subset
  <2>4. ASSUME NEW p \in Products
        PROVE  stock'[p] + SumFunctionOnSet(Units(p)', LiveOrders') = received'[p]
    <3>1. \A j \in LiveOrders : Units(p)[j] \in Int
      BY <1>1, <1>2
    <3>2. Units(p)' = Units(p) /\ Units(p)[k] = Amounts[k][p]
      BY <1>2, <2>1 DEF Shelf!Return
    <3>3. stock'[p] = stock[p] + Amounts[k][p] /\ received' = received
      BY <2>1 DEF Shelf!Return
    <3>4. SumFunctionOnSet(Units(p), LiveOrders) = Units(p)[k] + SumFunctionOnSet(Units(p), rest)
      BY <1>4, <2>2, <3>1, SumAnyFirst
    <3>5. SumFunctionOnSet(Units(p), rest) \in Int
      BY <2>3, <3>1, SumInt
    <3>6. stock[p] + (Amounts[k][p] + SumFunctionOnSet(Units(p), rest)) = received[p]
      BY <1>4, <3>2, <3>4
    <3>7. stock[p] \in Int /\ Amounts[k][p] \in Int
      BY <1>1, <1>2
    <3>8. stock'[p] + SumFunctionOnSet(Units(p), rest) = received'[p]
      BY <3>3, <3>5, <3>6, <3>7
    <3>9. QED
      BY <2>2, <3>2, <3>8
  <2>5. QED
    BY <2>2, <2>3, <2>4
<1>8. CASE \E q \in Products : Shelf!Book(q)
  <2>1. PICK q \in Products : Shelf!Book(q)
    BY <1>8
  <2>2. LiveOrders' = LiveOrders /\ \A p \in Products : Units(p)' = Units(p)
    BY <1>2, <2>1 DEF Shelf!Book
  <2>3. ASSUME NEW p \in Products
        PROVE  stock'[p] + SumFunctionOnSet(Units(p)', LiveOrders') = received'[p]
    <3>1. SumFunctionOnSet(Units(p), LiveOrders) \in Int
      BY <1>1, <1>2, <1>4, SumInt
    <3>2. stock'[p] \in Int /\ received'[p] = received[p] + (stock'[p] - stock[p])
      BY <1>1, <2>1 DEF Shelf!Book
    <3>3. QED
      BY <1>1, <1>4, <2>2, <3>1, <3>2
  <2>4. QED
    BY <1>4, <2>2, <2>3
<1>9. CASE UNCHANGED Shelf!rvars
  BY <1>2, <1>4, <1>9 DEF Shelf!rvars
<1>10. QED
  BY <1>6, <1>7, <1>8, <1>9, StepShelf DEF Shelf!ShelfNext

\* Every unit staff ever put in is on the shelf or in an order that was not
\* called off, whatever checkouts, failed payments, sweeps and cancellations
\* do to each other.
THEOREM NoUnitLost == Spec => []UnitsConserved
<1>1. Init => UnitsInv
  <2> SUFFICES ASSUME Init PROVE UnitsInv
      OBVIOUS
  <2>1. LiveOrders = {}
    BY DEF Init, LiveOrders
  <2>2. stock = received /\ stock \in [Products -> Nat]
    BY InventoryAssumption DEF Init, InventoryInit
  <2>3. \A p \in Products : SumFunctionOnSet(Units(p), {}) = 0
    BY SumEmpty
  <2>4. QED
    BY <2>1, <2>2, <2>3, FS_EmptySet DEF UnitsInv, UnitsConserved
<1>2. UnitsInv => UnitsConserved
  BY DEF UnitsInv
<1>3. QED
  BY <1>1, <1>2, StepUnits, CoreHolds, PTL DEF Spec

-----------------------------------------------------------------------------
(* Order forms that grow old *)

\* Events that report the order's amount come from captured sessions.
PaidEvents == \A k \in Tokens : <<k, "paid">> \in events => session[k] = "captured"

\* An order form shows statuses its order had: those of a placed order, and of
\* a paid one when an online order is shown beyond pending.
FormInv ==
    form # NoForm =>
        /\ form.token \in Tokens
        /\ Placed(form.token)
        /\ form.status \in OrderStatus \ {"none"}
        /\ form.pay \in PayStatus
        /\ IsOnline(form.token) /\ form.status \notin {"pending", "cancelled"} =>
             <<form.token, "paid">> \in events

\* What holds whatever an old form writes over an order.  Agrees does not: a
\* form opened before a failed payment brings the order back, though only
\* as pending or, if it was paid for, beyond.
DeskInv == Ground /\ PaidEvents /\ NothingShipsUnpaid /\ FormInv

\* The steps of the shop keep online orders unshipped until they are paid,
\* even after a form made the order's statuses disagree with its payment.
LEMMA StepNothingShips ==
    Ground /\ PaidEvents /\ NothingShipsUnpaid /\ [Next]_vars => NothingShipsUnpaid'
<1> SUFFICES ASSUME Ground, PaidEvents, NothingShipsUnpaid, [Next]_vars,
                    NEW k \in Tokens, IsOnline(k)',
                    order'[k] \notin {"pending", "cancelled"}
             PROVE  session'[k] = "captured" /\ <<k, "paid">> \in events'
    BY DEF NothingShipsUnpaid
<1> DEFINE Explained ==
        \/ IsOnline(k) /\ order[k] \notin {"pending", "cancelled"}
        \/ <<k, "paid">> \in events
<1>1. /\ order \in [Tokens -> OrderStatus]
      /\ terms \in [Tokens -> Terms \cup {NoTerms}]
      /\ TypeOK /\ WorkInv
  BY DEF Ground, TypeOK
<1>2. Placed(k) => (IsOnline(k) /\ terms'[k] = terms[k])
  BY PlacedStays DEF IsOnline
<1>3. ASSUME NEW w \in Workers, NEW j \in Tokens, Checkout(w, j) PROVE Explained
  <2>1. PICK t \in Offers :
          /\ terms' = [terms EXCEPT ![j] = t]
          /\ \/ t.provider = COD /\ order' = [order EXCEPT ![j] = "confirmed"]
             \/ order' = [order EXCEPT ![j] = "pending"]
    BY <1>3 DEF Checkout
  <2>2. j # k
    BY <1>1, <2>1 DEF IsOnline, COD, Online
  <2>3. QED
    BY <1>1, <1>2, <2>1, <2>2 DEF IsOnline, Placed
<1>4. ASSUME NEW j \in Tokens, Succeeds(j) PROVE Explained
  BY <1>1, <1>2, <1>4 DEF Succeeds, IsOnline, Placed
<1>5. ASSUME NEW j \in Tokens, Fails(j) \/ CancelOrder(j) \/ RequestReturn(j)
      PROVE  Explained
  BY <1>1, <1>2, <1>5 DEF Fails, CancelOrder, RequestReturn, IsOnline, Placed
<1>6. ASSUME NEW j \in Tokens, StaffEditsOrder(j) PROVE Explained
  BY <1>1, <1>2, <1>6, StaffMoveShape DEF StaffEditsOrder, IsOnline, Placed
<1>7. ASSUME Quiet \/ UNCHANGED vars PROVE Explained
  BY <1>7 DEF Quiet, vars, tableVars, orderVars, IsOnline, Placed
<1>8. Explained
  BY <1>1, <1>3, <1>4, <1>5, <1>6, <1>7, StepShapes
<1>9. QED
  BY <1>8, StepEvents DEF NothingShipsUnpaid, PaidEvents

\* The steps of the shop leave what an open form shows true of its order.
LEMMA StepFormInv ==
    Ground /\ FormInv /\ [Next]_vars /\ UNCHANGED form => FormInv'
<1> SUFFICES ASSUME Ground, FormInv, [Next]_vars, UNCHANGED form, form # NoForm
             PROVE  FormInv'
    BY DEF FormInv
<1>1. form.token \in Tokens /\ Placed(form.token)
  BY DEF FormInv
<1>2. Placed(form.token)' /\ terms'[form.token] = terms[form.token]
  BY <1>1, PlacedStays
<1>3. <<form.token, "paid">> \in events => <<form.token, "paid">> \in events'
  BY <1>1, StepEvents
<1>4. QED
  BY <1>1, <1>2, <1>3 DEF FormInv, IsOnline

\* A form shows the order as it is when it is opened.
LEMMA OpenFormDeskInv ==
    ASSUME DeskInv, NEW k \in Tokens, OpenForm(k) PROVE DeskInv'
<1>1. UNCHANGED vars /\ form' = [open |-> TRUE, token |-> k, status |-> order[k], pay |-> paid[k]]
  BY DEF OpenForm
<1>2. Ground' /\ PaidEvents' /\ NothingShipsUnpaid'
  <2>1. Ground'
    BY <1>1, StepGround DEF DeskInv
  <2>2. NothingShipsUnpaid'
    BY <1>1, StepNothingShips DEF DeskInv
  <2>3. PaidEvents'
    BY <1>1, StepEvents DEF DeskInv, PaidEvents
  <2>4. QED
    BY <2>1, <2>2, <2>3
<1>3. /\ order'[k] \in OrderStatus \ {"none"} /\ paid'[k] \in PayStatus
      /\ order' = order /\ paid' = paid /\ Placed(k)'
  BY <1>1 DEF OpenForm, DeskInv, Ground, TypeOK, Placed, vars, tableVars, orderVars
<1>4. FormInv'
  BY <1>1, <1>2, <1>3 DEF FormInv, NothingShipsUnpaid
<1>5. QED
  BY <1>2, <1>4 DEF DeskInv

\* A form that is posted writes its two statuses, and they are safe to write.
LEMMA SaveFormDeskInv == DeskInv /\ SaveForm => DeskInv'
<1> SUFFICES ASSUME DeskInv, SaveForm PROVE DeskInv'
    OBVIOUS
<1> DEFINE k == form.token
<1>1. PICK new \in Posted :
        /\ order' = [order EXCEPT ![k] = new[1]]
        /\ paid' = [paid EXCEPT ![k] = new[2]]
  BY DEF SaveForm
<1>2. /\ form' = NoForm
      /\ UNCHANGED <<inventoryVars, gatewayVars, terms, requests, paymentVars,
                     active, redeemed, mailed, processVars>>
  BY DEF SaveForm
<1>3. /\ k \in Tokens /\ Placed(k)
      /\ form.status \in OrderStatus \ {"none"} /\ form.pay \in PayStatus
      /\ IsOnline(k) /\ form.status \notin {"pending", "cancelled"} =>
           <<k, "paid">> \in events
  BY DEF SaveForm, DeskInv, FormInv
<1>4. /\ new[1] \in OrderStatus \ {"none"} /\ new[2] \in PayStatus
      /\ new[1] \notin {"pending", "cancelled"} =>
           form.status \notin {"pending", "cancelled"}
  <2>1. CASE new = <<form.status, form.pay>>
    BY <1>3, <2>1
  <2>2. CASE \E m \in StaffMoves : m[1] = <<form.status, form.pay>> /\ new = m[2]
    <3>1. PICK m \in StaffMoves : m[1] = <<form.status, form.pay>> /\ new = m[2]
      BY <2>2
    <3>2. m \in (OrderStatus \X PayStatus) \X (OrderStatus \X PayStatus)
      BY CommerceAssumption
    <3>3. /\ m[1][1] # "pending" /\ m[2][1] # "none"
          /\ m[1][1] = "cancelled" <=> m[2][1] = "cancelled"
      BY CommerceAssumption DEF StaffMovesLegal
    <3>4. QED
      BY <3>1, <3>2, <3>3
  <2>3. QED
    BY <2>1, <2>2 DEF Posted
<1>5. Ground'
  <2>1. /\ order \in [Tokens -> OrderStatus] /\ paid \in [Tokens -> PayStatus]
        /\ order[k] # "none"
    BY <1>3 DEF DeskInv, Ground, TypeOK, Placed
  <2>2. \A j \in Tokens : order'[j] = "none" <=> order[j] = "none"
    BY <1>1, <1>3, <1>4, <2>1
  <2>3. order' \in [Tokens -> OrderStatus] /\ paid' \in [Tokens -> PayStatus]
    BY <1>1, <1>4, <2>1
  <2>4. TypeOK'
    BY <1>2, <2>2, <2>3
       DEF DeskInv, Ground, TypeOK, InventoryTypeOK, GatewayTypeOK, inventoryVars,
           gatewayVars, paymentVars, processVars
  <2>5. WorkInv'
    BY <1>2, <2>2
       DEF DeskInv, Ground, TypeOK, WorkInv, IsOnline, Placed, At, Idle,
           paymentVars, processVars
  <2>6. RowsInv'
    BY <1>2, <2>2 DEF DeskInv, Ground, RowsInv, paymentVars
  <2>7. QED
    BY <2>4, <2>5, <2>6 DEF Ground
<1>6. PaidEvents' /\ UNCHANGED <<session, events, terms>>
  BY <1>2 DEF DeskInv, PaidEvents, gatewayVars
<1>7. NothingShipsUnpaid'
  <2> SUFFICES ASSUME NEW j \in Tokens, IsOnline(j)',
                      order'[j] \notin {"pending", "cancelled"}
               PROVE  session'[j] = "captured" /\ <<j, "paid">> \in events'
      BY DEF NothingShipsUnpaid
  <2>1. order \in [Tokens -> OrderStatus]
    BY DEF DeskInv, Ground, TypeOK
  <2>2. CASE j = k
    <3>1. IsOnline(k) /\ new[1] \notin {"pending", "cancelled"}
      BY <1>1, <1>3, <1>6, <2>1, <2>2 DEF IsOnline
    <3>2. QED
      BY <1>3, <1>4, <1>6, <2>2, <3>1 DEF DeskInv, PaidEvents
  <2>3. CASE j # k
    BY <1>1, <1>6, <2>1, <2>3 DEF DeskInv, NothingShipsUnpaid, IsOnline, Placed
  <2>4. QED
    BY <2>2, <2>3
<1>8. QED
  BY <1>2, <1>5, <1>6, <1>7 DEF DeskInv, FormInv

\* Every step of the shop or the desk keeps the invariant.
LEMMA StepDeskInv == DeskInv /\ [DeskNext]_deskVars => DeskInv'
<1>1. ASSUME DeskInv, [Next]_vars, UNCHANGED form PROVE DeskInv'
  <2>1. PaidEvents'
    BY <1>1, StepEvents DEF DeskInv, PaidEvents
  <2>2. QED
    BY <1>1, <2>1, StepGround, StepNothingShips, StepFormInv DEF DeskInv
<1>2. QED
  BY <1>1, OpenFormDeskInv, SaveFormDeskInv DEF DeskNext, deskVars

\* The invariant holds however old the forms staff post.
LEMMA DeskInvHolds == DeskSpec => []DeskInv
<1>1. DeskInit => DeskInv
  <2> SUFFICES ASSUME DeskInit PROVE DeskInv
      OBVIOUS
  <2>1. Ground
    BY InitCore, CoreGround DEF DeskInit
  <2>2. PaidEvents /\ NothingShipsUnpaid /\ FormInv
    BY DEF DeskInit, Init, GatewayInit, PaidEvents, NothingShipsUnpaid, FormInv,
           IsOnline, Placed
  <2>3. QED
    BY <2>1, <2>2 DEF DeskInv
<1>2. QED
  BY <1>1, StepDeskInv, PTL DEF DeskSpec

\* Posting an order form that grew old can bring a called-off order back, but
\* it never puts an unpaid online order to work.
THEOREM OldFormsShipNothingUnpaid == DeskSpec => []NothingShipsUnpaid
<1>1. DeskInv => NothingShipsUnpaid
  BY DEF DeskInv
<1>2. QED
  BY <1>1, DeskInvHolds, PTL

\* Old forms do not put an online order that waits for its payment to work, and
\* a form that shows an order as called off shows one that still is: so posting
\* a form calls no order off, and brings none back while its payment is pending.
WaitingInv == \A k \in Tokens : IsOnline(k) /\ payment[k] = "pending" => order[k] = "pending"
ShownInv ==
    form # NoForm =>
        /\ form.status = "cancelled" => order[form.token] = "cancelled"
        /\ IsOnline(form.token) /\ payment[form.token] = "pending" =>
             form.status = "pending"
ShelfInv == IsFiniteSet(LiveOrders) /\ NoUnitMissing
DeskShelfInv == DeskInv /\ WaitingInv /\ ShownInv /\ ShelfInv

\* The types of the quantities in NoUnitMissing.
Quantities ==
    /\ \A k \in Tokens, p \in Products : terms[k].lines[p] \in Nat
    /\ stock \in [Products -> Nat] /\ received \in [Products -> Int]

LEMMA QuantityTypes == TypeOK => Quantities
<1> SUFFICES ASSUME TypeOK PROVE Quantities
    OBVIOUS
<1>1. /\ terms \in [Tokens -> Terms \cup {NoTerms}]
      /\ stock \in [Products -> Nat] /\ received \in [Products -> Int]
  BY DEF TypeOK, InventoryTypeOK
<1>2. QED
  BY <1>1 DEF Terms, NoTerms, Quantities

\* A step that leaves the live orders alone, and takes nothing off the shelf
\* but what it also takes off the account.
LEMMA ShelfSame ==
    ASSUME ShelfInv, Quantities, Quantities', LiveOrders' = LiveOrders,
           \A j \in LiveOrders : terms'[j] = terms[j],
           \A p \in Products : stock'[p] - received'[p] = stock[p] - received[p]
    PROVE  ShelfInv'
<1>1. ASSUME NEW p \in Products
      PROVE  stock'[p] + SumFunctionOnSet(Units(p)', LiveOrders') >= received'[p]
  <2>1. \A j \in LiveOrders : Units(p)[j] = Units(p)'[j] /\ Units(p)[j] \in Int
    BY DEF Units, LiveOrders, Quantities
  <2>2. SumFunctionOnSet(Units(p)', LiveOrders) = SumFunctionOnSet(Units(p), LiveOrders)
    BY <2>1, SumSame DEF ShelfInv
  <2>3. SumFunctionOnSet(Units(p), LiveOrders) \in Int
    BY <2>1, SumInt DEF ShelfInv
  <2>4. stock[p] + SumFunctionOnSet(Units(p), LiveOrders) >= received[p]
    BY DEF ShelfInv, NoUnitMissing
  <2>5. /\ stock[p] \in Int /\ stock'[p] \in Int
        /\ received[p] \in Int /\ received'[p] \in Int
    BY DEF Quantities
  <2>6. QED
    BY <2>2, <2>3, <2>4, <2>5
<1>2. QED
  BY <1>1 DEF ShelfInv, NoUnitMissing

\* An order becomes live; it may have taken its units, and no more.
LEMMA ShelfJoin ==
    ASSUME ShelfInv, Quantities, Quantities', NEW k \in Tokens, k \notin LiveOrders,
           LiveOrders' = LiveOrders \cup {k},
           \A j \in LiveOrders : terms'[j] = terms[j],
           received' = received,
           \A p \in Products : stock'[p] >= stock[p] - terms'[k].lines[p]
    PROVE  ShelfInv'
<1>1. ASSUME NEW p \in Products
      PROVE  stock'[p] + SumFunctionOnSet(Units(p)', LiveOrders') >= received'[p]
  <2>1. \A j \in LiveOrders : Units(p)[j] \in Int /\ Units(p)'[j] = Units(p)[j]
    BY DEF Units, LiveOrders, Quantities
  <2>2. Units(p)'[k] \in Int /\ Units(p)'[k] = terms'[k].lines[p]
    BY DEF Units, Quantities
  <2>3. /\ SumFunctionOnSet(Units(p), LiveOrders) \in Int
        /\ SumFunctionOnSet(Units(p)', LiveOrders \cup {k})
             = Units(p)'[k] + SumFunctionOnSet(Units(p), LiveOrders)
    BY <2>1, <2>2, UnitsOfOneMore DEF ShelfInv
  <2>4. stock[p] + SumFunctionOnSet(Units(p), LiveOrders) >= received[p]
    BY DEF ShelfInv, NoUnitMissing
  <2>5. /\ stock[p] \in Int /\ stock'[p] \in Int
        /\ received[p] \in Int /\ received'[p] = received[p]
    BY DEF Quantities
  <2>6. QED
    BY <2>2, <2>3, <2>4, <2>5
<1>2. IsFiniteSet(LiveOrders')
  BY FS_AddElement DEF ShelfInv
<1>3. QED
  BY <1>1, <1>2 DEF ShelfInv, NoUnitMissing

\* An order is called off and its units return to the shelf.
LEMMA ShelfLeave ==
    ASSUME ShelfInv, Quantities, NEW k \in Tokens, LiveOrders' = LiveOrders \ {k},
           terms' = terms, Release(terms[k].lines)
    PROVE  ShelfInv'
<1>0. IsFiniteSet(LiveOrders \ {k})
  BY FS_Subset DEF ShelfInv
<1>1. ASSUME NEW p \in Products
      PROVE  stock'[p] + SumFunctionOnSet(Units(p)', LiveOrders') >= received'[p]
  <2> DEFINE rest == SumFunctionOnSet(Units(p), LiveOrders \ {k})
             units == terms[k].lines[p]
  <2>1. \A j \in LiveOrders : Units(p)[j] \in Int
    BY DEF Units, LiveOrders, Quantities
  <2>2. Units(p)' = Units(p) /\ Units(p)[k] = units
    BY DEF Units
  <2>3. /\ stock[p] \in Int /\ received[p] \in Int /\ units \in Nat
        /\ stock'[p] = stock[p] + units /\ received'[p] = received[p]
    BY DEF Quantities, Release
  <2>4. rest \in Int
    BY <1>0, <2>1, SumInt
  <2>5. stock[p] + SumFunctionOnSet(Units(p), LiveOrders) >= received[p]
    BY DEF ShelfInv, NoUnitMissing
  <2>6. CASE k \in LiveOrders
    <3>1. SumFunctionOnSet(Units(p), LiveOrders) = units + rest
      BY <2>1, <2>2, <2>6, SumAnyFirst DEF ShelfInv
    <3>2. QED
      BY <2>2, <2>3, <2>4, <2>5, <3>1
  <2>7. CASE k \notin LiveOrders
    <3>1. LiveOrders \ {k} = LiveOrders
      BY <2>7
    <3>2. QED
      BY <2>2, <2>3, <2>4, <2>5, <3>1
  <2>8. QED
    BY <2>6, <2>7
<1>2. QED
  BY <1>0, <1>1 DEF ShelfInv, NoUnitMissing

\* A step of the shop: payments that wait have orders that wait, and a form that
\* shows an order as called off is right about it.
LEMMA StepWaiting ==
    Ground /\ WaitingInv /\ [Next]_vars => WaitingInv'
<1> SUFFICES ASSUME Ground, WaitingInv, [Next]_vars,
                    NEW k \in Tokens, IsOnline(k)', payment'[k] = "pending"
             PROVE  order'[k] = "pending"
    BY DEF WaitingInv
<1>1. /\ order \in [Tokens -> OrderStatus] /\ payment \in [Tokens -> PaymentStatus]
      /\ terms \in [Tokens -> Terms \cup {NoTerms}]
      /\ TypeOK /\ WorkInv /\ RowsInv
  BY DEF Ground, TypeOK
<1>2. ASSUME NEW w \in Workers, NEW j \in Tokens, Checkout(w, j)
      PROVE  order'[k] = "pending"
  <2>1. PICK t \in Offers :
          /\ terms' = [terms EXCEPT ![j] = t]
          /\ payment' = [payment EXCEPT ![j] = "pending"]
          /\ \/ t.provider = COD /\ order' = [order EXCEPT ![j] = "confirmed"]
             \/ order' = [order EXCEPT ![j] = "pending"]
    BY <1>2 DEF Checkout
  <2>2. CASE j = k
    <3>1. terms'[k] = t
      BY <1>1, <2>1, <2>2
    <3>2. t.provider # COD
      BY <3>1 DEF IsOnline, COD, Online
    <3>3. QED
      BY <1>1, <2>1, <2>2, <3>2
  <2>3. CASE j # k
    BY <1>1, <2>1, <2>3 DEF WaitingInv, IsOnline, Placed
  <2>4. QED
    BY <2>2, <2>3
<1>3. ASSUME NEW j \in Tokens, Succeeds(j) \/ Fails(j) PROVE order'[k] = "pending"
  BY <1>1, <1>3 DEF Succeeds, Fails, WaitingInv, IsOnline, Placed
<1>4. ASSUME NEW j \in Tokens, CancelOrder(j) \/ RequestReturn(j)
      PROVE  order'[k] = "pending"
  BY <1>1, <1>4 DEF CancelOrder, RequestReturn, paymentVars, WaitingInv, IsOnline, Placed
<1>5. ASSUME NEW j \in Tokens, StaffEditsOrder(j) PROVE order'[k] = "pending"
  BY <1>1, <1>5, StaffMoveShape DEF StaffEditsOrder, paymentVars, WaitingInv, IsOnline, Placed
<1>6. ASSUME Quiet \/ UNCHANGED vars PROVE order'[k] = "pending"
  BY <1>6 DEF Quiet, vars, tableVars, orderVars, paymentVars, WaitingInv, IsOnline, Placed
<1>7. QED
  BY <1>1, <1>2, <1>3, <1>4, <1>5, <1>6, StepShapes

LEMMA StepShown ==
    Ground /\ FormInv /\ WaitingInv /\ ShownInv /\ [Next]_vars /\ UNCHANGED form => ShownInv'
<1> SUFFICES ASSUME Ground, FormInv, WaitingInv, ShownInv, [Next]_vars, UNCHANGED form,
                    form # NoForm
             PROVE  ShownInv'
    BY DEF ShownInv
<1> DEFINE k == form.token
           Right == /\ form.status = "cancelled" => order'[k] = "cancelled"
                    /\ payment'[k] = "pending" => payment[k] = "pending"
<1>1. /\ order \in [Tokens -> OrderStatus] /\ payment \in [Tokens -> PaymentStatus]
      /\ TypeOK /\ WorkInv /\ RowsInv
  BY DEF Ground, TypeOK
<1>2. k \in Tokens /\ Placed(k) /\ payment[k] # "none"
  BY <1>1 DEF FormInv, RowsInv, Placed
<1>3. form.status = "cancelled" => order[k] = "cancelled"
  BY DEF ShownInv
<1> HIDE DEF k
<1>4. ASSUME NEW w \in Workers, NEW j \in Tokens, Checkout(w, j) PROVE Right
  <2>1. j # k
    BY <1>2, <1>4 DEF Checkout
  <2>2. order'[k] = order[k] /\ payment'[k] = payment[k]
    BY <1>1, <1>2, <1>4, <2>1 DEF Checkout
  <2>3. QED
    BY <1>3, <2>2
<1>5. ASSUME NEW j \in Tokens, Succeeds(j) PROVE Right
  <2>1. order[j] = "pending"
    BY <1>5 DEF Succeeds, WaitingInv
  <2>2. QED
    BY <1>1, <1>2, <1>3, <1>5, <2>1 DEF Succeeds
<1>6. ASSUME NEW j \in Tokens, Fails(j) \/ CancelOrder(j) \/ RequestReturn(j)
      PROVE  Right
  BY <1>1, <1>2, <1>3, <1>6 DEF Fails, CancelOrder, RequestReturn, paymentVars
<1>7. ASSUME NEW j \in Tokens, StaffEditsOrder(j) PROVE Right
  BY <1>1, <1>2, <1>3, <1>7, StaffMoveShape DEF StaffEditsOrder, paymentVars
<1>8. ASSUME Quiet \/ UNCHANGED vars PROVE Right
  BY <1>3, <1>8 DEF Quiet, vars, tableVars, orderVars, paymentVars
<1>9. Right
  BY <1>1, <1>4, <1>5, <1>6, <1>7, <1>8, StepShapes
<1>10. terms'[k] = terms[k]
  BY <1>2, PlacedStays
<1>11. IsOnline(form.token)' => IsOnline(form.token)
  BY <1>2, <1>10 DEF IsOnline, k
<1>12. QED
  BY <1>9, <1>11 DEF ShownInv, k

\* The steps of the shop lose no unit, even after old forms made the statuses
\* of orders disagree with what was returned.
LEMMA StepShelfInv ==
    Ground /\ Ground' /\ WaitingInv /\ ShelfInv /\ [Next]_vars => ShelfInv'
<1> SUFFICES ASSUME Ground, Ground', WaitingInv, ShelfInv, [Next]_vars PROVE ShelfInv'
    OBVIOUS
<1>1. /\ order \in [Tokens -> OrderStatus]
      /\ terms \in [Tokens -> Terms \cup {NoTerms}]
      /\ stock \in [Products -> Nat] /\ received \in [Products -> Int]
      /\ TypeOK /\ WorkInv /\ RowsInv /\ Quantities /\ Quantities'
  <2>1. TypeOK /\ TypeOK' /\ WorkInv /\ RowsInv
    BY DEF Ground
  <2>2. (\A k \in Tokens : terms'[k] \in Terms \cup {NoTerms})
        /\ stock' \in [Products -> Nat] /\ received' \in [Products -> Int]
    BY <2>1 DEF TypeOK, InventoryTypeOK
  <2>3. Quantities'
    BY <2>2 DEF Terms, NoTerms, Quantities
  <2>4. Quantities
    BY <2>1, QuantityTypes
  <2>5. /\ order \in [Tokens -> OrderStatus]
        /\ terms \in [Tokens -> Terms \cup {NoTerms}]
        /\ stock \in [Products -> Nat] /\ received \in [Products -> Int]
    BY <2>1 DEF TypeOK, InventoryTypeOK
  <2>6. QED
    BY <2>1, <2>3, <2>4, <2>5
<1>2. ASSUME NEW w \in Workers, NEW j \in Tokens, Checkout(w, j) PROVE ShelfInv'
  <2>1. PICK t \in Offers :
          /\ Reserve(t.lines)
          /\ terms' = [terms EXCEPT ![j] = t]
          /\ \/ order' = [order EXCEPT ![j] = "confirmed"]
             \/ order' = [order EXCEPT ![j] = "pending"]
    BY <1>2 DEF Checkout
  <2>2. j \notin LiveOrders
    BY <1>1, <1>2 DEF Checkout, RowsInv, LiveOrders
  <2>3. LiveOrders' = LiveOrders \cup {j}
    BY <1>1, <2>1 DEF LiveOrders
  <2>4. \A i \in LiveOrders : terms'[i] = terms[i]
    BY <1>1, <2>1, <2>2 DEF LiveOrders
  <2>5. terms'[j] = t
    BY <1>1, <2>1
  <2>6. \A p \in Products : stock'[p] >= stock[p] - terms'[j].lines[p]
    <3>1. ASSUME NEW p \in Products PROVE stock'[p] >= stock[p] - terms'[j].lines[p]
      <4>1. stock'[p] = stock[p] - terms'[j].lines[p]
        BY <2>1, <2>5 DEF Reserve
      <4>2. stock[p] \in Int /\ terms'[j].lines[p] \in Int
        BY <1>1 DEF Quantities
      <4>3. QED
        BY <4>1, <4>2
    <3>2. QED
      BY <3>1
  <2>7. received' = received
    BY <2>1 DEF Reserve
  <2>8. QED
    BY <1>1, <2>2, <2>3, <2>4, <2>6, <2>7, ShelfJoin
<1>3. ASSUME LiveOrders' = LiveOrders, UNCHANGED <<terms, inventoryVars>> PROVE ShelfInv'
  BY <1>1, <1>3, ShelfSame DEF inventoryVars
<1>4. ASSUME NEW j \in Tokens, Succeeds(j) \/ RequestReturn(j) \/ StaffEditsOrder(j)
      PROVE  ShelfInv'
  <2>1. CASE Succeeds(j)
    <3>1. order[j] = "pending" /\ order' = [order EXCEPT ![j] = "confirmed"]
      BY <2>1 DEF Succeeds, WaitingInv
    <3>2. LiveOrders' = LiveOrders
      BY <1>1, <3>1 DEF LiveOrders
    <3>3. QED
      BY <1>3, <2>1, <3>2 DEF Succeeds
  <2>2. CASE RequestReturn(j)
    <3>1. LiveOrders' = LiveOrders
      BY <1>1, <2>2 DEF RequestReturn, LiveOrders
    <3>2. QED
      BY <1>3, <2>2, <3>1 DEF RequestReturn
  <2>3. CASE StaffEditsOrder(j)
    <3>1. LiveOrders' = LiveOrders
      BY <1>1, <2>3, StaffMoveShape DEF LiveOrders
    <3>2. QED
      BY <1>3, <2>3, <3>1 DEF StaffEditsOrder
  <2>4. QED
    BY <1>4, <2>1, <2>2, <2>3
<1>5. ASSUME NEW j \in Tokens, Fails(j) \/ CancelOrder(j) PROVE ShelfInv'
  <2>1. order' = [order EXCEPT ![j] = "cancelled"] /\ terms' = terms /\ Release(terms[j].lines)
    BY <1>5 DEF Fails, CancelOrder
  <2>2. LiveOrders' = LiveOrders \ {j}
    BY <1>1, <2>1 DEF LiveOrders
  <2>3. QED
    BY <1>1, <2>1, <2>2, ShelfLeave
<1>6. CASE Quiet
  <2>1. LiveOrders' = LiveOrders /\ terms' = terms
    BY <1>6 DEF Quiet, LiveOrders
  <2>2. CASE UNCHANGED inventoryVars
    BY <1>3, <2>1, <2>2
  <2>3. ASSUME NEW q \in Products, NEW d \in Int, Adjust(q, d) PROVE ShelfInv'
    <3>1. ASSUME NEW p \in Products
          PROVE  stock'[p] - received'[p] = stock[p] - received[p]
      BY <1>1, <2>3 DEF Adjust
    <3>2. QED
      BY <1>1, <2>1, <3>1, ShelfSame
  <2>4. CASE StaffStock
    <3>1. \E q \in Products, d \in Int : Adjust(q, d)
      BY <1>1, <2>4, InventoryAssumption DEF StaffStock, BookAdjustment, SetStock
    <3>2. QED
      BY <2>3, <3>1
  <2>5. QED
    BY <1>6, <2>2, <2>4 DEF Quiet
<1>7. CASE UNCHANGED vars
  BY <1>3, <1>7 DEF vars, tableVars, orderVars, LiveOrders
<1>8. QED
  BY <1>1, <1>2, <1>4, <1>5, <1>6, <1>7, StepShapes

\* Posting a form brings an order back or leaves it as it is: it calls none off.
LEMMA SaveFormShelf ==
    ASSUME DeskShelfInv, DeskInv', SaveForm
    PROVE  WaitingInv' /\ ShownInv' /\ ShelfInv'
<1> DEFINE k == form.token
<1>1. PICK new \in Posted :
        /\ order' = [order EXCEPT ![k] = new[1]]
        /\ paid' = [paid EXCEPT ![k] = new[2]]
  BY DEF SaveForm
<1>2. form' = NoForm /\ UNCHANGED <<inventoryVars, terms, payment>>
  BY DEF SaveForm, paymentVars
<1>3. /\ k \in Tokens /\ Placed(k) /\ form.status \in OrderStatus \ {"none"}
      /\ form.status = "cancelled" => order[k] = "cancelled"
      /\ IsOnline(k) /\ payment[k] = "pending" => form.status = "pending"
  BY DEF SaveForm, DeskShelfInv, DeskInv, FormInv, ShownInv
<1>4. /\ new[1] # "none"
      /\ new[1] = "cancelled" => form.status = "cancelled"
      /\ form.status = "pending" => new[1] = "pending"
  <2>1. CASE new = <<form.status, form.pay>>
    BY <1>3, <2>1
  <2>2. CASE \E m \in StaffMoves : m[1] = <<form.status, form.pay>> /\ new = m[2]
    <3>1. PICK m \in StaffMoves : m[1] = <<form.status, form.pay>> /\ new = m[2]
      BY <2>2
    <3>2. m \in (OrderStatus \X PayStatus) \X (OrderStatus \X PayStatus)
      BY CommerceAssumption
    <3>3. /\ m[1][1] # "pending" /\ m[2][1] # "none"
          /\ m[1][1] = "cancelled" <=> m[2][1] = "cancelled"
      BY CommerceAssumption DEF StaffMovesLegal
    <3>4. QED
      BY <3>1, <3>2, <3>3
  <2>3. QED
    BY <2>1, <2>2 DEF Posted
<1>5. /\ order \in [Tokens -> OrderStatus] /\ TypeOK
      /\ WaitingInv /\ ShelfInv
  BY DEF DeskShelfInv, DeskInv, Ground, TypeOK
<1>6. \A j \in Tokens : order'[j] = IF j = k THEN new[1] ELSE order[j]
  BY <1>1, <1>3, <1>5
<1> HIDE DEF k
<1>7. WaitingInv'
  BY <1>2, <1>3, <1>4, <1>5, <1>6 DEF WaitingInv, IsOnline, Placed
<1>8. Quantities /\ UNCHANGED <<stock, received>>
  BY <1>2, <1>5, QuantityTypes DEF inventoryVars
<1>9. Quantities'
  BY <1>2, <1>8 DEF Quantities
<1>10. CASE k \in LiveOrders \/ new[1] = "cancelled"
  <2>1. LiveOrders' = LiveOrders
    BY <1>3, <1>4, <1>6, <1>10 DEF LiveOrders, k
  <2>2. QED
    BY <1>2, <1>5, <1>7, <1>8, <1>9, <2>1, ShelfSame DEF ShownInv
<1>11. CASE k \notin LiveOrders /\ new[1] # "cancelled"
  <2>1. LiveOrders' = LiveOrders \cup {k}
    BY <1>3, <1>4, <1>6, <1>11 DEF LiveOrders
  <2>2. \A p \in Products : stock'[p] >= stock[p] - terms'[k].lines[p]
    BY <1>2, <1>3, <1>8, <1>9 DEF Quantities
  <2>3. ShelfInv'
    BY <1>2, <1>3, <1>5, <1>8, <1>9, <1>11, <2>1, <2>2, ShelfJoin
  <2>4. QED
    BY <1>2, <1>7, <2>3 DEF ShownInv
<1>12. QED
  BY <1>10, <1>11

LEMMA StepDeskShelf == DeskShelfInv /\ [DeskNext]_deskVars => DeskShelfInv'
<1> SUFFICES ASSUME DeskShelfInv, [DeskNext]_deskVars PROVE DeskShelfInv'
    OBVIOUS
<1>1. DeskInv'
  BY StepDeskInv DEF DeskShelfInv
<1>2. Ground /\ Ground' /\ FormInv /\ WaitingInv /\ ShownInv /\ ShelfInv
  BY <1>1 DEF DeskShelfInv, DeskInv
<1>3. CASE [Next]_vars /\ UNCHANGED form
  BY <1>1, <1>2, <1>3, StepWaiting, StepShown, StepShelfInv DEF DeskShelfInv
<1>4. ASSUME NEW k \in Tokens, OpenForm(k) PROVE DeskShelfInv'
  <2>1. UNCHANGED vars /\ form' = [open |-> TRUE, token |-> k, status |-> order[k], pay |-> paid[k]]
    BY <1>4 DEF OpenForm
  <2>2. WaitingInv' /\ ShelfInv'
    BY <1>2, <2>1, StepWaiting, StepShelfInv
  <2>3. ShownInv'
    BY <2>1, <2>2 DEF ShownInv, WaitingInv, vars, tableVars, orderVars
  <2>4. QED
    BY <1>1, <2>2, <2>3 DEF DeskShelfInv
<1>5. CASE SaveForm
  BY <1>1, <1>5, SaveFormShelf DEF DeskShelfInv
<1>6. QED
  BY <1>3, <1>4, <1>5 DEF DeskNext, deskVars

\* However old the order forms are that staff post, no unit goes missing: every
\* one they put in is on the shelf or in a live order.  (It may be in both.)
THEOREM OldFormsLoseNothing == DeskSpec => []NoUnitMissing
<1>1. DeskInit => DeskShelfInv
  <2> SUFFICES ASSUME DeskInit PROVE DeskShelfInv
      OBVIOUS
  <2>1. DeskInv
    <3>1. Ground
      BY InitCore, CoreGround DEF DeskInit
    <3>2. QED
      BY <3>1 DEF DeskInit, Init, GatewayInit, DeskInv, PaidEvents, NothingShipsUnpaid,
                  FormInv, IsOnline, Placed
  <2>2. WaitingInv /\ ShownInv
    BY DEF DeskInit, Init, WaitingInv, ShownInv, IsOnline, Placed
  <2>3. LiveOrders = {} /\ stock = received /\ stock \in [Products -> Nat]
    BY InventoryAssumption DEF DeskInit, Init, InventoryInit, LiveOrders
  <2>4. \A p \in Products : SumFunctionOnSet(Units(p), {}) = 0
    BY SumEmpty
  <2>5. ShelfInv
    BY <2>3, <2>4, FS_EmptySet DEF ShelfInv, NoUnitMissing
  <2>6. QED
    BY <2>1, <2>2, <2>5 DEF DeskShelfInv
<1>2. DeskShelfInv => NoUnitMissing
  BY DEF DeskShelfInv, ShelfInv
<1>3. QED
  BY <1>1, <1>2, StepDeskShelf, PTL DEF DeskSpec

=============================================================================
