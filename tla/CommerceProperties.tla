------------------------- MODULE CommerceProperties -------------------------
(***************************************************************************)
(* What carts, orders, payments and stock promise each other.              *)
(***************************************************************************)
EXTENDS Commerce, Functions

\* Orders that were placed and not called off.
LiveOrders == {k \in Tokens : order[k] \notin {"none", "cancelled"}}

\* Units of a product that each order asked for.
Units(p) == [k \in Tokens |-> terms[k].lines[p]]

\* Every unit staff ever put in is on the shelf or in an order that was not
\* called off: no interleaving of checkouts, failed payments, sweeps and
\* cancellations loses a unit or returns one twice.
UnitsConserved ==
    \A p \in Products :
        stock[p] + SumFunctionOnSet(Units(p), LiveOrders) = received[p]

\* The two statuses of an order and the status of its payment tell one story:
\* a pending online payment has a pending order, a failed one a cancelled
\* order, a succeeded one an order that is confirmed or further; a payment on
\* delivery never moves.
Agrees(k) ==
    /\ order[k] = "none" <=> payment[k] = "none"
    /\ order[k] = "none" => paid[k] = "none"
    /\ Placed(k) /\ terms[k].provider = COD =>
        /\ payment[k] = "pending"
        /\ order[k] # "pending"
        /\ paid[k] \in {"pending", "paid", "refunded"}
    /\ IsOnline(k) =>
        /\ payment[k] = "pending" => order[k] = "pending" /\ paid[k] = "pending"
        /\ payment[k] = "failed" => order[k] = "cancelled" /\ paid[k] = "failed"
        /\ payment[k] = "succeeded" =>
             order[k] # "pending" /\ paid[k] \in {"paid", "refunded"}
PaymentMatchesOrder == \A k \in Tokens : Agrees(k)

\* A cart feeds at most one payment that has not failed, and it is closed to
\* the customer exactly as long as there is one: a failed payment gives the
\* cart back, and a cart that is being paid for is not sold a second time.
AttemptsOn(c) ==
    {k \in Tokens : Placed(k) /\ terms[k].cart = c /\ payment[k] # "failed"}
OneAttemptPerCart ==
    \A c \in Carts :
        /\ \A j, k \in AttemptsOn(c) : j = k
        /\ c \in active <=> AttemptsOn(c) = {}

\* No online order is worked on before the provider captured its amount, in
\* whatever order the webhooks and the buyer's return come in.
NothingShipsUnpaid ==
    \A k \in Tokens :
        IsOnline(k) /\ order[k] \notin {"pending", "cancelled"} =>
            session[k] = "captured" /\ <<k, "paid">> \in events

\* A cancelled order whose money the shop still has is on file for a refund.
RefundOnFile ==
    \A k \in Tokens :
        order[k] = "cancelled" /\ paid[k] = "paid" =>
            requests[k]["refund"] # "none"

\* The coupon is never on more live orders than its usage limit.
CouponWithinLimit == Cardinality(CouponOrders) <= UsageLimit

\* No order is confirmed to the customer twice, and none before it is paid or
\* placed for cash on delivery.
ConfirmedOnce ==
    \A k \in Tokens :
        /\ mailed[k] <= 1
        /\ mailed[k] > 0 /\ IsOnline(k) => payment[k] = "succeeded"

\* A payment that succeeded or failed stays as it is, and so do the terms it
\* was made on: late, repeated and reordered events, retried checkouts and the
\* sweep do not touch it.
SettledForGood ==
    [][\A k \in Tokens :
        payment[k] \in {"succeeded", "failed"} =>
            payment'[k] = payment[k] /\ terms'[k] = terms[k]]_vars

-----------------------------------------------------------------------------
(* The promise about stock, as a refinement *)

Claims == [k \in Tokens |->
            CASE order[k] = "none" -> "none"
              [] order[k] = "cancelled" -> "returned"
              [] OTHER -> "held"]
Amounts == [k \in Tokens |-> terms[k].lines]

Shelf == INSTANCE Reservations
         WITH Orders <- Tokens, shelf <- stock, booked <- received,
              claim <- Claims, amount <- Amounts

\* Orders, payments and staff implement the promise about stock: whatever
\* happens, an order takes its units once and returns them at most once.
StockPromise == Shelf!ShelfSpec

-----------------------------------------------------------------------------
(* Liveness *)

\* The expiry command runs on a schedule, so a payment that stays pending is
\* found once its time is up; and not every run dies before it gets to it.
SweepFairness ==
    \A k \in Tokens : WF_vars(SweepFinds(k)) /\ SF_vars(SweepExpires(k))
SweptSpec == Spec /\ SweepFairness

\* Providers repeat a notification until it is acknowledged.
NotifiedSpec ==
    SweptSpec /\ \A k \in Tokens, kind \in EventKinds : WF_vars(Webhook(k, kind))

\* No online payment holds stock forever: it succeeds, or the order is called
\* off and the stock returned.
PendingSettles ==
    \A k \in Tokens :
        (IsOnline(k) /\ payment[k] = "pending") ~>
            (payment[k] = "succeeded" \/ order[k] = "cancelled")

-----------------------------------------------------------------------------
(* What the documentation claims and the code does not do *)

\* docs/guides/phase-18-operation-guides.md: the provider's signed
\* notification of a payment is authoritative, so a payment the provider
\* reports paid ends up succeeded.
NotificationIsAuthoritative ==
    \A k \in Tokens :
        <<k, "paid">> \in events ~> payment[k] = "succeeded"

=============================================================================
