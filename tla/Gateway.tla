------------------------------ MODULE Gateway ------------------------------
(***************************************************************************)
(* The hosted payment providers, Stripe Checkout and PayPal Orders, as the *)
(* code of apps/payments/services.py uses them.  External: nothing of this *)
(* module is code of the repository.                                       *)
(*                                                                         *)
(* A provider session (Stripe Checkout Session, PayPal order) is created   *)
(* under the payment's idempotency key, so there is one per checkout token *)
(* however often the request is repeated.  The provider signs events about *)
(* it; `events' only grows, so a delivery may be late, repeated, or out of *)
(* order.                                                                  *)
(***************************************************************************)

CONSTANTS
    Tokens,     \* checkout tokens, the idempotency keys of payments
    PaidKinds   \* what a completed payment may report: the amount of the
                \* order ("paid"), or another amount or currency ("mismatch")

SessionStatus == {"none", "open", "approved", "captured", "expired"}
EventKinds == {"paid", "mismatch", "failed"}

ASSUME GatewayAssumption == PaidKinds \subseteq {"paid", "mismatch"}

VARIABLES
    session,    \* state of the provider's session for a token
    events      \* <<token, kind>> of every signed event issued so far

gatewayVars == <<session, events>>

GatewayTypeOK ==
    /\ session \in [Tokens -> SessionStatus]
    /\ events \subseteq Tokens \X EventKinds

GatewayInit ==
    /\ session = [k \in Tokens |-> "none"]
    /\ events = {}

\* POST /v1/checkout/sessions, POST /v2/checkout/orders: creates the session,
\* or replays the answer to an earlier request with the same key.
OpenSession(k) ==
    /\ session' = [session EXCEPT ![k] = IF @ = "none" THEN "open" ELSE @]
    /\ UNCHANGED events

\* The buyer's money moves.  Stripe captures when the buyer pays; PayPal when
\* the shop asks for the capture of an approved order.
Capture(k) ==
    /\ session' = [session EXCEPT ![k] = "captured"]
    /\ \E kind \in PaidKinds : events' = events \cup {<<k, kind>>}

Approve(k) ==
    /\ session[k] = "open"
    /\ session' = [session EXCEPT ![k] = "approved"]
    /\ UNCHANGED events

\* The provider gives up on an unpaid session and reports it (Stripe
\* checkout.session.expired and async_payment_failed, PayPal ORDER.VOIDED).
ExpireSession(k) ==
    /\ session[k] \in {"open", "approved"}
    /\ session' = [session EXCEPT ![k] = "expired"]
    /\ events' = events \cup {<<k, "failed">>}

\* PayPal denies a capture, reports it, and the buyer may approve again.
DenyCapture(k) ==
    /\ session[k] = "approved"
    /\ session' = [session EXCEPT ![k] = "open"]
    /\ events' = events \cup {<<k, "failed">>}

=============================================================================
