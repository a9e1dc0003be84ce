---------------------------- MODULE Reservations ----------------------------
(***************************************************************************)
(* What the shop promises about stock, whatever carts, payments, webhooks, *)
(* sweeps and staff do: an order takes its units off the shelf once, when  *)
(* it is placed; they come back at most once, when it is called off, and   *)
(* never before or after; otherwise the shelf changes only by what staff   *)
(* book, unit for unit.                                                    *)
(***************************************************************************)
EXTENDS Integers

CONSTANTS Products, Orders

VARIABLES
    shelf,      \* units on the shelf
    booked,     \* units staff have put on the shelf, net
    claim,      \* state of an order's claim on the shelf
    amount      \* units of each product an order claims

rvars == <<shelf, booked, claim, amount>>

ShelfInit ==
    /\ shelf \in [Products -> Nat]
    /\ booked = shelf
    /\ claim = [k \in Orders |-> "none"]
    /\ amount = [k \in Orders |-> [p \in Products |-> 0]]

\* The order's units leave the shelf, all of them or none.
Claim(k) ==
    /\ claim[k] = "none"
    /\ claim' = [claim EXCEPT ![k] = "held"]
    /\ amount' = [amount EXCEPT ![k] = amount'[k]]
    /\ \A p \in Products :
        /\ amount'[k][p] \in 0 .. shelf[p]
        /\ shelf'[p] = shelf[p] - amount'[k][p]
    /\ UNCHANGED booked

\* The order's units go back on the shelf.
Return(k) ==
    /\ claim[k] = "held"
    /\ claim' = [claim EXCEPT ![k] = "returned"]
    /\ \A p \in Products : shelf'[p] = shelf[p] + amount[k][p]
    /\ UNCHANGED <<booked, amount>>

\* Staff change the stock of one product and book the change.
Book(p) ==
    /\ shelf'[p] \in Nat
    /\ shelf' = [shelf EXCEPT ![p] = shelf'[p]]
    /\ booked' = [booked EXCEPT ![p] = @ + (shelf'[p] - shelf[p])]
    /\ UNCHANGED <<claim, amount>>

ShelfNext ==
    \/ \E k \in Orders : Claim(k) \/ Return(k)
    \/ \E p \in Products : Book(p)

ShelfSpec == ShelfInit /\ [][ShelfNext]_rvars

=============================================================================
