----------------------------- MODULE MCCommerce -----------------------------
(***************************************************************************)
(* Values for the constants of Commerce on small instances.                *)
(***************************************************************************)
EXTENDS CommerceProperties, TLC

CONSTANTS c1, c2, u1, p1, k1, k2

\* Two units of every product to begin with.
MCOpeningStock == [p \in Products |-> 2]
MCDeltas == {-1, 1}
OneEach == [p \in Products |-> 1]
NoDeltas == {}

\* Who the carts belong to.
GuestCarts == [c \in Carts |-> Guest]
UserCarts == [c \in Carts |-> u1]
MixedCarts == [c \in Carts |-> IF c = c1 THEN Guest ELSE u1]

\* Staff carry an order through fulfilment, collect cash on delivery, and pay
\* back what is to be refunded.
Fulfilment == {<<"confirmed", "processing">>, <<"processing", "shipped">>,
               <<"shipped", "delivered">>}
LifecycleMoves ==
    {<< <<m[1], pay>>, <<m[2], pay>> >> : m \in Fulfilment, pay \in {"pending", "paid"}}
    \cup {<< <<"delivered", "pending">>, <<"delivered", "paid">> >>,
          << <<"return_requested", "paid">>, <<"refunded", "refunded">> >>,
          << <<"cancelled", "paid">>, <<"cancelled", "refunded">> >>}
ShipMoves == {<< <<"confirmed", "paid">>, <<"shipped", "paid">> >>}
NoMoves == {}

\* Tokens are interchangeable: no action and no property tells them apart.
TokenSymmetry == Permutations(Tokens)

=============================================================================
