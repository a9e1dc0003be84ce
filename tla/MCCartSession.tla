--------------------------- MODULE MCCartSession ---------------------------
(* Values for TLC: two products priced in two currencies. *)
EXTENDS CartSession, TLC

CONSTANTS p1, p2

PriceTags == p1 :> "USD" @@ p2 :> "NPR"
Symmetric == Permutations(Keys) \cup Permutations(Carts) \cup Permutations(Orders)
                \cup Permutations(Users)

=============================================================================
