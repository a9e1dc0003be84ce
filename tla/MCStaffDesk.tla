---------------------------- MODULE MCStaffDesk ----------------------------
(***************************************************************************)
(* Values for the constants of StaffDesk on small instances.               *)
(***************************************************************************)
EXTENDS StaffDesk, TLC

CONSTANTS c1, u1, p1, k1, k2

MCOpeningStock == [p \in Products |-> 1]
NoDeltas == {}
MCCartOwner == [c \in Carts |-> u1]
ShipMoves == {<< <<"confirmed", pay>>, <<"shipped", pay>> >> : pay \in {"pending", "paid"}}
TokenSymmetry == Permutations(Tokens)

=============================================================================
