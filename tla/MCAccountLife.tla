--------------------------- MODULE MCAccountLife ---------------------------
(* Symmetry and a bound for TLC. *)
EXTENDS AccountLife, TLC

Symmetric == Permutations(Workers) \cup Permutations(Browsers)

\* A second password is set, or a second secret is drawn, not both.
OneReplaced == drawn.hash + drawn.secret <= 3

=============================================================================
