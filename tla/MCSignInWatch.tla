--------------------------- MODULE MCSignInWatch ---------------------------
(* Symmetry for TLC. *)
EXTENDS SignInWatch, TLC

Symmetric == Permutations(Emails) \cup Permutations(Sources)
                \cup Permutations(Workers) \cup Permutations(Staff)

=============================================================================
