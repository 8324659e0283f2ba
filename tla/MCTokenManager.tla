--------------------------- MODULE MCTokenManager ---------------------------
(* Small instances of TokenManager for TLC. *)
EXTENDS TokenManager, TLC

Symmetry == Permutations(Admins)
=============================================================================
