------------------------------- MODULE MCFlow -------------------------------
(* Small instances of Flow for TLC. *)
EXTENDS Flow, TLC

Symmetry == Permutations(Inputs) \cup Permutations(Wallets) \cup Permutations(Clusters)
=============================================================================
