---------------------------- MODULE MCStakingPool ----------------------------
(* Small instances of StakingPool for TLC, with the exact distribution. *)
EXTENDS StakingShares, TLC

Symmetry == Permutations(Accounts)
=============================================================================
