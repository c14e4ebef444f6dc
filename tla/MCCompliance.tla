---------------------------- MODULE MCCompliance ----------------------------
(***************************************************************************)
(* Instance of Compliance: two institutions, two nonces each, one amount   *)
(* below the travel-rule threshold and two at or above it, three instants. *)
(***************************************************************************)
EXTENDS Compliance, TLC

MCDepositAmounts == {1, 2, 3}

Symmetry == Permutations(Wallets) \cup Permutations(Nonces)
=============================================================================
