--------------------------- MODULE MCDepositDesk ---------------------------
(***************************************************************************)
(* Instance of DepositDesk: one institution, two transactions and two      *)
(* references, one amount above the travel-rule threshold, one nonce hash, *)
(* two index requests at a time and one NAV update.                        *)
(***************************************************************************)
EXTENDS DepositDesk

MCDepositAmounts == {2}

Symmetry == Permutations(Workers) \cup Permutations(Signatures) \cup Permutations(References)
=============================================================================
