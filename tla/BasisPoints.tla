---------------------------- MODULE BasisPoints ----------------------------
(***************************************************************************)
(* The whole of a ratio, in which the oragami-vault program states its     *)
(* allocations, yields, buffers and collateral.                            *)
(***************************************************************************)
EXTENDS Naturals

CONSTANT BpsWhole  \* 10000 basis points

ASSUME BpsWholeAssumption == BpsWhole \in Nat \ {0}
=============================================================================
