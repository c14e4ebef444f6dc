---------------------------- MODULE MCVaultYield ----------------------------
(***************************************************************************)
(* Instance of VaultYield: days of two seconds, so that a remainder can be *)
(* carried, eleven seconds, and denominators small enough for a day to earn *)
(* something and for every division to round.                              *)
(***************************************************************************)
EXTENDS VaultYield

MCAllocations == {1, 2, 3}
MCRates == {0, 3}
MCBooks == {0, 1, 3}
=============================================================================
