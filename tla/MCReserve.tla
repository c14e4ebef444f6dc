----------------------------- MODULE MCReserve -----------------------------
(* Instance of Reserve: two custodian reports and four seconds, of which an attestation lasts one. *)
EXTENDS Reserve

MCMandateShares == {0, 1, 2}
MCCollateralRatios == {2}
MCGoldUnits == {0, 1}
=============================================================================
