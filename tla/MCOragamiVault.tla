--------------------------- MODULE MCOragamiVault ---------------------------
(***************************************************************************)
(* Instance of OragamiVault, as small as its cross-component properties    *)
(* allow: they relate one component's state to another's, and the detail   *)
(* of each component is checked in its own runs.                           *)
(***************************************************************************)
EXTENDS OragamiVault, TLC

MCAmounts == {1, 2}
MCNavPrices == {2, 3}
MCDepositLimits == {2}
MCAllocations == {1}
MCRates == {2}
MCMandateShares == {1}
MCCollateralRatios == {2}
MCGoldUnits == {0}

MCSymmetry == Permutations(LinkHashes)
=============================================================================
