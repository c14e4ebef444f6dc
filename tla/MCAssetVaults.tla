--------------------------- MODULE MCAssetVaults ---------------------------
(***************************************************************************)
(* Instance of AssetVaults with a denominator of 2, so that a price of 3   *)
(* rounds both ways, a factory with room for two of three mints, four      *)
(* tokens in all and a single wallet, which can deposit in both vaults,    *)
(* try one travel-rule record in both, and redeem more than the books of a *)
(* vault hold.                                                             *)
(***************************************************************************)
EXTENDS AssetVaults, TLC

MCNavPrices == {2, 3}
MCDepositLimits == {2}
MCDepositAmounts == {1, 2}
MCShareAmounts == {0, 1, 2}

AssetSymmetry == Permutations(Assets)
=============================================================================
