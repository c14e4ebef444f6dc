---------------------------- MODULE MCVaultPanel ----------------------------
(***************************************************************************)
(* Instance of VaultPanel: one wallet with one unit of money, par as the   *)
(* only price, two handlers and two polls at a time.                       *)
(***************************************************************************)
EXTENDS VaultPanel

CONSTANT w1

MCWallets == {w1}
MCAmounts == {1}
MCNavPrices == {1}
MCDepositLimits == {1}
=============================================================================
