--------------------------- MODULE MCShareLedger ---------------------------
(***************************************************************************)
(* Instance of ShareLedger: two wallets with a few units of USDC, a NAV    *)
(* denominator of 2 so that prices below, at and above par all round, a    *)
(* price (5) at which the permitted deposit buys no share, and a "u64"     *)
(* small enough to overflow.                                               *)
(***************************************************************************)
EXTENDS ShareLedger, TLC

MCAmounts == 0 .. 2
MCNavPrices == 0 .. 5
MCDepositLimits == {2}

Symmetry == Permutations(Wallets)
=============================================================================
