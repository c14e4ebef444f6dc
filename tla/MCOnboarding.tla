---------------------------- MODULE MCOnboarding ----------------------------
(***************************************************************************)
(* Instance of Onboarding: one institution and its browser, a backend that *)
(* serves one request at a time, two instants.  No deposit takes part.     *)
(***************************************************************************)
EXTENDS Onboarding

CONSTANT w1

MCWallets == {w1}
MCNothing == {}
=============================================================================
