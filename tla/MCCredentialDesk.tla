-------------------------- MODULE MCCredentialDesk --------------------------
(***************************************************************************)
(* Instance of CredentialDesk: one institution (two never meet in it), two *)
(* requests at a time, any number of them in turn, three instants.         *)
(***************************************************************************)
EXTENDS CredentialDesk, TLC

MCNothing == {}

Symmetry == Permutations(Slots)
=============================================================================
