---------------------------- MODULE MCNavCrank ----------------------------
(***************************************************************************)
(* Instance of NavCrank: two runs that may overlap and a NAV in tenths, so *)
(* that the guard of 1000 bps is one tenth.  A quote of 12 moves the NAV   *)
(* by two tenths (0.8 * 2 rounded), beyond the guard from par, but is      *)
(* clamped to 11, within it; the way back from a baseline of 12 goes to 9. *)
(***************************************************************************)
EXTENDS NavCrank

MCQuotes == {10, 12}
=============================================================================
