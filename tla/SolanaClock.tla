---------------------------- MODULE SolanaClock ----------------------------
(***************************************************************************)
(* Clock::get()?.unix_timestamp as the programs read it: the cluster's     *)
(* time, which only moves forward and which no instruction changes.        *)
(***************************************************************************)
EXTENDS SolanaAccounts

CONSTANT MaxTime  \* bound of the model-checked clock

ASSUME MaxTimeAssumption == MaxTime \in Nat

VARIABLE now

Times == 0 .. MaxTime

Tick ==
    /\ now < MaxTime
    /\ now' = now + 1
=============================================================================
