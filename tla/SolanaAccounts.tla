--------------------------- MODULE SolanaAccounts ---------------------------
(***************************************************************************)
(* What the on-chain programs take from the Solana runtime and from the    *)
(* SPL token program: wallets that hold token accounts, program derived    *)
(* accounts that are created once (Anchor `init`), and unsigned 64-bit     *)
(* amounts.  An instruction is atomic: when one of its checks fails every  *)
(* change it made is undone, so a failing instruction is no step at all.   *)
(***************************************************************************)
EXTENDS Naturals

CONSTANTS
    Wallets,    \* the keys that hold token accounts and sign for them
    NoAccount,  \* what a program derived address holds before `init`
    MaxU64      \* the largest u64 (2^64 - 1; small in the model-checked instances)

ASSUME WalletsAssumption == NoAccount \notin Wallets
ASSUME MaxU64Assumption  == MaxU64 \in Nat \ {0}

(* checked_add, checked_mul and the SPL token program refuse a result that does not fit. *)
FitsU64(x) == x <= MaxU64

(* Mutant: a subtraction that goes below zero. *)
PlainSub(x, y) == x - y

(* u64::saturating_sub *)
SaturatingSub(x, y) == IF y >= x THEN 0 ELSE x - y

(* token::mint_to and token::burn on the token account of one holder. *)
Credit(balance, holder, amount) == [balance EXCEPT ![holder] = @ + amount]
Debit(balance, holder, amount)  == [balance EXCEPT ![holder] = @ - amount]

(* token::transfer: `from` and `to` may be the same account, which then keeps its balance. *)
Move(balance, from, to, amount) == Credit(Debit(balance, from, amount), to, amount)
=============================================================================
