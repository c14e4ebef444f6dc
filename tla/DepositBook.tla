---------------------------- MODULE DepositBook ----------------------------
(***************************************************************************)
(* What a reader of the Deposit table and of its audit events may rely on, *)
(* whoever indexes what, how often and how late.  The table is a journal   *)
(* of signatures, not of deposits: each entry is of a transaction that the *)
(* chain has executed, under a signature and a reference of its own, for a *)
(* known institution, at a NAV that the vault has had since the execution, *)
(* linked to a travel-rule row that was filed before or to none; it may be *)
(* audited, once; and no entry is ever changed or taken back.  The amount  *)
(* is whatever the caller said, and the kind of transaction is not asked.  *)
(***************************************************************************)
EXTENDS Naturals, Sequences

CONSTANTS
    NoAccount,  \* a transaction that was not executed, a row that was not filed, no link
    Signatures, Wallets, DepositAmounts, LargeAmounts, References, Nonces, NavUpdates

VARIABLES
    navUpdate,   \* the number of the vault's current NAV
    executedAt,  \* the NAV update at which each signature's transaction was executed
    registered,  \* the known institutions
    travelRow,   \* the travel-rule row under each nonce hash
    depositRows, \* the table, in the order of entry
    audited      \* the number of audit events of each signature

bookVars == <<navUpdate, executedAt, registered, travelRow, depositRows, audited>>

BookInit ==
    /\ navUpdate = 0
    /\ executedAt = [tx \in Signatures |-> NoAccount]
    /\ registered = {}
    /\ travelRow = [n \in Nonces |-> NoAccount]
    /\ depositRows = <<>>
    /\ audited = [tx \in Signatures |-> 0]

Happen(tx) ==
    /\ executedAt[tx] = NoAccount
    /\ executedAt' = [executedAt EXCEPT ![tx] = navUpdate]
    /\ UNCHANGED <<navUpdate, registered, travelRow, depositRows, audited>>

Reprice ==
    /\ navUpdate' = navUpdate + 1
    /\ UNCHANGED <<executedAt, registered, travelRow, depositRows, audited>>

Meet(wallet) ==
    /\ registered' = registered \cup {wallet}
    /\ UNCHANGED <<navUpdate, executedAt, travelRow, depositRows, audited>>

File(nonce, wallet, amount) ==
    /\ wallet \in registered
    /\ travelRow[nonce] = NoAccount
    /\ travelRow' = [travelRow EXCEPT ![nonce] = [wallet |-> wallet, amount |-> amount]]
    /\ UNCHANGED <<navUpdate, executedAt, registered, depositRows, audited>>

(* An entry that no earlier one stands in the way of. *)
IsFresh(row) ==
    \A i \in DOMAIN depositRows :
        depositRows[i].tx # row.tx /\ depositRows[i].reference # row.reference

Enter(row) ==
    /\ IsFresh(row)
    /\ executedAt[row.tx] # NoAccount
    /\ executedAt[row.tx] <= row.navUpdate /\ row.navUpdate <= navUpdate
    /\ row.wallet \in registered
    /\ row.link # NoAccount => travelRow[row.link] # NoAccount
    /\ depositRows' = Append(depositRows, row)
    /\ UNCHANGED <<navUpdate, executedAt, registered, travelRow, audited>>

Audit(tx) ==
    /\ \E i \in DOMAIN depositRows : depositRows[i].tx = tx
    /\ audited[tx] = 0
    /\ audited' = [audited EXCEPT ![tx] = 1]
    /\ UNCHANGED <<navUpdate, executedAt, registered, travelRow, depositRows>>

Entries ==
    [tx : Signatures, wallet : Wallets, amount : DepositAmounts, reference : References,
     link : Nonces \cup {NoAccount}, navUpdate : NavUpdates]

BookNext ==
    \/ \E tx \in Signatures : Happen(tx) \/ Audit(tx)
    \/ Reprice
    \/ \E wallet \in Wallets : Meet(wallet)
    \/ \E nonce \in Nonces, wallet \in Wallets, amount \in LargeAmounts :
          File(nonce, wallet, amount)
    \/ \E row \in Entries : Enter(row)

BookSpec == BookInit /\ [][BookNext]_bookVars
=============================================================================
