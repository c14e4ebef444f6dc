-------------------------- MODULE CredentialRecord --------------------------
(***************************************************************************)
(* What the chain, the institution's row and the audit trail promise       *)
(* together: an issue and a revocation of a wallet's credential happen on  *)
(* the chain, once each and in this order.  What happened may then be told *)
(* to the register and after it to the audit trail, or be lost on the way; *)
(* nothing else is ever told, and nothing twice.                           *)
(***************************************************************************)
EXTENDS Naturals

CONSTANTS Wallets

VARIABLES
    chain,        \* "none", "active" or "revoked" for each wallet
    institution,  \* the same, as the register has it
    audited,      \* how many audit events each wallet has of each operation
    untold        \* how far the news of each operation has got: "row", "event" or "nothing"

recordVars == <<chain, institution, audited, untold>>

Operations == {"issue", "revoke"}
Happenings == Wallets \X Operations

Before(op) == IF op = "issue" THEN "none" ELSE "active"
After(op)  == IF op = "issue" THEN "active" ELSE "revoked"

RecordInit ==
    /\ chain = [w \in Wallets |-> "none"]
    /\ institution = [w \in Wallets |-> "none"]
    /\ audited = [k \in Happenings |-> 0]
    /\ untold = [k \in Happenings |-> "nothing"]

(* The transaction is executed.  Its news may have nobody any more to carry it on. *)
Happen(w, op) ==
    /\ chain[w] = Before(op)
    /\ chain' = [chain EXCEPT ![w] = After(op)]
    /\ untold' \in {untold, [untold EXCEPT ![<<w, op>>] = "row"]}
    /\ UNCHANGED <<institution, audited>>

(* There may be no row to mark as revoked, when the news of the issue was lost. *)
TellRegister(w, op) ==
    /\ untold[<<w, op>>] = "row"
    /\ untold' = [untold EXCEPT ![<<w, op>>] = "event"]
    /\ institution' = [institution EXCEPT ![w] =
                          IF op = "revoke" /\ @ = "none" THEN "none" ELSE After(op)]
    /\ UNCHANGED <<chain, audited>>

TellAudit(w, op) ==
    /\ untold[<<w, op>>] = "event"
    /\ audited[<<w, op>>] = 0
    /\ untold' = [untold EXCEPT ![<<w, op>>] = "nothing"]
    /\ audited' = [audited EXCEPT ![<<w, op>>] = 1]
    /\ UNCHANGED <<chain, institution>>

Lose(w, op) ==
    /\ untold[<<w, op>>] # "nothing"
    /\ untold' = [untold EXCEPT ![<<w, op>>] = "nothing"]
    /\ UNCHANGED <<chain, institution, audited>>

RecordNext ==
    \E w \in Wallets, op \in Operations :
        Happen(w, op) \/ TellRegister(w, op) \/ TellAudit(w, op) \/ Lose(w, op)

RecordSpec == RecordInit /\ [][RecordNext]_recordVars
=============================================================================
