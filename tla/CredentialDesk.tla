--------------------------- MODULE CredentialDesk ---------------------------
(***************************************************************************)
(* The credentials service of the backend.  issue and revoke first change  *)
(* the chain, then the institution's row, then the audit trail; verify     *)
(* reads the chain and, when that fails, the row.  A request is cut at its *)
(* awaits, each of which may fail, and requests overlap; a transaction     *)
(* that its request gave up may still be executed.  The service keeps      *)
(* nothing in memory, so a crash of its process is no more than each of    *)
(* its requests failing where it stands.                                   *)
(***************************************************************************)
EXTENDS Compliance

CONSTANTS
    Slots,   \* the requests that the backend serves at a time
    MaxLate  \* bound: transactions given up and not yet settled

ASSUME MaxLateAssumption == MaxLate \in Nat

VARIABLES
    institution,  \* Institution.credentialStatus of each wallet, "none" without a row
    audited,      \* how many audit events each wallet has of each action
    late,         \* transactions whose request has given up
    request,      \* what each slot is at
    denied        \* history: the wallets that some verify has called revoked or expired

registerVars == <<institution, audited>>
deskVars     == <<complianceVars, registerVars, late, request, denied>>

Operations == {"issue", "revoke"}

Transaction ==
    [op : {"issue"}, wallet : Wallets, issuedAt : Times, expiresAt : ExpiryDates]
    \cup [op : {"revoke"}, wallet : Wallets]

Verdicts == {"active", "expired", "revoked", "not_found"}

Idle == [pc |-> "idle"]

(* `afterDenial` is history: whether the wallet had been denied when the request came in. *)
Request ==
    {Idle}
    \cup [pc : {"checking", "sending", "landed", "storing", "auditing"}, tx : Transaction]
    \cup [pc : {"reading", "falling back"}, wallet : Wallets, afterDenial : BOOLEAN]
    \cup [pc : {"verified"}, wallet : Wallets, afterDenial : BOOLEAN, verdict : Verdicts]
    \cup [pc : {"replied"}, reply : {"success", "conflict", "failed"}]

DeskInit ==
    /\ ComplianceInit
    /\ institution = [w \in Wallets |-> "none"]
    /\ audited = [k \in Wallets \X Operations |-> 0]
    /\ late = {}
    /\ request = [s \in Slots |-> Idle]
    /\ denied = {}

-----------------------------------------------------------------------------
Becomes(s, r) == request' = [request EXCEPT ![s] = r]
Proceeds(s, pc) == request' = [request EXCEPT ![s].pc = pc]
Replies(s, reply) == Becomes(s, [pc |-> "replied", reply |-> reply])

(* What an await that only concerns the request leaves alone. *)
OnlyRequest == UNCHANGED <<complianceVars, registerVars, late, denied>>

AskIssue(s, w, expiresAt) ==
    /\ request[s].pc = "idle"
    /\ expiresAt > now
    /\ Becomes(s, [pc |-> "checking",
                   tx |-> [op |-> "issue", wallet |-> w, issuedAt |-> now, expiresAt |-> expiresAt]])
    /\ OnlyRequest

FindExisting(s) ==
    /\ request[s].pc = "checking"
    /\ credential[request[s].tx.wallet] # NoAccount
    /\ Replies(s, "conflict")
    /\ OnlyRequest

(* Any error of the read, not only an absent account, counts as "not found". *)
FindNone(s) ==
    /\ request[s].pc = "checking"
    /\ Proceeds(s, "sending")
    /\ OnlyRequest

AskRevoke(s, w) ==
    /\ request[s].pc = "idle"
    /\ Becomes(s, [pc |-> "sending", tx |-> [op |-> "revoke", wallet |-> w]])
    /\ OnlyRequest

(* The program executes the transaction: its own checks decide. *)
Execute(tx) ==
    /\ \/ tx.op = "issue" /\ IssueCredential(tx.wallet, tx.issuedAt, tx.expiresAt)
       \/ tx.op = "revoke" /\ RevokeCredential(tx.wallet)
    /\ UNCHANGED now

Land(s) ==
    /\ request[s].pc = "sending"
    /\ Execute(request[s].tx)
    /\ Proceeds(s, "landed")
    /\ UNCHANGED <<registerVars, late, denied>>

Confirm(s) ==
    /\ request[s].pc = "landed"
    /\ Proceeds(s, "storing")
    /\ OnlyRequest

(* Mutant: the error swallowed, and the register written all the same. *)
SendFailsUnnoticed(s) ==
    /\ request[s].pc \in {"sending", "landed"}
    /\ Proceeds(s, "storing")
    /\ OnlyRequest

(* The transaction is refused or dropped, or was executed and its answer is lost. *)
SendFails(s) ==
    /\ request[s].pc \in {"sending", "landed"}
    /\ Replies(s, "failed")
    /\ OnlyRequest

(* The confirmation times out while the transaction is still on its way. *)
GiveUp(s) ==
    /\ request[s].pc = "sending"
    /\ Cardinality(late) < MaxLate
    /\ late' = late \cup {request[s].tx}
    /\ Replies(s, "failed")
    /\ UNCHANGED <<complianceVars, registerVars, denied>>

LateLands(tx) ==
    /\ tx \in late
    /\ Execute(tx)
    /\ late' = late \ {tx}
    /\ UNCHANGED <<registerVars, request, denied>>

LateExpires(tx) ==
    /\ tx \in late
    /\ late' = late \ {tx}
    /\ UNCHANGED <<complianceVars, registerVars, request, denied>>

-----------------------------------------------------------------------------
(* upsert writes or creates the row; updateMany changes nothing when there is none. *)
StatusAfter(op, status) ==
    IF op = "issue" THEN "active" ELSE IF status = "none" THEN "none" ELSE "revoked"

Store(s) ==
    /\ request[s].pc = "storing"
    /\ institution' = [institution EXCEPT ![request[s].tx.wallet] = StatusAfter(request[s].tx.op, @)]
    /\ Proceeds(s, "auditing")
    /\ UNCHANGED <<complianceVars, audited, late, denied>>

Audit(s) ==
    /\ request[s].pc = "auditing"
    /\ audited' = [audited EXCEPT ![<<request[s].tx.wallet, request[s].tx.op>>] = @ + 1]
    /\ Replies(s, "success")
    /\ UNCHANGED <<complianceVars, institution, late, denied>>

(* Mutant: the failed write of the row swallowed, and the event recorded all the same. *)
DatabaseFailsUnnoticed(s) ==
    /\ request[s].pc \in {"storing", "auditing", "falling back"}
    /\ IF request[s].pc = "storing" THEN Proceeds(s, "auditing") ELSE Replies(s, "failed")
    /\ OnlyRequest

DatabaseFails(s) ==
    /\ request[s].pc \in {"storing", "auditing", "falling back"}
    /\ Replies(s, "failed")
    /\ OnlyRequest

-----------------------------------------------------------------------------
AskVerify(s, w) ==
    /\ request[s].pc = "idle"
    /\ Becomes(s, [pc |-> "reading", wallet |-> w, afterDenial |-> w \in denied])
    /\ OnlyRequest

(* The expiry is compared the other way round than in the program, which has the credential     *)
(* lapse at the very instant that this verdict still calls active.                             *)
ChainVerdict(c) ==
    IF c.status = "revoked" THEN "revoked" ELSE IF c.expiresAt < now THEN "expired" ELSE "active"

(* Mutant: the row's status taken as it is. *)
RowVerdictAsStored(status) == IF status = "none" THEN "not_found" ELSE status

(* Mutant: a wallet without a row not told apart from the others. *)
RowVerdictUnchecked(status) == status

(* A row that says "active" is not believed without the chain. *)
RowVerdict(status) == IF status = "revoked" THEN "revoked" ELSE "not_found"

Verified(s, verdict) ==
    /\ Becomes(s, [pc |-> "verified", wallet |-> request[s].wallet,
                   afterDenial |-> request[s].afterDenial, verdict |-> verdict])
    /\ denied' = IF verdict \in {"revoked", "expired"} THEN denied \cup {request[s].wallet} ELSE denied
    /\ UNCHANGED <<complianceVars, registerVars, late>>

ReadChain(s) ==
    /\ request[s].pc = "reading"
    /\ credential[request[s].wallet] # NoAccount
    /\ Verified(s, ChainVerdict(credential[request[s].wallet]))

(* The account is absent, or the node does not answer. *)
ReadFails(s) ==
    /\ request[s].pc = "reading"
    /\ Proceeds(s, "falling back")
    /\ OnlyRequest

ReadRow(s) ==
    /\ request[s].pc = "falling back"
    /\ Verified(s, RowVerdict(institution[request[s].wallet]))

Answered(s) == request[s].pc \in {"verified", "replied"}

(* The caller takes the answer, or has long gone. *)
Close(s) ==
    /\ Answered(s)
    /\ Becomes(s, Idle)
    /\ OnlyRequest

-----------------------------------------------------------------------------
Serve(s) ==
    \/ FindExisting(s) \/ FindNone(s)
    \/ Land(s) \/ Confirm(s) \/ SendFails(s) \/ GiveUp(s)
    \/ Store(s) \/ Audit(s) \/ DatabaseFails(s)
    \/ ReadChain(s) \/ ReadFails(s) \/ ReadRow(s)

Settle == \E tx \in late : LateLands(tx) \/ LateExpires(tx)

(* The operator works through the admin endpoints, unlike the institution's browser. *)
OperatorAsks(s) ==
    \E w \in Wallets :
        \/ \E expiresAt \in ExpiryDates : AskIssue(s, w, expiresAt)
        \/ AskRevoke(s, w)
        \/ AskVerify(s, w)

ClockTicks ==
    /\ Tick
    /\ UNCHANGED <<credential, travelRecord, largeDeposits, registerVars, late, request, denied>>

DeskNext ==
    \/ \E s \in Slots : OperatorAsks(s) \/ Serve(s) \/ Close(s)
    \/ Settle
    \/ ClockTicks

DeskSpec == DeskInit /\ [][DeskNext]_deskVars

-----------------------------------------------------------------------------
(* Type invariant of the desk. *)
DeskTypeOK ==
    /\ ComplianceTypeOK
    /\ institution \in [Wallets -> {"none", "active", "revoked"}]
    /\ audited \in [Wallets \X Operations -> Nat]
    /\ late \subseteq Transaction
    /\ request \in [Slots -> Request]
    /\ denied \subseteq Wallets

Issued(w)  == credential[w] # NoAccount
Revoked(w) == Issued(w) /\ credential[w].status = "revoked"

(* The register never runs ahead of the chain, whatever fails, overlaps or lands late: a row,   *)
(* which the deposit preflight believes when it cannot read the chain, exists only for a       *)
(* wallet that was issued a credential, and says "revoked" only once the chain does.           *)
RegisterBehindChain ==
    \A w \in Wallets :
        /\ institution[w] # "none" => Issued(w)
        /\ institution[w] = "revoked" => Revoked(w)

(* The audit trail tells what happened, once: however many requests race for the same wallet,   *)
(* at most one issue and one revocation are ever recorded, and no event is recorded that the   *)
(* register and the chain do not bear out.  CredentialRecord, which the desk implements, has it *)
(* in its TellAudit.                                                                           *)
AuditedOnce ==
    \A w \in Wallets :
        /\ \A op \in Operations : audited[<<w, op>>] <= 1
        /\ audited[<<w, "issue">>] = 1 => institution[w] # "none"
        /\ audited[<<w, "revoke">>] = 1 => Revoked(w)

(* A denial is final: once some verify has called a wallet's credential revoked or expired, no  *)
(* verify that is asked afterwards calls it active, be the answer read from the chain or, when  *)
(* the chain cannot be read, taken from a register that a late write may have left "active".    *)
DenialIsFinal ==
    \A s \in Slots :
        request[s].pc = "verified" /\ request[s].afterDenial => request[s].verdict # "active"

(* How far the news of an executed operation has got: its one request carries it.              *)
CarriedAt(pcs, k) ==
    \E s \in Slots :
        request[s].pc \in pcs /\ request[s].tx.wallet = k[1] /\ request[s].tx.op = k[2]

Record == INSTANCE CredentialRecord WITH
    chain  <- [w \in Wallets |-> IF Issued(w) THEN credential[w].status ELSE "none"],
    untold <- [k \in Wallets \X Operations |->
                 IF CarriedAt({"landed", "storing"}, k) THEN "row"
                 ELSE IF CarriedAt({"auditing"}, k) THEN "event" ELSE "nothing"]

(* The desk implements the abstract record of a credential's life: for all its overlapping,     *)
(* failing and late requests, whatever reaches the register has happened on the chain, whatever *)
(* reaches the audit trail has gone through the register, each of them at most once.           *)
ImplementsRecord == Record!RecordSpec
=============================================================================
