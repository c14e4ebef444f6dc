----------------------------- MODULE DepositDesk -----------------------------
(***************************************************************************)
(* The backend's deposits and travel-rule services beside the chain whose  *)
(* deposits and records they are about.  Anybody may send any transaction, *)
(* with or without the services, and anybody may ask for the index of any  *)
(* signature, at any time and again, with whatever wallet, amount and      *)
(* reference he likes: the endpoint asks for no key, and the service       *)
(* compares none of it with the transaction.  What it does do, it does     *)
(* between awaits that may each fail, for several requests at a time.      *)
(***************************************************************************)
EXTENDS Compliance, SequencesExt

CONSTANTS
    Signatures,  \* the signatures of transactions
    References,  \* the values of IndexDepositDto.nonce, the client's own reference
    Workers,     \* the index requests that the backend serves at a time
    MaxNav       \* bound: NAV updates

ASSUME DeskBoundsAssumption == MaxNav \in Nat

VARIABLES
    navUpdate,   \* the number of the vault's current NAV: updates are counted, not valued
    executedAt,  \* the NAV update at which each signature's transaction was executed
    depositOf,   \* the deposit that it made, if it is one: the services never look
    registered,  \* the wallets with an Institution row
    travelRow,   \* the TravelRule row under each nonce hash
    depositRows, \* the Deposit table, in the order of creation
    audited,     \* how many audit events name the deposit of each signature
    worker       \* what each index request is at

chainVars   == <<complianceVars, navUpdate, executedAt, depositOf>>
tableVars   == <<registered, travelRow, depositRows, audited>>
depositVars == <<chainVars, tableVars, worker>>

NavUpdates == 0 .. MaxNav

ASSUME NoUpdateAssumption == NoAccount \notin NavUpdates

DepositTx == [wallet : Wallets, amount : DepositAmounts]

TravelRow == [wallet : Wallets, amount : LargeAmounts]

ASSUME NoRowAssumption == NoAccount \notin DepositTx \cup TravelRow \cup Nonces

(* IndexDepositDto: `hash` is travelRuleNonceHash, or else nonce, if it has the length of one. *)
Request ==
    [tx : Signatures, wallet : Wallets, amount : DepositAmounts, reference : References,
     hash : Nonces \cup {NoAccount}]

DepositRow ==
    [tx : Signatures, wallet : Wallets, amount : DepositAmounts, reference : References,
     link : Nonces \cup {NoAccount}, navUpdate : NavUpdates]

Idle == [pc |-> "idle"]

WorkerStates ==
    {Idle}
    \cup [pc : {"confirming", "valuing"}, asked : Request]
    \cup [pc : {"linking"}, asked : Request, navUpdate : NavUpdates]
    \cup [pc : {"creating"}, row : DepositRow]
    \cup [pc : {"auditing"}, tx : Signatures]

(* Every wallet has been issued a credential; its row may follow, or be missing for good. *)
DepositInit ==
    /\ now = 0
    /\ credential = [w \in Wallets |-> [status |-> "active", expiresAt |-> MaxTime + 1]]
    /\ travelRecord = [r \in RecordAddresses |-> NoAccount]
    /\ largeDeposits = [k \in Wallets \X LargeAmounts |-> 0]
    /\ navUpdate = 0
    /\ executedAt = [tx \in Signatures |-> NoAccount]
    /\ depositOf = [tx \in Signatures |-> NoAccount]
    /\ registered = {}
    /\ travelRow = [n \in Nonces |-> NoAccount]
    /\ depositRows = <<>>
    /\ audited = [tx \in Signatures |-> 0]
    /\ worker = [b \in Workers |-> Idle]

-----------------------------------------------------------------------------
(* The chain.  A signature is of one transaction, which is executed at most once. *)
Execute(tx, deposit) ==
    /\ executedAt[tx] = NoAccount
    /\ executedAt' = [executedAt EXCEPT ![tx] = navUpdate]
    /\ depositOf' = [depositOf EXCEPT ![tx] = deposit]
    /\ UNCHANGED <<now, navUpdate, tableVars, worker>>

(* What else the program asks of a deposit (limits, no pause, the USDC) may refuse it too. *)
SendDeposit(tx, w, amount, record) ==
    /\ AdmitDeposit(w, amount, record)
    /\ Execute(tx, [wallet |-> w, amount |-> amount])

(* The transaction that the travel-rule service returned, or one made without it. *)
SendRecord(tx, payer, nonce, amount) ==
    /\ InitTravelRule(payer, nonce, amount)
    /\ Execute(tx, NoAccount)

(* A redemption, a transfer, a transaction of some other program. *)
SendOther(tx) ==
    /\ Execute(tx, NoAccount)
    /\ UNCHANGED <<credential, travelRecord, largeDeposits>>

Revoke(w) ==
    /\ RevokeCredential(w)
    /\ UNCHANGED <<now, navUpdate, executedAt, depositOf, tableVars, worker>>

SetNav ==
    /\ navUpdate < MaxNav
    /\ navUpdate' = navUpdate + 1
    /\ UNCHANGED <<complianceVars, executedAt, depositOf, tableVars, worker>>

-----------------------------------------------------------------------------
(* The credentials service writes the institution's row; no service takes one away. *)
Register(w) ==
    /\ w \notin registered
    /\ registered' = registered \cup {w}
    /\ UNCHANGED <<chainVars, travelRow, depositRows, audited, worker>>

(* Mutant: the institution not looked up. *)
FileRowForAnyone(w, amount, n) ==
    /\ amount \in LargeAmounts
    /\ travelRow[n] = NoAccount
    /\ travelRow' = [travelRow EXCEPT ![n] = [wallet |-> w, amount |-> amount]]
    /\ UNCHANGED <<chainVars, registered, depositRows, audited, worker>>

(* The travel-rule service stores the row, then returns an unsigned transaction, which the      *)
(* wallet may or may not send.  The nonce is 32 random bytes: never the same twice.  What it   *)
(* reads before the one write is still so at the write.                                        *)
FileRow(w, amount, n) ==
    /\ amount \in LargeAmounts
    /\ w \in registered
    /\ travelRow[n] = NoAccount
    /\ travelRow' = [travelRow EXCEPT ![n] = [wallet |-> w, amount |-> amount]]
    /\ UNCHANGED <<chainVars, registered, depositRows, audited, worker>>

-----------------------------------------------------------------------------
Works(b, state) == worker' = [worker EXCEPT ![b] = state]

OnlyWorker == UNCHANGED <<chainVars, tableVars>>

AskIndex(b, asked) ==
    /\ worker[b] = Idle
    /\ Works(b, [pc |-> "confirming", asked |-> asked])
    /\ OnlyWorker

(* Mutant: the transaction not looked up. *)
IsConfirmedUnchecked(tx) == tx \in Signatures

(* The transaction exists and did not fail; what it did is not asked. *)
IsConfirmed(tx) == executedAt[tx] # NoAccount

FindTransaction(b) ==
    /\ worker[b].pc = "confirming"
    /\ IsConfirmed(worker[b].asked.tx)
    /\ Works(b, [worker[b] EXCEPT !.pc = "valuing"])
    /\ OnlyWorker

(* Mutant: the NAV kept from the first read. *)
NavReadOnce == 0

(* The NAV of the moment, which need not be the one that the deposit was made at. *)
NavRead == navUpdate

(* Two reads in a row; an institution that was found stays. *)
FindInstitutionAndNav(b) ==
    /\ worker[b].pc = "valuing"
    /\ worker[b].asked.wallet \in registered
    /\ Works(b, [pc |-> "linking", asked |-> worker[b].asked, navUpdate |-> NavRead])
    /\ OnlyWorker

(* Mutant: the hash stored in place of the row. *)
LinkOfHash(asked) == asked.hash

(* Mutant: the row stored in place of its key. *)
LinkOfRow(asked) ==
    IF asked.hash # NoAccount /\ travelRow[asked.hash] # NoAccount THEN travelRow[asked.hash]
    ELSE NoAccount

(* The row under that hash, whoever's it is and whatever it was filed for, if there is one. *)
LinkOf(asked) ==
    IF asked.hash # NoAccount /\ travelRow[asked.hash] # NoAccount THEN asked.hash ELSE NoAccount

FindTravelRule(b) ==
    LET asked == worker[b].asked IN
    /\ worker[b].pc = "linking"
    /\ Works(b, [pc |-> "creating", row |->
          [tx |-> asked.tx, wallet |-> asked.wallet, amount |-> asked.amount,
           reference |-> asked.reference, link |-> LinkOf(asked),
           navUpdate |-> worker[b].navUpdate]])
    /\ OnlyWorker

(* Mutant: no unique index on the signature. *)
IsNewReference(row) == \A i \in DOMAIN depositRows : depositRows[i].reference # row.reference

(* Deposit.txSignature and Deposit.nonce are unique. *)
IsNew(row) ==
    \A i \in DOMAIN depositRows :
        depositRows[i].tx # row.tx /\ depositRows[i].reference # row.reference

CreateRow(b) ==
    /\ worker[b].pc = "creating"
    /\ IsNew(worker[b].row)
    /\ depositRows' = Append(depositRows, worker[b].row)
    /\ Works(b, [pc |-> "auditing", tx |-> worker[b].row.tx])
    /\ UNCHANGED <<chainVars, registered, travelRow, audited>>

AuditRow(b) ==
    /\ worker[b].pc = "auditing"
    /\ audited' = [audited EXCEPT ![worker[b].tx] = @ + 1]
    /\ Works(b, Idle)
    /\ UNCHANGED <<chainVars, registered, travelRow, depositRows>>

(* Mutant: a failed creation audited all the same. *)
IndexFailsUnnoticed(b) ==
    /\ worker[b] # Idle
    /\ IF worker[b].pc = "creating" THEN Works(b, [pc |-> "auditing", tx |-> worker[b].row.tx])
       ELSE Works(b, Idle)
    /\ OnlyWorker

(* The transaction, the institution or the NAV is not found, the row exists, an await fails. *)
IndexFails(b) ==
    /\ worker[b] # Idle
    /\ Works(b, Idle)
    /\ OnlyWorker

-----------------------------------------------------------------------------
Chain ==
    \/ \E tx \in Signatures, w \in Wallets, amount \in DepositAmounts :
          \/ \E record \in RecordAddresses \cup {NoAccount} : SendDeposit(tx, w, amount, record)
          \/ \E n \in Nonces : SendRecord(tx, w, n, amount)
    \/ \E tx \in Signatures : SendOther(tx)
    \/ \E w \in Wallets : Revoke(w)
    \/ SetNav

WorkerSteps(b) ==
    \/ \E asked \in Request : AskIndex(b, asked)
    \/ FindTransaction(b) \/ FindInstitutionAndNav(b) \/ FindTravelRule(b)
    \/ CreateRow(b) \/ AuditRow(b) \/ IndexFails(b)

DepositNext ==
    \/ Chain
    \/ \E w \in Wallets : Register(w) \/ \E amount \in LargeAmounts, n \in Nonces : FileRow(w, amount, n)
    \/ \E b \in Workers : WorkerSteps(b)

DepositSpec == DepositInit /\ [][DepositNext]_depositVars

-----------------------------------------------------------------------------
(* Type invariant of the deposit desk. *)
DepositTypeOK ==
    /\ ComplianceTypeOK
    /\ navUpdate \in NavUpdates
    /\ executedAt \in [Signatures -> NavUpdates \cup {NoAccount}]
    /\ depositOf \in [Signatures -> DepositTx \cup {NoAccount}]
    /\ registered \subseteq Wallets
    /\ travelRow \in [Nonces -> TravelRow \cup {NoAccount}]
    /\ depositRows \in Seq(DepositRow)
    /\ audited \in [Signatures -> Nat]
    /\ worker \in [Workers -> WorkerStates]

Book == INSTANCE DepositBook

(* The desk implements the abstract journal of DepositBook.  However requests for one signature  *)
(* or under one reference overlap, fail between any two awaits and are asked again, an entry is *)
(* made once and audited once at most, of a transaction that was executed, and at a NAV read   *)
(* after it was, never at an older one.                                                        *)
ImplementsBook == Book!BookSpec

-----------------------------------------------------------------------------
Rows == ToSet(depositRows)

(* What the README calls the index: "Index a confirmed deposit tx".  Each row should then be of *)
(* a deposit, and of that wallet and amount.                                                   *)
RowsAreDeposits ==
    \A row \in Rows : depositOf[row.tx] = [wallet |-> row.wallet, amount |-> row.amount]

(* What the column says: navAtDeposit.  The row's NAV should be the one of the deposit. *)
RowsValuedAtDeposit == \A row \in Rows : executedAt[row.tx] = row.navUpdate

(* The flow that the frontend's document lays out ends in "POST /api/deposits/index with         *)
(* travelRuleNonceHash".  A large row should then be linked to a travel-rule row of its wallet  *)
(* and amount.                                                                                 *)
LargeRowsAreLinked ==
    \A row \in Rows : row.amount \in LargeAmounts =>
        /\ row.link # NoAccount
        /\ travelRow[row.link] = [wallet |-> row.wallet, amount |-> row.amount]
=============================================================================
