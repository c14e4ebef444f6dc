----------------------------- MODULE Compliance -----------------------------
(***************************************************************************)
(* The compliance gate of the oragami-vault program: soulbound credentials *)
(* that the vault authority issues and revokes, travel-rule records that a *)
(* depositor files before a large deposit, and the part of `deposit` that  *)
(* admits a depositor.  Every signer check is left to the runtime: an      *)
(* instruction that the wrong key signs fails and changes nothing.         *)
(***************************************************************************)
EXTENDS SolanaClock, FiniteSets

CONSTANTS
    TravelRuleThreshold,  \* TRAVEL_RULE_THRESHOLD
    DepositAmounts,       \* the USDC amounts that deposits and records may name
    Nonces                \* the nonce hashes a payer derives record addresses from

ASSUME AmountsAssumption == DepositAmounts \subseteq Nat
ASSUME ThresholdAssumption == TravelRuleThreshold \in Nat \ {0}
ASSUME NoncesAssumption == IsFiniteSet(Nonces) /\ NoAccount \notin Wallets \X Nonces

VARIABLES
    credential,    \* the credential account of each wallet
    travelRecord,  \* the travel-rule record at each (payer, nonce) address
    largeDeposits  \* history: how many deposits of each large amount a payer has made

complianceVars == <<now, credential, travelRecord, largeDeposits>>

(* A credential may outlast the bounded clock. *)
ExpiryDates == 0 .. MaxTime + 1

(* CREDENTIAL_STATUS_PENDING and _RESTRICTED exist in the program, but no instruction sets them. *)
Credential == [status : {"active", "revoked"}, expiresAt : ExpiryDates]

TravelRuleData == [payer : Wallets, amount : DepositAmounts, consumed : BOOLEAN]

ASSUME NoAccountAssumption == NoAccount \notin Credential \cup TravelRuleData

RecordAddresses == Wallets \X Nonces

LargeAmounts == {a \in DepositAmounts : a >= TravelRuleThreshold}

ComplianceInit ==
    /\ now = 0
    /\ credential = [w \in Wallets |-> NoAccount]
    /\ travelRecord = [r \in RecordAddresses |-> NoAccount]
    /\ largeDeposits = [k \in Wallets \X LargeAmounts |-> 0]

-----------------------------------------------------------------------------
(* Mutant: the account opened with `init_if_needed`, which accepts an existing one. *)
CanIssueAgain(w) == w \in Wallets

(* The credential account is created with `init`: its address must be empty. *)
CanIssue(w) == credential[w] = NoAccount

(* Mutant: the status left at zero, which is CREDENTIAL_STATUS_PENDING. *)
IssueWithoutStatus(w, issuedAt, expiresAt) ==
    /\ expiresAt > issuedAt
    /\ CanIssue(w)
    /\ credential' = [credential EXCEPT ![w] = [status |-> "pending", expiresAt |-> expiresAt]]
    /\ UNCHANGED <<travelRecord, largeDeposits>>

IssueCredential(w, issuedAt, expiresAt) ==
    /\ expiresAt > issuedAt
    /\ CanIssue(w)
    /\ credential' = [credential EXCEPT ![w] = [status |-> "active", expiresAt |-> expiresAt]]
    /\ UNCHANGED <<travelRecord, largeDeposits>>

(* The account stays, revoked, as an audit record. *)
RevokeCredential(w) ==
    /\ credential[w] # NoAccount
    /\ credential[w].status # "revoked"
    /\ credential' = [credential EXCEPT ![w].status = "revoked"]
    /\ UNCHANGED <<travelRecord, largeDeposits>>

InitTravelRule(payer, nonce, amount) ==
    /\ amount >= TravelRuleThreshold
    /\ travelRecord[<<payer, nonce>>] = NoAccount
    /\ travelRecord' = [travelRecord EXCEPT ![<<payer, nonce>>] =
                          [payer |-> payer, amount |-> amount, consumed |-> FALSE]]
    /\ UNCHANGED <<credential, largeDeposits>>

-----------------------------------------------------------------------------
CredentialPasses(w) ==
    /\ credential[w] # NoAccount
    /\ credential[w].status = "active"
    /\ credential[w].expiresAt > now

(* Mutant: the single-use check dropped. *)
RecordCoversReused(record, payer, amount) ==
    /\ record # NoAccount
    /\ travelRecord[record] # NoAccount
    /\ travelRecord[record].amount = amount
    /\ travelRecord[record].payer = payer

(* The record that `deposit` accepts for a large amount; its address is the caller's choice. *)
RecordCovers(record, payer, amount) ==
    /\ record # NoAccount
    /\ travelRecord[record] # NoAccount
    /\ travelRecord[record].amount = amount
    /\ travelRecord[record].payer = payer
    /\ ~travelRecord[record].consumed

ConsumeRecord(record) ==
    travelRecord' = [travelRecord EXCEPT ![record].consumed = TRUE]

(* The travel-rule gate: below the threshold a record that is passed along is not even read. *)
PassTravelRule(payer, amount, record) ==
    \/ /\ amount < TravelRuleThreshold
       /\ UNCHANGED <<travelRecord, largeDeposits>>
    \/ /\ amount >= TravelRuleThreshold
       /\ RecordCovers(record, payer, amount)
       /\ ConsumeRecord(record)
       /\ largeDeposits' = [largeDeposits EXCEPT ![<<payer, amount>>] = @ + 1]

AdmitDeposit(payer, amount, record) ==
    /\ CredentialPasses(payer)
    /\ PassTravelRule(payer, amount, record)
    /\ UNCHANGED credential

-----------------------------------------------------------------------------
ComplianceNext ==
    \/ Tick /\ UNCHANGED <<credential, travelRecord, largeDeposits>>
    \/ /\ UNCHANGED now
       /\ \/ \E w \in Wallets, issuedAt \in Times, expiresAt \in ExpiryDates :
                IssueCredential(w, issuedAt, expiresAt)
          \/ \E w \in Wallets : RevokeCredential(w)
          \/ \E w \in Wallets, n \in Nonces, a \in DepositAmounts : InitTravelRule(w, n, a)
          \/ \E w \in Wallets, a \in DepositAmounts, r \in RecordAddresses \cup {NoAccount} :
                AdmitDeposit(w, a, r)

ComplianceSpec == ComplianceInit /\ [][ComplianceNext]_complianceVars

-----------------------------------------------------------------------------
(* Type invariant of the compliance accounts. *)
ComplianceTypeOK ==
    /\ now \in Times
    /\ credential \in [Wallets -> Credential \cup {NoAccount}]
    /\ travelRecord \in [RecordAddresses -> TravelRuleData \cup {NoAccount}]
    /\ largeDeposits \in [Wallets \X LargeAmounts -> Nat]

(* The addresses whose record a large deposit of this payer and amount has used up. *)
ConsumedNonces(payer, amount) ==
    {n \in Nonces : /\ travelRecord[<<payer, n>>] # NoAccount
                    /\ travelRecord[<<payer, n>>].amount = amount
                    /\ travelRecord[<<payer, n>>].consumed}

(* Every deposit at or above the threshold has used up a travel-rule record of its own: for    *)
(* each payer and amount there have been exactly as many such deposits as there are consumed   *)
(* records of that payer for that amount.  It fails when `deposit` accepts a record twice,     *)
(* takes another payer's record or another amount's, or when a record can be reset.            *)
TravelRuleCovered ==
    \A payer \in Wallets, amount \in LargeAmounts :
        largeDeposits[<<payer, amount>>] = Cardinality(ConsumedNonces(payer, amount))

(* A record names as its payer the wallet that its address was derived from. *)
RecordsFiledByPayer ==
    \A payer \in Wallets, n \in Nonces :
        travelRecord[<<payer, n>>] # NoAccount => travelRecord[<<payer, n>>].payer = payer

(* A wallet that once held a credential and no longer passes the gate. *)
Lapsed(w) == credential[w] # NoAccount /\ ~CredentialPasses(w)

(* A lapse is final.  A credential that was revoked or that expired never passes the gate      *)
(* again (it is neither renewed nor issued anew), and its wallet makes no further large        *)
(* deposit, not even with a travel-rule record filed while the credential was still good.      *)
StaysLapsed(w) ==
    /\ Lapsed(w)'
    /\ \A a \in LargeAmounts : largeDeposits'[<<w, a>>] = largeDeposits[<<w, a>>]

LapseIsFinal == [][\A w \in Wallets : Lapsed(w) => StaysLapsed(w)]_complianceVars

(* What the backend tells an operator whose `issue` was refused: "Revoke it before              *)
(* re-issuing."  After a revocation the program should therefore let a credential be issued.   *)
RevokedCanBeReissued ==
    \A w \in Wallets :
        credential[w] # NoAccount /\ credential[w].status = "revoked" => CanIssue(w)
=============================================================================
