-------------------------- MODULE ComplianceProofs --------------------------
(***************************************************************************)
(* Theorems about Compliance, for any wallets, nonces, amounts and times.  *)
(***************************************************************************)
EXTENDS Compliance, FiniteSetTheorems, TLAPS

USE WalletsAssumption, AmountsAssumption, ThresholdAssumption, NoncesAssumption,
    NoAccountAssumption, MaxTimeAssumption

(* The accounts that the compliance instructions write keep their types. *)
LEMMA ComplianceTypeStep ==
    ASSUME ComplianceTypeOK, [ComplianceNext]_complianceVars
    PROVE  ComplianceTypeOK'
<1> USE DEF ComplianceTypeOK
<1>1. CASE Tick /\ UNCHANGED <<credential, travelRecord, largeDeposits>>
  BY <1>1 DEF Tick, Times
<1>2. ASSUME UNCHANGED now,
             NEW w \in Wallets, NEW issuedAt \in Times, NEW expiresAt \in ExpiryDates,
             IssueCredential(w, issuedAt, expiresAt)
      PROVE  ComplianceTypeOK'
  <2>1. credential' \in [Wallets -> Credential \cup {NoAccount}]
    BY <1>2 DEF IssueCredential, Credential
  <2>2. QED
    BY <1>2, <2>1 DEF IssueCredential
<1>3. ASSUME UNCHANGED now, NEW w \in Wallets, RevokeCredential(w)
      PROVE  ComplianceTypeOK'
  <2>1. credential' \in [Wallets -> Credential \cup {NoAccount}]
    BY <1>3 DEF RevokeCredential, Credential
  <2>2. QED
    BY <1>3, <2>1 DEF RevokeCredential
<1>4. ASSUME UNCHANGED now,
             NEW w \in Wallets, NEW n \in Nonces, NEW a \in DepositAmounts,
             InitTravelRule(w, n, a)
      PROVE  ComplianceTypeOK'
  <2>1. travelRecord' \in [RecordAddresses -> TravelRuleData \cup {NoAccount}]
    BY <1>4 DEF InitTravelRule, TravelRuleData, RecordAddresses
  <2>2. QED
    BY <1>4, <2>1 DEF InitTravelRule
<1>5. ASSUME UNCHANGED now,
             NEW w \in Wallets, NEW a \in DepositAmounts,
             NEW r \in RecordAddresses \cup {NoAccount}, AdmitDeposit(w, a, r)
      PROVE  ComplianceTypeOK'
  <2>1. CASE UNCHANGED <<travelRecord, largeDeposits>>
    BY <1>5, <2>1 DEF AdmitDeposit
  <2>2. ASSUME a >= TravelRuleThreshold,
               RecordCovers(r, w, a),
               ConsumeRecord(r),
               largeDeposits' = [largeDeposits EXCEPT ![<<w, a>>] = @ + 1]
        PROVE  ComplianceTypeOK'
    <3>1. r \in RecordAddresses /\ travelRecord[r] \in TravelRuleData
      BY <2>2 DEF RecordCovers
    <3>2. travelRecord' \in [RecordAddresses -> TravelRuleData \cup {NoAccount}]
      BY <2>2, <3>1 DEF ConsumeRecord, TravelRuleData
    <3>3. largeDeposits' \in [Wallets \X LargeAmounts -> Nat]
      BY <2>2 DEF LargeAmounts
    <3>4. QED
      BY <1>5, <3>2, <3>3 DEF AdmitDeposit
  <2>3. QED
    BY <1>5, <2>1, <2>2 DEF AdmitDeposit, PassTravelRule
<1>6. CASE UNCHANGED complianceVars
  BY <1>6 DEF complianceVars
<1>7. QED
  BY <1>1, <1>2, <1>3, <1>4, <1>5, <1>6 DEF ComplianceNext

(* The type invariant of the compliance accounts. *)
THEOREM ComplianceTypeCorrect == ComplianceSpec => []ComplianceTypeOK
<1>1. ComplianceInit => ComplianceTypeOK
  BY DEF ComplianceInit, ComplianceTypeOK, Times
<1>2. ComplianceTypeOK /\ [ComplianceNext]_complianceVars => ComplianceTypeOK'
  BY ComplianceTypeStep
<1>3. QED
  BY <1>1, <1>2, PTL DEF ComplianceSpec

-----------------------------------------------------------------------------
(* The records a payer has used up are finitely many. *)
LEMMA ConsumedNoncesFinite ==
    ASSUME NEW payer, NEW amount
    PROVE  IsFiniteSet(ConsumedNonces(payer, amount))
  BY FS_Subset DEF ConsumedNonces

(* A step that leaves the records alone, or only opens a record that is not consumed, leaves   *)
(* the count of used-up records alone.                                                         *)
LEMMA FilingConsumesNothing ==
    ASSUME ComplianceTypeOK,
           NEW w \in Wallets, NEW n \in Nonces, NEW a \in DepositAmounts,
           InitTravelRule(w, n, a),
           NEW payer \in Wallets, NEW amount \in LargeAmounts
    PROVE  ConsumedNonces(payer, amount)' = ConsumedNonces(payer, amount)
  <1>1. travelRecord[<<w, n>>] = NoAccount
    BY DEF InitTravelRule
  <1>2. \A m \in Nonces : <<payer, m>> # <<w, n>> =>
           travelRecord'[<<payer, m>>] = travelRecord[<<payer, m>>]
    BY DEF InitTravelRule, ComplianceTypeOK, RecordAddresses
  <1>3. travelRecord'[<<w, n>>] = [payer |-> w, amount |-> a, consumed |-> FALSE]
    BY DEF InitTravelRule, ComplianceTypeOK, RecordAddresses
  <1>4. QED
    BY <1>1, <1>2, <1>3 DEF ConsumedNonces

(* A deposit consumes one record of its payer for its amount, and no other record changes. *)
LEMMA DepositConsumesOneRecord ==
    ASSUME ComplianceTypeOK, RecordsFiledByPayer,
           NEW w \in Wallets, NEW a \in LargeAmounts,
           NEW r \in RecordAddresses \cup {NoAccount},
           RecordCovers(r, w, a), ConsumeRecord(r)
    PROVE  /\ \E n \in Nonces : /\ n \notin ConsumedNonces(w, a)
                               /\ ConsumedNonces(w, a)' = ConsumedNonces(w, a) \cup {n}
           /\ \A payer \in Wallets, amount \in LargeAmounts :
                 <<payer, amount>> # <<w, a>> =>
                    ConsumedNonces(payer, amount)' = ConsumedNonces(payer, amount)
  <1>1. /\ r \in RecordAddresses
        /\ travelRecord[r] # NoAccount
        /\ travelRecord[r] \in TravelRuleData
        /\ travelRecord[r].amount = a
        /\ travelRecord[r].payer = w
        /\ ~travelRecord[r].consumed
    BY DEF RecordCovers, ComplianceTypeOK
  <1>2. PICK n \in Nonces : r = <<w, n>>
    <2>1. PICK p \in Wallets, n \in Nonces : r = <<p, n>>
      BY <1>1 DEF RecordAddresses
    <2>2. p = w
      BY <1>1, <2>1 DEF RecordsFiledByPayer
    <2>3. QED
      BY <2>1, <2>2
  <1>3. /\ travelRecord'[<<w, n>>] # NoAccount
        /\ travelRecord'[<<w, n>>].amount = a
        /\ travelRecord'[<<w, n>>].consumed
    <2>1. travelRecord'[r] = [travelRecord[r] EXCEPT !.consumed = TRUE]
      BY <1>1 DEF ConsumeRecord, ComplianceTypeOK
    <2>2. /\ travelRecord'[r].amount = a
          /\ travelRecord'[r].consumed
      BY <1>1, <2>1 DEF TravelRuleData
    <2>3. travelRecord'[r] # NoAccount
      <3>1. travelRecord'[r] \in TravelRuleData
        BY <1>1, <2>1 DEF TravelRuleData
      <3>2. QED
        BY <3>1
    <2>4. QED
      BY <1>2, <2>2, <2>3
  <1>4. \A payer \in Wallets, m \in Nonces :
           <<payer, m>> # <<w, n>> => travelRecord'[<<payer, m>>] = travelRecord[<<payer, m>>]
    BY <1>1, <1>2 DEF ConsumeRecord, ComplianceTypeOK, RecordAddresses
  <1>5. n \notin ConsumedNonces(w, a)
    BY <1>1, <1>2 DEF ConsumedNonces
  <1>6. ConsumedNonces(w, a)' = ConsumedNonces(w, a) \cup {n}
    BY <1>3, <1>4 DEF ConsumedNonces
  <1>7. ASSUME NEW payer \in Wallets, NEW amount \in LargeAmounts,
               <<payer, amount>> # <<w, a>>
        PROVE  ConsumedNonces(payer, amount)' = ConsumedNonces(payer, amount)
    <2>1. CASE payer # w
      BY <2>1, <1>4 DEF ConsumedNonces
    <2>2. CASE payer = w /\ amount # a
      BY <2>2, <1>1, <1>2, <1>3, <1>4 DEF ConsumedNonces
    <2>3. QED
      BY <1>7, <2>1, <2>2
  <1>8. QED
    BY <1>5, <1>6, <1>7

(* No step of the gate files a record for another wallet, or passes one on. *)
LEMMA RecordsFiledStep ==
    ASSUME ComplianceTypeOK, RecordsFiledByPayer, [ComplianceNext]_complianceVars
    PROVE  RecordsFiledByPayer'
<1>1. ASSUME UNCHANGED travelRecord
      PROVE  RecordsFiledByPayer'
  BY <1>1 DEF RecordsFiledByPayer
<1>2. ASSUME NEW w \in Wallets, NEW n \in Nonces, NEW a \in DepositAmounts,
             InitTravelRule(w, n, a)
      PROVE  RecordsFiledByPayer'
  BY <1>2 DEF InitTravelRule, RecordsFiledByPayer, ComplianceTypeOK, RecordAddresses
<1>3. ASSUME NEW r \in RecordAddresses, travelRecord[r] # NoAccount, ConsumeRecord(r)
      PROVE  RecordsFiledByPayer'
  <2>1. travelRecord'[r].payer = travelRecord[r].payer
    BY <1>3 DEF ConsumeRecord, ComplianceTypeOK, TravelRuleData
  <2>2. \A s \in RecordAddresses : s # r => travelRecord'[s] = travelRecord[s]
    BY <1>3 DEF ConsumeRecord, ComplianceTypeOK
  <2>3. QED
    BY <1>3, <2>1, <2>2 DEF RecordsFiledByPayer, RecordAddresses
<1>4. QED
  BY <1>1, <1>2, <1>3 DEF ComplianceNext, complianceVars, Tick, IssueCredential,
     RevokeCredential, AdmitDeposit, PassTravelRule, RecordCovers

-----------------------------------------------------------------------------
(* The record at an address was filed by the wallet that the address belongs to, and stays so. *)
THEOREM RecordsAlwaysFiledByPayer == ComplianceSpec => []RecordsFiledByPayer
<1>1. ComplianceInit => RecordsFiledByPayer
  BY DEF ComplianceInit, RecordsFiledByPayer, RecordAddresses
<1>2. /\ ComplianceTypeOK
      /\ RecordsFiledByPayer
      /\ [ComplianceNext]_complianceVars
      => RecordsFiledByPayer'
  BY RecordsFiledStep
<1>3. QED
  BY <1>1, <1>2, ComplianceTypeCorrect, PTL DEF ComplianceSpec

(* A step of the gate counts a large deposit when, and only when, it consumes a record. *)
LEMMA TravelRuleStep ==
    ASSUME ComplianceTypeOK, RecordsFiledByPayer, TravelRuleCovered,
           [ComplianceNext]_complianceVars
    PROVE  TravelRuleCovered'
<1>1. ASSUME UNCHANGED <<travelRecord, largeDeposits>>
      PROVE  TravelRuleCovered'
  BY <1>1 DEF TravelRuleCovered, ConsumedNonces
<1>2. ASSUME NEW w \in Wallets, NEW n \in Nonces, NEW a \in DepositAmounts,
             InitTravelRule(w, n, a)
      PROVE  TravelRuleCovered'
  <2>1. UNCHANGED largeDeposits
    BY <1>2 DEF InitTravelRule
  <2>2. QED
    BY <1>2, <2>1, FilingConsumesNothing DEF TravelRuleCovered
<1>3. ASSUME NEW w \in Wallets, NEW a \in DepositAmounts,
             NEW r \in RecordAddresses \cup {NoAccount},
             a >= TravelRuleThreshold,
             RecordCovers(r, w, a),
             ConsumeRecord(r),
             largeDeposits' = [largeDeposits EXCEPT ![<<w, a>>] = @ + 1]
      PROVE  TravelRuleCovered'
  <2>1. a \in LargeAmounts
    BY <1>3 DEF LargeAmounts
  <2>2. PICK n \in Nonces : /\ n \notin ConsumedNonces(w, a)
                            /\ ConsumedNonces(w, a)' = ConsumedNonces(w, a) \cup {n}
    BY <1>3, <2>1, DepositConsumesOneRecord
  <2>3. Cardinality(ConsumedNonces(w, a)') = Cardinality(ConsumedNonces(w, a)) + 1
    BY <2>2, ConsumedNoncesFinite, FS_AddElement
  <2>4. largeDeposits'[<<w, a>>] = largeDeposits[<<w, a>>] + 1
    BY <1>3, <2>1 DEF ComplianceTypeOK
  <2>5. ASSUME NEW payer \in Wallets, NEW amount \in LargeAmounts,
               <<payer, amount>> # <<w, a>>
        PROVE  /\ largeDeposits'[<<payer, amount>>] = largeDeposits[<<payer, amount>>]
               /\ ConsumedNonces(payer, amount)' = ConsumedNonces(payer, amount)
    <3>1. largeDeposits'[<<payer, amount>>] = largeDeposits[<<payer, amount>>]
      BY <1>3, <2>5 DEF ComplianceTypeOK
    <3>2. ConsumedNonces(payer, amount)' = ConsumedNonces(payer, amount)
      BY <1>3, <2>1, <2>5, DepositConsumesOneRecord
    <3>3. QED
      BY <3>1, <3>2
  <2>6. ASSUME NEW payer \in Wallets, NEW amount \in LargeAmounts
        PROVE  largeDeposits'[<<payer, amount>>] = Cardinality(ConsumedNonces(payer, amount)')
    <3>1. CASE <<payer, amount>> = <<w, a>>
      BY <3>1, <2>1, <2>3, <2>4 DEF TravelRuleCovered
    <3>2. CASE <<payer, amount>> # <<w, a>>
      BY <3>2, <2>5 DEF TravelRuleCovered
    <3>3. QED
      BY <3>1, <3>2
  <2>7. QED
    BY <2>6 DEF TravelRuleCovered
<1>4. QED
  BY <1>1, <1>2, <1>3 DEF ComplianceNext, complianceVars, Tick, IssueCredential,
     RevokeCredential, AdmitDeposit, PassTravelRule

(* Every large deposit has used up a travel-rule record of its own. *)
THEOREM TravelRuleAlwaysCovered == ComplianceSpec => []TravelRuleCovered
<1>1. ComplianceInit => TravelRuleCovered
  <2> SUFFICES ASSUME ComplianceInit, NEW payer \in Wallets, NEW amount \in LargeAmounts
               PROVE  largeDeposits[<<payer, amount>>] = Cardinality(ConsumedNonces(payer, amount))
    BY DEF TravelRuleCovered
  <2>1. ConsumedNonces(payer, amount) = {}
    BY DEF ComplianceInit, ConsumedNonces, RecordAddresses
  <2>2. QED
    BY <2>1, FS_EmptySet DEF ComplianceInit
<1>2. /\ ComplianceTypeOK
      /\ RecordsFiledByPayer
      /\ TravelRuleCovered
      /\ [ComplianceNext]_complianceVars
      => TravelRuleCovered'
  BY TravelRuleStep
<1>3. QED
  BY <1>1, <1>2, ComplianceTypeCorrect, RecordsAlwaysFiledByPayer, PTL DEF ComplianceSpec

-----------------------------------------------------------------------------
(* No instruction, and no passing of time, lets a lapsed wallet pass or deposit again. *)
LEMMA LapseStep ==
    ASSUME ComplianceTypeOK, ComplianceNext, NEW w \in Wallets, Lapsed(w)
    PROVE  StaysLapsed(w)
<1> USE DEF Lapsed, CredentialPasses, StaysLapsed
<1>1. CASE Tick /\ UNCHANGED <<credential, travelRecord, largeDeposits>>
  <2>1. credential[w] \in Credential
    BY DEF ComplianceTypeOK
  <2>2. ~(credential[w].expiresAt > now) => ~(credential[w].expiresAt > now + 1)
    BY <2>1 DEF ComplianceTypeOK, Credential, ExpiryDates, Times
  <2>3. QED
    BY <1>1, <2>2 DEF Tick
<1>2. ASSUME UNCHANGED now,
             NEW v \in Wallets, NEW issuedAt \in Times, NEW expiresAt \in ExpiryDates,
             IssueCredential(v, issuedAt, expiresAt)
      PROVE  StaysLapsed(w)
  <2>1. v # w
    BY <1>2 DEF IssueCredential, CanIssue
  <2>2. credential'[w] = credential[w]
    BY <1>2, <2>1 DEF IssueCredential, ComplianceTypeOK
  <2>3. QED
    BY <1>2, <2>2 DEF IssueCredential
<1>3. ASSUME UNCHANGED now, NEW v \in Wallets, RevokeCredential(v)
      PROVE  StaysLapsed(w)
  <2>1. CASE v = w
    <3>1. credential[w] \in Credential
      BY DEF ComplianceTypeOK
    <3>2. credential'[w] = [credential[w] EXCEPT !.status = "revoked"]
      BY <1>3, <2>1 DEF RevokeCredential, ComplianceTypeOK
    <3>3. credential'[w] \in Credential /\ credential'[w].status = "revoked"
      BY <3>1, <3>2 DEF Credential
    <3>4. credential'[w] # NoAccount
      BY <3>3
    <3>5. QED
      BY <1>3, <3>3, <3>4 DEF RevokeCredential
  <2>2. CASE v # w
    <3>1. credential'[w] = credential[w]
      BY <1>3, <2>2 DEF RevokeCredential, ComplianceTypeOK
    <3>2. QED
      BY <1>3, <3>1 DEF RevokeCredential
  <2>3. QED
    BY <2>1, <2>2
<1>4. ASSUME UNCHANGED now,
             NEW v \in Wallets, NEW n \in Nonces, NEW a \in DepositAmounts,
             InitTravelRule(v, n, a)
      PROVE  StaysLapsed(w)
  BY <1>4 DEF InitTravelRule
<1>5. ASSUME UNCHANGED now,
             NEW v \in Wallets, NEW a \in DepositAmounts,
             NEW r \in RecordAddresses \cup {NoAccount}, AdmitDeposit(v, a, r)
      PROVE  StaysLapsed(w)
  <2>1. v # w
    BY <1>5 DEF AdmitDeposit
  <2>2. \A b \in LargeAmounts : largeDeposits'[<<w, b>>] = largeDeposits[<<w, b>>]
    BY <1>5, <2>1 DEF AdmitDeposit, PassTravelRule, ComplianceTypeOK
  <2>3. QED
    BY <1>5, <2>2 DEF AdmitDeposit
<1>6. QED
  BY <1>1, <1>2, <1>3, <1>4, <1>5 DEF ComplianceNext

(* A credential that was revoked or that expired never passes again, and its wallet makes no   *)
(* further large deposit.                                                                      *)
THEOREM LapseIsAlwaysFinal == ComplianceSpec => LapseIsFinal
<1>1. ComplianceTypeOK /\ [ComplianceNext]_complianceVars
      => [\A w \in Wallets : Lapsed(w) => StaysLapsed(w)]_complianceVars
  BY LapseStep
<1>2. QED
  BY <1>1, ComplianceTypeCorrect, PTL DEF ComplianceSpec, LapseIsFinal

(* A gate that is taken over in any state with its records in order, and not only one that is   *)
(* opened empty, keeps them in order, and a lapse is final in it.                              *)
THEOREM GateTakenOver ==
    /\ ComplianceTypeOK /\ RecordsFiledByPayer /\ TravelRuleCovered
    /\ [][ComplianceNext]_complianceVars
    => [](ComplianceTypeOK /\ RecordsFiledByPayer /\ TravelRuleCovered) /\ LapseIsFinal
<1> DEFINE InOrder == ComplianceTypeOK /\ RecordsFiledByPayer /\ TravelRuleCovered
<1>1. InOrder /\ [ComplianceNext]_complianceVars => InOrder'
  BY ComplianceTypeStep, RecordsFiledStep, TravelRuleStep
<1>2. InOrder /\ [ComplianceNext]_complianceVars
      => [\A w \in Wallets : Lapsed(w) => StaysLapsed(w)]_complianceVars
  BY LapseStep
<1>3. QED
  BY <1>1, <1>2, PTL DEF LapseIsFinal
=============================================================================
