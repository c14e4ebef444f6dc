------------------------- MODULE OragamiVaultProofs -------------------------
(***************************************************************************)
(* Theorems about the oragami-vault program as a whole, for any wallets,   *)
(* amounts, prices, rates, reports and times.  The program refines each of *)
(* its four components, so that what is proved of the components alone     *)
(* holds of the program; two properties that no component can state follow *)
(* from it.                                                                *)
(***************************************************************************)
EXTENDS OragamiVault, TLAPS

GateP     == INSTANCE ComplianceProofs WITH DepositAmounts <- Amounts
LedgerP   == INSTANCE ShareLedgerProofs
AccountsP == INSTANCE YieldReserveProofs WITH Books <- 0 .. MaxU64

(* The assumptions that the components make about their constants. *)
LEMMA GateConstants ==
    /\ NoAccount \notin Wallets /\ MaxU64 \in Nat \ {0} /\ MaxTime \in Nat
    /\ Amounts \subseteq Nat
    /\ TravelRuleThreshold \in Nat \ {0}
    /\ GateP!IsFiniteSet(Nonces) /\ NoAccount \notin Wallets \X Nonces
    /\ NoAccount \notin GateP!Credential \cup GateP!TravelRuleData
  <1>1. Gate!Credential = GateP!Credential /\ Gate!TravelRuleData = GateP!TravelRuleData
    BY DEF Gate!Credential, GateP!Credential, Gate!ExpiryDates, GateP!ExpiryDates,
           Gate!TravelRuleData, GateP!TravelRuleData
  <1>2. Amounts \subseteq Nat
    BY MoneyAssumption, MaxU64Assumption
  <1>3. GateP!IsFiniteSet(Nonces)
    BY GateAssumption DEF IsFiniteSet, GateP!IsFiniteSet
  <1>4. QED
    BY <1>1, <1>2, <1>3, WalletsAssumption, MaxU64Assumption, MaxTimeAssumption,
       GateAssumption, AccountsAssumption

LEMMA LedgerConstants ==
    /\ NoAccount \notin Wallets /\ MaxU64 \in Nat \ {0}
    /\ VaultAccount \notin Wallets
    /\ Denominator \in Nat \ {0} /\ LedgerP!FitsU64(Denominator)
    /\ InitialUsdc \in Nat
    /\ Amounts \subseteq 0 .. MaxU64 /\ NavPrices \subseteq 0 .. MaxU64
    /\ DepositLimits \subseteq 0 .. MaxU64
  BY WalletsAssumption, MaxU64Assumption, MoneyAssumption DEF FitsU64, LedgerP!FitsU64

LEMMA AccountConstants ==
    /\ NoAccount \notin Wallets /\ MaxU64 \in Nat \ {0} /\ MaxTime \in Nat
    /\ BpsWhole \in Nat \ {0}
    /\ SecondsInDay \in Nat \ {0} /\ DaysPerYear \in Nat \ {0}
    /\ Allocations \subseteq Nat /\ Rates \subseteq Nat /\ 0 .. MaxU64 \subseteq Nat
    /\ 0 \in 0 .. MaxU64
    /\ MandateShares \subseteq Nat /\ CollateralRatios \subseteq Nat
    /\ MaxAttestationAge \in Nat
    /\ NoAccount \notin AccountsP!RwaAssetRegistry \cup AccountsP!VaultMandate
                           \cup AccountsP!ReserveAttestation
  <1>1. /\ Backing!RwaAssetRegistry = AccountsP!RwaAssetRegistry
        /\ Backing!VaultMandate = AccountsP!VaultMandate
        /\ Backing!ReserveAttestation = AccountsP!ReserveAttestation
    BY DEF Backing!RwaAssetRegistry, AccountsP!RwaAssetRegistry, Backing!VaultMandate,
           AccountsP!VaultMandate, Backing!ReserveAttestation, AccountsP!ReserveAttestation,
           Backing!Times, AccountsP!Times
  <1>2. 0 .. MaxU64 \subseteq Nat /\ 0 \in 0 .. MaxU64 /\ MandateShares \subseteq Nat
    BY MaxU64Assumption, YieldAssumption, SharesAreAllocations
  <1>3. QED
    BY <1>1, <1>2, WalletsAssumption, MaxU64Assumption, MaxTimeAssumption, BpsWholeAssumption,
       YieldAssumption, ReserveAssumption, AccountsAssumption

-----------------------------------------------------------------------------
(* An instance of a proof module is the same specification as the instance of its component.   *)
LEMMA SameGate == Gate!ComplianceSpec => GateP!ComplianceSpec
<1>1. Gate!ComplianceInit => GateP!ComplianceInit
  BY DEF Gate!ComplianceInit, GateP!ComplianceInit, Gate!RecordAddresses,
         GateP!RecordAddresses, Gate!LargeAmounts, GateP!LargeAmounts
<1>2. [Gate!ComplianceNext]_(Gate!complianceVars)
      => [GateP!ComplianceNext]_(GateP!complianceVars)
  BY DEF Gate!ComplianceNext, GateP!ComplianceNext, Gate!complianceVars, GateP!complianceVars,
         Gate!Tick, GateP!Tick, Gate!Times, GateP!Times, Gate!ExpiryDates, GateP!ExpiryDates,
         Gate!IssueCredential, GateP!IssueCredential, Gate!CanIssue, GateP!CanIssue,
         Gate!RevokeCredential, GateP!RevokeCredential,
         Gate!InitTravelRule, GateP!InitTravelRule, Gate!AdmitDeposit, GateP!AdmitDeposit,
         Gate!CredentialPasses, GateP!CredentialPasses,
         Gate!PassTravelRule, GateP!PassTravelRule, Gate!RecordCovers, GateP!RecordCovers,
         Gate!ConsumeRecord, GateP!ConsumeRecord, Gate!RecordAddresses, GateP!RecordAddresses
<1>3. QED
  BY <1>1, <1>2, PTL DEF Gate!ComplianceSpec, GateP!ComplianceSpec

LEMMA SameLedger == Ledger!LedgerSpec => LedgerP!LedgerSpec
<1>1. Ledger!LedgerInit => LedgerP!LedgerInit
  BY DEF Ledger!LedgerInit, LedgerP!LedgerInit, Ledger!Destinations, LedgerP!Destinations
<1>2. Ledger!Instructions => LedgerP!Instructions
  BY DEF Ledger!Instructions, LedgerP!Instructions, Ledger!Destinations, LedgerP!Destinations,
         Ledger!configVars, LedgerP!configVars, Ledger!SaturatingSub, LedgerP!SaturatingSub,
         Ledger!BookDeposit, LedgerP!BookDeposit, Ledger!FitsU64, LedgerP!FitsU64,
         Ledger!SharesMinted, LedgerP!SharesMinted, Ledger!Payout, LedgerP!Payout,
         Ledger!Credit, LedgerP!Credit, Ledger!Debit, LedgerP!Debit, Ledger!Move, LedgerP!Move,
         Ledger!MintCvault, LedgerP!MintCvault, Ledger!BurnCvault, LedgerP!BurnCvault,
         Ledger!MintTrade, LedgerP!MintTrade, Ledger!BurnTrade, LedgerP!BurnTrade,
         Ledger!VaultCanPay, LedgerP!VaultCanPay, Ledger!WriteOff, LedgerP!WriteOff,
         Ledger!SupplyAllows, LedgerP!SupplyAllows, Ledger!Redeem, LedgerP!Redeem,
         Ledger!RedeemTradeable, LedgerP!RedeemTradeable,
         Ledger!ConvertToTradeable, LedgerP!ConvertToTradeable,
         Ledger!RewrapTradeable, LedgerP!RewrapTradeable
<1>3. Ledger!Administration => LedgerP!Administration
  BY DEF Ledger!Administration, LedgerP!Administration, Ledger!SetNav, LedgerP!SetNav,
         Ledger!FitsU64, LedgerP!FitsU64, Ledger!SaturatingSub, LedgerP!SaturatingSub,
         Ledger!SetPause, LedgerP!SetPause, Ledger!UpdateLimits, LedgerP!UpdateLimits,
         Ledger!configVars, LedgerP!configVars, Ledger!shareVars, LedgerP!shareVars
<1>4. Ledger!TokenHolders => LedgerP!TokenHolders
  BY DEF Ledger!TokenHolders, LedgerP!TokenHolders, Ledger!Destinations, LedgerP!Destinations,
         Ledger!configVars, LedgerP!configVars, Ledger!shareVars, LedgerP!shareVars,
         Ledger!Credit, LedgerP!Credit, Ledger!Debit, LedgerP!Debit, Ledger!Move, LedgerP!Move,
         Ledger!BurnCvault, LedgerP!BurnCvault, Ledger!BurnTrade, LedgerP!BurnTrade,
         Ledger!TransferUsdc, LedgerP!TransferUsdc,
         Ledger!TransferCvault, LedgerP!TransferCvault,
         Ledger!TransferTrade, LedgerP!TransferTrade,
         Ledger!DiscardCvault, LedgerP!DiscardCvault,
         Ledger!DiscardTrade, LedgerP!DiscardTrade
<1>5. [Ledger!LedgerNext]_(Ledger!ledgerVars) => [LedgerP!LedgerNext]_(LedgerP!ledgerVars)
  <2>1. Ledger!ledgerVars = LedgerP!ledgerVars /\ Ledger!ledgerVars' = LedgerP!ledgerVars'
    BY DEF Ledger!ledgerVars, LedgerP!ledgerVars, Ledger!configVars, LedgerP!configVars,
           Ledger!shareVars, LedgerP!shareVars
  <2>2. QED
    BY <1>2, <1>3, <1>4, <2>1 DEF Ledger!LedgerNext, LedgerP!LedgerNext
<1>6. QED
  BY <1>1, <1>5, PTL DEF Ledger!LedgerSpec, LedgerP!LedgerSpec

LEMMA SameYield == Yield!YieldSpec => AccountsP!YieldSpec
<1>1. Yield!YieldInit => AccountsP!YieldInit
  BY DEF Yield!YieldInit, AccountsP!YieldInit
<1>2. [Yield!YieldNext]_(Yield!yieldVars) => [AccountsP!YieldNext]_(AccountsP!yieldVars)
  BY DEF Yield!YieldNext, AccountsP!YieldNext, Yield!yieldVars, AccountsP!yieldVars,
         Yield!rateVars, AccountsP!rateVars, Yield!accrualVars, AccountsP!accrualVars,
         Yield!Tick, AccountsP!Tick, Yield!BooksMove, AccountsP!BooksMove,
         Yield!YieldInstruction, AccountsP!YieldInstruction,
         Yield!ProcessYield, AccountsP!ProcessYield, Yield!DaysElapsed, AccountsP!DaysElapsed,
         Yield!YieldFits, AccountsP!YieldFits, Yield!FitsU64, AccountsP!FitsU64,
         Yield!Allocated, AccountsP!Allocated, Yield!DailyYield, AccountsP!DailyYield,
         Yield!AdvanceClaim, AccountsP!AdvanceClaim,
         Yield!DistributeYield, AccountsP!DistributeYield,
         Yield!SyncYield, AccountsP!SyncYield, Yield!UpdateRates, AccountsP!UpdateRates
<1>3. QED
  BY <1>1, <1>2, PTL DEF Yield!YieldSpec, AccountsP!YieldSpec

LEMMA SameReserve == Backing!ReserveSpec => AccountsP!ReserveSpec
<1>1. Backing!ReserveInit => AccountsP!ReserveInit
  BY DEF Backing!ReserveInit, AccountsP!ReserveInit
<1>2. [Backing!ReserveNext]_<<now, Backing!reserveVars>>
      => [AccountsP!ReserveNext]_<<now, AccountsP!reserveVars>>
  BY DEF Backing!ReserveNext, AccountsP!ReserveNext, Backing!reserveVars, AccountsP!reserveVars,
         Backing!Tick, AccountsP!Tick,
         Backing!ReserveInstruction, AccountsP!ReserveInstruction,
         Backing!InitRegistry, AccountsP!InitRegistry,
         Backing!UpdateRegistry, AccountsP!UpdateRegistry,
         Backing!StampRegistry, AccountsP!StampRegistry,
         Backing!InitMandate, AccountsP!InitMandate,
         Backing!SetEnforcement, AccountsP!SetEnforcement,
         Backing!PostAttestation, AccountsP!PostAttestation,
         Backing!RegisterUsxAccounts, AccountsP!RegisterUsxAccounts
<1>3. QED
  BY <1>1, <1>2, PTL DEF Backing!ReserveSpec, AccountsP!ReserveSpec

-----------------------------------------------------------------------------
(* What a step of the program is to each component: one of its own steps, or none.             *)
LEMMA GateStep == [Next]_vars => [Gate!ComplianceNext]_(Gate!complianceVars)
<1> SUFFICES ASSUME Next \/ UNCHANGED vars
             PROVE  Gate!ComplianceNext \/ UNCHANGED <<now, gateVars>>
  BY DEF Gate!complianceVars, gateVars
<1>1. CASE UNCHANGED vars
  BY <1>1 DEF vars
<1>2. CASE Tick /\ UNCHANGED <<gateVars, ledgerVars, yieldVars, reserveVars>>
  BY <1>2 DEF Gate!ComplianceNext, Gate!Tick, Tick, gateVars
<1>3. CASE GateInstruction
  BY <1>3 DEF GateInstruction, Gate!ComplianceNext, Times, Gate!Times
<1>4. ASSUME NEW payer \in Wallets, NEW recipient \in Wallets, NEW a \in Amounts,
             NEW record \in Gate!RecordAddresses \cup {NoAccount},
             Deposit(payer, recipient, a, record)
      PROVE  Gate!ComplianceNext
  BY <1>4 DEF Deposit, Gate!ComplianceNext
<1>5. CASE ShareInstruction
  BY <1>5 DEF ShareInstruction
<1>6. ASSUME NEW price \in NavPrices, SetNav(price) PROVE UNCHANGED <<now, gateVars>>
  BY <1>6 DEF SetNav
<1>7. ASSUME NEW min \in DepositLimits, NEW max \in DepositLimits, NEW enabled \in BOOLEAN,
             NEW a \in Allocations, NEW r \in Rates, NEW cap \in MandateCaps,
             UpdateConfig(min, max, enabled, a, r, cap)
      PROVE  UNCHANGED <<now, gateVars>>
  BY <1>7 DEF UpdateConfig
<1>8. CASE YieldInstruction \/ ReserveInstruction
  BY <1>8 DEF YieldInstruction, ReserveInstruction
<1>9. QED
  BY <1>1, <1>2, <1>3, <1>4, <1>5, <1>6, <1>7, <1>8 DEF Next

LEMMA LedgerStep == [Next]_vars => [Ledger!LedgerNext]_(Ledger!ledgerVars)
<1> SUFFICES ASSUME Next \/ UNCHANGED vars
             PROVE  Ledger!LedgerNext \/ UNCHANGED ledgerVars
  BY DEF Ledger!ledgerVars, Ledger!configVars, Ledger!shareVars, ledgerVars
<1>1. CASE \/ UNCHANGED vars
           \/ Tick /\ UNCHANGED <<gateVars, ledgerVars, yieldVars, reserveVars>>
           \/ GateInstruction \/ YieldInstruction \/ ReserveInstruction
  BY <1>1 DEF vars, GateInstruction, YieldInstruction, ReserveInstruction
<1>2. ASSUME NEW payer \in Wallets, NEW recipient \in Wallets, NEW a \in Amounts,
             NEW record \in Gate!RecordAddresses \cup {NoAccount},
             Deposit(payer, recipient, a, record)
      PROVE  Ledger!LedgerNext
  BY <1>2 DEF Deposit, Ledger!LedgerNext, Ledger!Instructions
<1>3. CASE ShareInstruction
  BY <1>3 DEF ShareInstruction, Ledger!LedgerNext, Ledger!Instructions, Ledger!Administration
<1>4. ASSUME NEW price \in NavPrices, SetNav(price) PROVE Ledger!LedgerNext
  BY <1>4 DEF SetNav, Ledger!LedgerNext, Ledger!Administration
<1>5. ASSUME NEW min \in DepositLimits, NEW max \in DepositLimits, NEW enabled \in BOOLEAN,
             NEW a \in Allocations, NEW r \in Rates, NEW cap \in MandateCaps,
             UpdateConfig(min, max, enabled, a, r, cap)
      PROVE  Ledger!LedgerNext
  BY <1>5 DEF UpdateConfig, Ledger!LedgerNext, Ledger!Administration
<1>6. QED
  BY <1>1, <1>2, <1>3, <1>4, <1>5 DEF Next

LEMMA ReserveStep == [Next]_vars => [Backing!ReserveNext]_<<now, Backing!reserveVars>>
<1> SUFFICES ASSUME Next \/ UNCHANGED vars
             PROVE  Backing!ReserveNext \/ UNCHANGED <<now, reserveVars>>
  BY DEF Backing!reserveVars, reserveVars
<1>1. CASE UNCHANGED vars \/ GateInstruction \/ ShareInstruction \/ YieldInstruction
  BY <1>1 DEF vars, GateInstruction, ShareInstruction, YieldInstruction
<1>2. CASE Tick /\ UNCHANGED <<gateVars, ledgerVars, yieldVars, reserveVars>>
  BY <1>2 DEF Backing!ReserveNext, Backing!Tick, Tick, Backing!reserveVars, reserveVars
<1>3. ASSUME NEW payer \in Wallets, NEW recipient \in Wallets, NEW a \in Amounts,
             NEW record \in Gate!RecordAddresses \cup {NoAccount},
             Deposit(payer, recipient, a, record)
      PROVE  UNCHANGED <<now, reserveVars>>
  BY <1>3 DEF Deposit
<1>4. ASSUME NEW price \in NavPrices, SetNav(price) PROVE Backing!ReserveNext
  BY <1>4 DEF SetNav, Backing!ReserveNext, Backing!ReserveInstruction
<1>5. ASSUME NEW min \in DepositLimits, NEW max \in DepositLimits, NEW enabled \in BOOLEAN,
             NEW a \in Allocations, NEW r \in Rates, NEW cap \in MandateCaps,
             UpdateConfig(min, max, enabled, a, r, cap)
      PROVE  UNCHANGED <<now, reserveVars>>
  BY <1>5 DEF UpdateConfig
<1>6. CASE ReserveInstruction
  BY <1>6 DEF ReserveInstruction, Backing!ReserveNext, Backing!ReserveInstruction
<1>7. QED
  BY <1>1, <1>2, <1>3, <1>4, <1>5, <1>6 DEF Next

(* The yield component lets the books move to any u64 and caps an allocation by any other one: *)
(* that the ledger's books and the mandate's caps are no more than that is their type.         *)
LEMMA YieldStep ==
    ASSUME totalDeposits' \in 0 .. MaxU64, Backing!ReserveTypeOK, [Next]_vars
    PROVE  [Yield!YieldNext]_(Yield!yieldVars)
<1> SUFFICES Yield!YieldNext \/ UNCHANGED <<now, totalDeposits, yieldVars>>
  BY DEF Yield!yieldVars, Yield!rateVars, Yield!accrualVars, yieldVars
<1>1. CASE UNCHANGED vars \/ GateInstruction \/ ReserveInstruction
  BY <1>1 DEF vars, ledgerVars, GateInstruction, ReserveInstruction
<1>2. CASE Tick /\ UNCHANGED <<gateVars, ledgerVars, yieldVars, reserveVars>>
  BY <1>2 DEF Yield!YieldNext, Yield!Tick, Tick, Yield!rateVars, Yield!accrualVars, yieldVars,
              ledgerVars
<1>3. CASE UNCHANGED <<now, yieldVars>>
  BY <1>3 DEF Yield!YieldNext, Yield!BooksMove, Yield!rateVars, Yield!accrualVars, yieldVars
<1>4. ASSUME NEW payer \in Wallets, NEW recipient \in Wallets, NEW a \in Amounts,
             NEW record \in Gate!RecordAddresses \cup {NoAccount},
             Deposit(payer, recipient, a, record)
      PROVE  UNCHANGED <<now, yieldVars>>
  BY <1>4 DEF Deposit
<1>5. CASE ShareInstruction
  BY <1>3, <1>5 DEF ShareInstruction
<1>6. ASSUME NEW price \in NavPrices, SetNav(price) PROVE UNCHANGED <<now, yieldVars>>
  BY <1>6 DEF SetNav
<1>7. ASSUME NEW min \in DepositLimits, NEW max \in DepositLimits, NEW enabled \in BOOLEAN,
             NEW a \in Allocations, NEW r \in Rates, NEW cap \in MandateCaps,
             UpdateConfig(min, max, enabled, a, r, cap)
      PROVE  Yield!YieldNext
  <2>1. cap \in Allocations \cup {NoAccount}
    BY SharesAreAllocations DEF MandateCaps, Backing!ReserveTypeOK, Backing!VaultMandate
  <2>2. UNCHANGED <<now, totalDeposits>>
    BY <1>7 DEF UpdateConfig, Ledger!UpdateLimits
  <2>3. QED
    BY <1>7, <2>1, <2>2 DEF UpdateConfig, Yield!YieldNext, Yield!YieldInstruction
<1>8. CASE YieldInstruction
  BY <1>8 DEF YieldInstruction, ledgerVars, Yield!YieldNext, Yield!YieldInstruction
<1>9. QED
  BY <1>1, <1>2, <1>3, <1>4, <1>5, <1>6, <1>7, <1>8 DEF Next

-----------------------------------------------------------------------------
LEMMA RefinesGate == Spec => Gate!ComplianceSpec
<1>1. Init => Gate!ComplianceInit
  BY DEF Init
<1>2. QED
  BY <1>1, GateStep, PTL DEF Spec, Gate!ComplianceSpec

LEMMA RefinesLedger == Spec => Ledger!LedgerSpec
<1>1. Init => Ledger!LedgerInit
  BY DEF Init
<1>2. QED
  BY <1>1, LedgerStep, PTL DEF Spec, Ledger!LedgerSpec

LEMMA RefinesReserve == Spec => Backing!ReserveSpec
<1>1. Init => Backing!ReserveInit
  BY DEF Init
<1>2. QED
  BY <1>1, ReserveStep, PTL DEF Spec, Backing!ReserveSpec

(* The types of the ledger and of the reserve, in the whole program. *)
LEMMA LedgerTyped == Spec => []Ledger!LedgerTypeOK
<1>1. LedgerP!LedgerSpec => []LedgerP!LedgerTypeOK
  BY LedgerP!LedgerTypeCorrect, LedgerConstants
<1>2. LedgerP!LedgerTypeOK => Ledger!LedgerTypeOK
  BY DEF LedgerP!LedgerTypeOK, Ledger!LedgerTypeOK, LedgerP!Destinations, Ledger!Destinations
<1>3. QED
  BY <1>1, <1>2, RefinesLedger, SameLedger, PTL

LEMMA ReserveTyped == Spec => []Backing!ReserveTypeOK
<1>1. AccountsP!ReserveSpec => []AccountsP!ReserveTypeOK
  BY AccountsP!ReserveTypeCorrect, AccountConstants
<1>2. AccountsP!ReserveTypeOK => Backing!ReserveTypeOK
  BY DEF AccountsP!ReserveTypeOK, Backing!ReserveTypeOK, AccountsP!Times, Backing!Times,
         AccountsP!RwaAssetRegistry, Backing!RwaAssetRegistry, AccountsP!VaultMandate,
         Backing!VaultMandate, AccountsP!ReserveAttestation, Backing!ReserveAttestation
<1>3. QED
  BY <1>1, <1>2, RefinesReserve, SameReserve, PTL

LEMMA RefinesYield == Spec => Yield!YieldSpec
<1>1. Init => Yield!YieldInit
  BY DEF Init
<1>2. Ledger!LedgerTypeOK' /\ Backing!ReserveTypeOK /\ [Next]_vars
      => [Yield!YieldNext]_(Yield!yieldVars)
  BY YieldStep DEF Ledger!LedgerTypeOK
<1>3. QED
  BY <1>1, <1>2, LedgerTyped, ReserveTyped, PTL DEF Spec, Yield!YieldSpec

(* RefinesComponents: whatever instructions are combined, the compliance gate, the share       *)
(* ledger, the yield accounting and the reserve each see only steps of their own.              *)
THEOREM ComponentsRefined == Spec => RefinesComponents
  BY RefinesGate, RefinesLedger, RefinesYield, RefinesReserve, PTL DEF RefinesComponents

-----------------------------------------------------------------------------
(* What is proved of the components, of the whole program.                                     *)

(* Gate!TravelRuleCovered: whatever else the program does between them, every large deposit    *)
(* uses up a record of its own.                                                                *)
THEOREM RecordsCoverDeposits == Spec => []Gate!TravelRuleCovered
<1>1. GateP!ComplianceSpec => []GateP!TravelRuleCovered
  BY GateP!TravelRuleAlwaysCovered, GateConstants
<1>2. GateP!TravelRuleCovered => Gate!TravelRuleCovered
  BY DEF GateP!TravelRuleCovered, Gate!TravelRuleCovered, GateP!ConsumedNonces,
         Gate!ConsumedNonces, GateP!LargeAmounts, Gate!LargeAmounts, GateP!Cardinality,
         Gate!Cardinality
<1>3. QED
  BY <1>1, <1>2, RefinesGate, SameGate, PTL

(* Gate!LapseIsFinal: no instruction of any component gives a lapsed wallet its way back.      *)
LEMMA LapseFinalInGate == Gate!ComplianceSpec => Gate!LapseIsFinal
<1>1. GateP!ComplianceSpec => GateP!LapseIsFinal
  BY GateP!LapseIsAlwaysFinal, GateConstants
<1>2. [\A w \in Wallets : GateP!Lapsed(w) => GateP!StaysLapsed(w)]_(GateP!complianceVars)
      => [\A w \in Wallets : Gate!Lapsed(w) => Gate!StaysLapsed(w)]_(Gate!complianceVars)
  BY DEF GateP!Lapsed, Gate!Lapsed, GateP!CredentialPasses, Gate!CredentialPasses,
         GateP!StaysLapsed, Gate!StaysLapsed, GateP!LargeAmounts, Gate!LargeAmounts,
         GateP!complianceVars, Gate!complianceVars
<1>3. QED
  BY <1>1, <1>2, SameGate, PTL DEF GateP!LapseIsFinal, Gate!LapseIsFinal

THEOREM LapseFinalInProgram == Spec => Gate!LapseIsFinal
  BY LapseFinalInGate, RefinesGate, PTL

(* Ledger!BackedDeposits and Ledger!SupplyCovered: the money on the books is there and every   *)
(* share is counted, also where deposits pass the gate and set_nav stamps the registry.        *)
THEOREM BooksBackedInProgram == Spec => [](Ledger!BackedDeposits /\ Ledger!SupplyCovered)
<1>1. LedgerP!LedgerSpec => []LedgerP!BackedDeposits /\ []LedgerP!SupplyCovered
  BY LedgerP!DepositsAlwaysBacked, LedgerP!SupplyAlwaysCovered, LedgerConstants
<1>2. /\ LedgerP!BackedDeposits => Ledger!BackedDeposits
      /\ LedgerP!SupplyCovered => Ledger!SupplyCovered
  BY DEF LedgerP!BackedDeposits, Ledger!BackedDeposits, LedgerP!SupplyCovered,
         Ledger!SupplyCovered, LedgerP!OutstandingShares, Ledger!OutstandingShares
<1>3. QED
  BY <1>1, <1>2, RefinesLedger, SameLedger, PTL

(* Ledger!ImplementsNavPool and Ledger!RoundingFavoursVault: the whole program is a NAV-priced *)
(* pool, whose rounding is never in the user's favour.                                         *)
THEOREM ProgramImplementsPool == Spec => Ledger!ImplementsNavPool /\ Ledger!RoundingFavoursVault
<1>1. LedgerP!LedgerSpec => LedgerP!ImplementsNavPool /\ LedgerP!RoundingFavoursVault
  BY LedgerP!LedgerImplementsPool, LedgerP!RoundingAlwaysFavoursVault, LedgerConstants
<1>2. LedgerP!Pool!PoolInit => Ledger!Pool!PoolInit
  BY DEF LedgerP!Pool!PoolInit, Ledger!Pool!PoolInit, LedgerP!OutstandingShares,
         Ledger!OutstandingShares
<1>3. [LedgerP!Pool!PoolNext]_(LedgerP!Pool!poolVars)
      => [Ledger!Pool!PoolNext]_(Ledger!Pool!poolVars)
  BY DEF LedgerP!Pool!PoolNext, Ledger!Pool!PoolNext, LedgerP!Pool!poolVars,
         Ledger!Pool!poolVars, LedgerP!OutstandingShares, Ledger!OutstandingShares,
         LedgerP!Pool!SharesFor, Ledger!Pool!SharesFor,
         LedgerP!Pool!MoneyFor, Ledger!Pool!MoneyFor, LedgerP!Pool!WriteOff,
         Ledger!Pool!WriteOff, LedgerP!Pool!Subscribe, Ledger!Pool!Subscribe,
         LedgerP!Pool!PayOut, Ledger!Pool!PayOut, LedgerP!Pool!Return, Ledger!Pool!Return,
         LedgerP!Pool!Donate, Ledger!Pool!Donate, LedgerP!Pool!Forfeit, Ledger!Pool!Forfeit,
         LedgerP!Pool!Reprice, Ledger!Pool!Reprice
<1>4. LedgerP!RoundingFavoursVault => Ledger!RoundingFavoursVault
  BY DEF LedgerP!RoundingFavoursVault, Ledger!RoundingFavoursVault,
         LedgerP!OutstandingShares, Ledger!OutstandingShares, LedgerP!ledgerVars,
         Ledger!ledgerVars, LedgerP!configVars, Ledger!configVars, LedgerP!shareVars,
         Ledger!shareVars
<1>5. QED
  BY <1>1, <1>2, <1>3, <1>4, RefinesLedger, SameLedger, PTL
     DEF LedgerP!ImplementsNavPool, Ledger!ImplementsNavPool, LedgerP!Pool!PoolSpec,
         Ledger!Pool!PoolSpec

(* Ledger!OnlyRisesCostSolvency: a program that could pay every holder still can after any of its *)
(* instructions and any transfer, unless set_nav has raised the NAV.                           *)
THEOREM SolvencyLostByRisesOnly == Spec => Ledger!OnlyRisesCostSolvency
<1>1. LedgerP!LedgerSpec => LedgerP!OnlyRisesCostSolvency
  BY LedgerP!OnlyRisesEverCostSolvency, LedgerConstants
<1>2. LedgerP!OnlyRisesCostSolvency => Ledger!OnlyRisesCostSolvency
  BY DEF LedgerP!OnlyRisesCostSolvency, Ledger!OnlyRisesCostSolvency, LedgerP!Solvent,
         Ledger!Solvent, LedgerP!OutstandingShares, Ledger!OutstandingShares,
         LedgerP!ledgerVars, Ledger!ledgerVars, LedgerP!configVars, Ledger!configVars,
         LedgerP!shareVars, Ledger!shareVars
<1>3. QED
  BY <1>1, <1>2, RefinesLedger, SameLedger, PTL

(* Yield!NoDoubleAccrual and Yield!YieldWithinEarnings: no day is credited twice and no yield  *)
(* is made up, on the books as deposits and redemptions really move them.                      *)
THEOREM YieldEarnedInProgram == Spec => [](Yield!NoDoubleAccrual /\ Yield!YieldWithinEarnings)
<1>1. AccountsP!YieldSpec => []AccountsP!NoDoubleAccrual /\ []AccountsP!YieldWithinEarnings
  BY AccountsP!NoDayCreditedTwice, AccountsP!YieldNeverExceedsEarnings, AccountConstants
<1>2. /\ AccountsP!NoDoubleAccrual => Yield!NoDoubleAccrual
      /\ AccountsP!YieldWithinEarnings => Yield!YieldWithinEarnings
  BY DEF AccountsP!NoDoubleAccrual, Yield!NoDoubleAccrual, AccountsP!YieldWithinEarnings,
         Yield!YieldWithinEarnings
<1>3. QED
  BY <1>1, <1>2, RefinesYield, SameYield, PTL

(* Backing!MismatchMeansRefresh: also when set_nav stamps the registry.                        *)
THEOREM MismatchInProgram == Spec => []Backing!MismatchMeansRefresh
<1>1. AccountsP!ReserveSpec => []AccountsP!MismatchMeansRefresh
  BY AccountsP!MismatchAlwaysMeansRefresh, AccountConstants
<1>2. AccountsP!MismatchMeansRefresh => Backing!MismatchMeansRefresh
  BY DEF AccountsP!MismatchMeansRefresh, Backing!MismatchMeansRefresh
<1>3. QED
  BY <1>1, <1>2, RefinesReserve, SameReserve, PTL

-----------------------------------------------------------------------------
(* At a ratio of at most the whole, the books are covered by the money they are backed with,   *)
(* and ask for no larger a product than it does.                                               *)
LEMMA BackedIsCovered ==
    ASSUME NEW held \in Nat, NEW more \in Nat, NEW booked \in Nat, NEW ratio \in Nat,
           booked <= held, ratio <= BpsWhole
    PROVE  /\ (held + more) * BpsWhole >= booked * ratio
           /\ FitsU64((held + more) * BpsWhole) => FitsU64(booked * ratio)
<1>1. BpsWhole \in Nat /\ MaxU64 \in Nat
  BY BpsWholeAssumption, MaxU64Assumption
<1>2. held <= held + more /\ held + more \in Nat /\ booked <= held + more
  OBVIOUS
<1>3. booked * BpsWhole <= (held + more) * BpsWhole
  BY <1>1, <1>2, AccountsP!ProductIsMonotone, AccountConstants
<1>4. ratio * booked <= BpsWhole * booked
  BY <1>1, AccountsP!ProductIsMonotone, AccountConstants
<1>5. /\ booked * ratio \in Nat /\ booked * BpsWhole \in Nat
      /\ (held + more) * BpsWhole \in Nat
      /\ booked * ratio = ratio * booked /\ BpsWhole * booked = booked * BpsWhole
  BY <1>1, <1>2
<1> HIDE <1>1
<1>6. booked * ratio <= (held + more) * BpsWhole
  BY <1>3, <1>4, <1>5
<1>7. QED
  BY <1>1, <1>5, <1>6 DEF FitsU64

(* NoProofFailsForMoney: at a mandate of at most full cover the proof of reserve never fails    *)
(* for want of money or for a wrong report: only for an attestation that is stale or outdated, *)
(* for an account left out, or for more assets than the program can multiply.                  *)
THEOREM ProofNeverFailsForMoney == Spec => []NoProofFailsForMoney
<1>1. Ledger!LedgerTypeOK /\ Ledger!BackedDeposits
      => usdc[VaultAccount] \in Nat /\ totalDeposits \in Nat
            /\ totalDeposits <= usdc[VaultAccount]
  BY MaxU64Assumption DEF Ledger!LedgerTypeOK, Ledger!BackedDeposits, Ledger!Destinations
<1>2. Ledger!LedgerTypeOK /\ Ledger!BackedDeposits /\ Backing!ReserveTypeOK
         /\ Backing!MismatchMeansRefresh
      => NoProofFailsForMoney
  <2> SUFFICES ASSUME Ledger!LedgerTypeOK, Ledger!BackedDeposits, Backing!ReserveTypeOK,
                      Backing!MismatchMeansRefresh,
                      NEW yieldHeld \in Backing!YieldBalances, NEW passed \in SUBSET YieldAccounts,
                      mandate # NoAccount, mandate.minCollateralRatio <= BpsWhole,
                      attestation # NoAccount, Backing!AttestationFresh,
                      attestation.hash = registry.linkHash,
                      usxAccounts \subseteq passed,
                      FitsU64((usdc[VaultAccount] + yieldHeld) * BpsWhole)
               PROVE  Backing!ProofOfReserveHolds(usdc[VaultAccount], yieldHeld, totalDeposits,
                                                  passed)
    BY DEF NoProofFailsForMoney, Backing!MismatchMeansRefresh
  <2>1. mandate.minCollateralRatio \in Nat
    BY ReserveAssumption DEF Backing!ReserveTypeOK, Backing!VaultMandate
  <2>2. yieldHeld \in Nat
    BY MaxU64Assumption DEF Backing!YieldBalances
  <2>3. Backing!CollateralCovers(usdc[VaultAccount], yieldHeld, totalDeposits)
    BY <1>1, <2>1, <2>2, BackedIsCovered DEF Backing!CollateralCovers
  <2>4. Backing!ProofFits(usdc[VaultAccount], yieldHeld, totalDeposits)
    BY <1>1, <2>1, <2>2, BackedIsCovered DEF Backing!ProofFits, Backing!FitsU64, FitsU64
  <2>5. QED
    BY <2>3, <2>4 DEF Backing!ProofOfReserveHolds, Backing!MismatchMeansRefresh
<1>3. QED
  BY <1>2, LedgerTyped, ReserveTyped, BooksBackedInProgram, MismatchInProgram, PTL

-----------------------------------------------------------------------------
(* Nothing but a deposit adds to the books. *)
LEMMA OnlyDepositsBook ==
    ASSUME Ledger!LedgerTypeOK, Next,
           \A payer, recipient \in Wallets, a \in Amounts,
              record \in Gate!RecordAddresses \cup {NoAccount} :
                 ~Deposit(payer, recipient, a, record)
    PROVE  totalDeposits' <= totalDeposits
<1>1. totalDeposits \in Nat /\ nav \in Nat
  BY MaxU64Assumption DEF Ledger!LedgerTypeOK
<1>2. CASE UNCHANGED totalDeposits
  BY <1>1, <1>2
<1>3. CASE \/ Tick /\ UNCHANGED <<gateVars, ledgerVars, yieldVars, reserveVars>>
           \/ GateInstruction \/ YieldInstruction \/ ReserveInstruction
  BY <1>2, <1>3 DEF ledgerVars, GateInstruction, YieldInstruction, ReserveInstruction
<1>4. CASE ShareInstruction
  <2>1. ASSUME NEW a \in Amounts PROVE Ledger!Payout(a, nav) \in Nat
    <3>1. a \in Nat
      BY MoneyAssumption, MaxU64Assumption
    <3>2. LedgerP!Payout(a, nav) \in Nat
      BY <1>1, <3>1, LedgerP!PayoutRoundsDown, LedgerConstants
    <3>3. QED
      BY <3>2 DEF Ledger!Payout, LedgerP!Payout
  <2>2. ASSUME NEW w \in Wallets, NEW d \in Ledger!Destinations, NEW a \in Amounts,
               Ledger!Redeem(w, d, a)
        PROVE  totalDeposits' <= totalDeposits
    <3>1. totalDeposits' = Ledger!SaturatingSub(totalDeposits, Ledger!Payout(a, nav))
      BY <2>2 DEF Ledger!Redeem, Ledger!WriteOff
    <3>2. QED
      BY <1>1, <2>1, <3>1 DEF Ledger!SaturatingSub
  <2>3. ASSUME NEW w \in Wallets, NEW d \in Ledger!Destinations, NEW a \in Amounts,
               Ledger!RedeemTradeable(w, d, a)
        PROVE  totalDeposits' <= totalDeposits
    <3>1. totalDeposits' = totalDeposits - Ledger!Payout(a, nav)
      BY <2>3 DEF Ledger!RedeemTradeable
    <3>2. QED
      BY <1>1, <2>1, <3>1
  <2>4. ASSUME NEW w \in Wallets, NEW recipient \in Wallets, NEW a \in Amounts,
               Ledger!ConvertToTradeable(w, recipient, a)
                  \/ Ledger!RewrapTradeable(w, recipient, a)
        PROVE  UNCHANGED totalDeposits
    BY <2>4 DEF Ledger!ConvertToTradeable, Ledger!RewrapTradeable
  <2>5. ASSUME NEW pause \in BOOLEAN, Ledger!SetPause(pause) PROVE UNCHANGED totalDeposits
    BY <2>5 DEF Ledger!SetPause
  <2>6. Ledger!TokenHolders => UNCHANGED totalDeposits
    BY DEF Ledger!TokenHolders, Ledger!TransferUsdc, Ledger!TransferCvault,
           Ledger!TransferTrade, Ledger!DiscardCvault, Ledger!DiscardTrade
  <2>7. QED
    BY <1>2, <1>4, <2>2, <2>3, <2>4, <2>5, <2>6 DEF ShareInstruction
<1>5. ASSUME NEW price \in NavPrices, SetNav(price) PROVE UNCHANGED totalDeposits
  BY <1>5 DEF SetNav, Ledger!SetNav
<1>6. ASSUME NEW min \in DepositLimits, NEW max \in DepositLimits, NEW enabled \in BOOLEAN,
             NEW a \in Allocations, NEW r \in Rates, NEW cap \in MandateCaps,
             UpdateConfig(min, max, enabled, a, r, cap)
      PROVE  UNCHANGED totalDeposits
  BY <1>6 DEF UpdateConfig, Ledger!UpdateLimits
<1>7. QED
  BY <1>2, <1>3, <1>4, <1>5, <1>6 DEF Next

(* BooksRunDown: once every credential has lapsed, nothing is ever added to the books again.   *)
THEOREM BooksOnlyRunDown == Spec => BooksRunDown
<1>1. Ledger!LedgerTypeOK /\ [Next]_vars
         /\ [\A w \in Wallets : Gate!Lapsed(w) => Gate!StaysLapsed(w)]_(Gate!complianceVars)
      => [AllLapsed => AllLapsed' /\ totalDeposits' <= totalDeposits]_vars
  <2> SUFFICES ASSUME Ledger!LedgerTypeOK, Next, AllLapsed,
                      \/ \A w \in Wallets : Gate!Lapsed(w) => Gate!StaysLapsed(w)
                      \/ UNCHANGED Gate!complianceVars
               PROVE  AllLapsed' /\ totalDeposits' <= totalDeposits
    OBVIOUS
  <2>1. AllLapsed'
    BY DEF AllLapsed, Gate!StaysLapsed, Gate!complianceVars, Gate!Lapsed, Gate!CredentialPasses
  <2>2. ASSUME NEW payer \in Wallets, NEW recipient \in Wallets, NEW a \in Amounts,
               NEW record \in Gate!RecordAddresses \cup {NoAccount}
        PROVE  ~Deposit(payer, recipient, a, record)
    BY DEF AllLapsed, Gate!Lapsed, Deposit, Gate!AdmitDeposit
  <2>3. QED
    BY <2>1, <2>2, OnlyDepositsBook
<1>2. QED
  BY <1>1, LedgerTyped, LapseFinalInProgram, PTL DEF Spec, Gate!LapseIsFinal, BooksRunDown

-----------------------------------------------------------------------------
(* The preflight.  PreflightHonest says ENABLED, which no prover here takes; its two halves are   *)
(* proved without it: a refused deposit is no step, and a promised one has every guard granted *)
(* once the accounts take the values below, which any state has.                               *)
PromisedBy(told, read, w, amount, record) ==
    /\ told.canDeposit /\ told.estimatedCvault > 0
    /\ told.requiresTravelRule => Gate!RecordCovers(record, w, amount)
    /\ IF read THEN ~Gate!Lapsed(w) ELSE Gate!CredentialPasses(w)
    /\ minDeposit <= amount /\ amount <= maxDeposit
    /\ amount <= usdc[w]
    /\ FitsU64(amount * Denominator)
    /\ FitsU64(totalDeposits + amount) /\ FitsU64(totalSupply + told.estimatedCvault)

(* What `deposit` writes: a value of this state for every variable of the next one *)
DepositOutcome(payer, recipient, amount, record, minted) ==
    /\ travelRecord' = IF amount < TravelRuleThreshold THEN travelRecord
                       ELSE [travelRecord EXCEPT ![record].consumed = TRUE]
    /\ largeDeposits' = IF amount < TravelRuleThreshold THEN largeDeposits
                        ELSE [largeDeposits EXCEPT ![<<payer, amount>>] = @ + 1]
    /\ usdc' = Ledger!Move(usdc, payer, VaultAccount, amount)
    /\ cvault' = Ledger!Credit(cvault, recipient, minted)
    /\ cvaultSupply' = cvaultSupply + minted
    /\ totalDeposits' = totalDeposits + amount
    /\ totalSupply' = totalSupply + minted
    /\ UNCHANGED <<now, credential, paused, secondaryMarket, minDeposit, maxDeposit, nav, trade,
                   tradeSupply, yieldVars, reserveVars>>

(* What the preflight promises after reading the credential, the program keeps but for its      *)
(* date; what it promises on a row's word, but for the credential.  With the record that it     *)
(* asked for and within the limits that it does not know, no other guard is in the way.         *)
THEOREM PromisedDepositGoesThrough ==
    ASSUME NEW w \in Wallets, NEW amount \in Amounts, NEW readable \in BOOLEAN,
           NEW row \in RowStatuses, NEW record \in Gate!RecordAddresses \cup {NoAccount},
           PromisedBy(Preflight(w, amount, readable, row), ReadsCredential(w, readable),
                      w, amount, record),
           DepositOutcome(w, w, amount, record,
                          Preflight(w, amount, readable, row).estimatedCvault)
    PROVE  Deposit(w, w, amount, record)
<1> DEFINE minted == Ledger!SharesMinted(amount, nav)
<1>1. /\ Gate!CredentialPasses(w) /\ ~paused
      /\ amount >= TravelRuleThreshold => Gate!RecordCovers(record, w, amount)
      /\ amount >= minDeposit /\ amount <= maxDeposit
      /\ amount <= usdc[w] /\ minted > 0
      /\ FitsU64(amount * Denominator)
      /\ FitsU64(totalDeposits + amount) /\ FitsU64(totalSupply + minted)
  BY DEF PromisedBy, Preflight, ReadsCredential, Gate!Lapsed
<1>2. DepositOutcome(w, w, amount, record, minted)
  BY DEF Preflight
<1> HIDE DEF minted
<1>3. Gate!AdmitDeposit(w, amount, record)
  <2>1. Gate!PassTravelRule(w, amount, record)
    <3>1. amount \in Nat /\ TravelRuleThreshold \in Nat
      BY GateConstants
    <3>2. CASE amount < TravelRuleThreshold
      BY <1>2, <3>2 DEF DepositOutcome, Gate!PassTravelRule
    <3>3. CASE amount >= TravelRuleThreshold
      BY <1>1, <1>2, <3>1, <3>3 DEF DepositOutcome, Gate!PassTravelRule, Gate!ConsumeRecord
    <3>4. QED
      BY <3>1, <3>2, <3>3
  <2>2. QED
    BY <1>1, <1>2, <2>1 DEF DepositOutcome, Gate!AdmitDeposit
<1>4. Ledger!BookDeposit(w, w, amount)
  BY <1>1, <1>2 DEF DepositOutcome, minted, Ledger!BookDeposit, Ledger!MintCvault,
     Ledger!configVars, Ledger!FitsU64, FitsU64
<1>5. QED
  BY <1>2, <1>3, <1>4 DEF DepositOutcome, Deposit

DepositsFollowPreflight ==
    \A payer, recipient \in Wallets, amount \in Amounts, readable \in BOOLEAN,
       row \in RowStatuses, record \in Gate!RecordAddresses \cup {NoAccount} :
          Deposit(payer, recipient, amount, record) =>
             LET told == Preflight(payer, amount, readable, row) IN
             /\ ReadsCredential(payer, readable) => told.canDeposit
             /\ ~paused
             /\ told.requiresTravelRule => Gate!RecordCovers(record, payer, amount)
             /\ cvault'[recipient] = cvault[recipient] + told.estimatedCvault

(* Nobody whom the preflight turns away on the chain's word deposits, whatever record or account *)
(* is tried; and whoever does deposit has the record that it asked for and is minted what it   *)
(* estimated, also when the register stood in for the chain.                                   *)
THEOREM DepositsArePreflighted == Spec => [][DepositsFollowPreflight]_vars
<1>1. ASSUME Ledger!LedgerTypeOK, NEW payer \in Wallets, NEW recipient \in Wallets,
             NEW amount \in Amounts, NEW readable \in BOOLEAN, NEW row \in RowStatuses,
             NEW record \in Gate!RecordAddresses \cup {NoAccount},
             Deposit(payer, recipient, amount, record)
      PROVE  LET told == Preflight(payer, amount, readable, row) IN
             /\ ReadsCredential(payer, readable) => told.canDeposit
             /\ ~paused
             /\ told.requiresTravelRule => Gate!RecordCovers(record, payer, amount)
             /\ cvault'[recipient] = cvault[recipient] + told.estimatedCvault
  <2>1. Gate!CredentialPasses(payer) /\ Gate!PassTravelRule(payer, amount, record)
    BY <1>1 DEF Deposit, Gate!AdmitDeposit
  <2>2. ~paused /\ Ledger!MintCvault(recipient, Ledger!SharesMinted(amount, nav))
    BY <1>1 DEF Deposit, Ledger!BookDeposit
  <2>3. amount >= TravelRuleThreshold => Gate!RecordCovers(record, payer, amount)
    BY <2>1, GateConstants DEF Gate!PassTravelRule
  <2>4. cvault'[recipient] = cvault[recipient] + Ledger!SharesMinted(amount, nav)
    BY <1>1, <2>2 DEF Ledger!MintCvault, Ledger!Credit, Ledger!LedgerTypeOK
  <2>5. ReadsCredential(payer, readable) => CredentialStatus(payer, readable, row) = "active"
    BY <2>1 DEF CredentialStatus, Gate!CredentialPasses
  <2>6. QED
    BY <2>2, <2>3, <2>4, <2>5 DEF Preflight
<1>2. Ledger!LedgerTypeOK /\ [Next]_vars => [DepositsFollowPreflight]_vars
  BY <1>1 DEF DepositsFollowPreflight
<1>3. QED
  BY <1>2, LedgerTyped, PTL DEF Spec
=============================================================================
