---------------------------- MODULE OragamiVault ----------------------------
(***************************************************************************)
(* The oragami-vault program as a whole.  Every instruction is one atomic  *)
(* step made of the parts that its components play in it: `deposit` is the *)
(* gate and the ledger at once, `set_nav` the ledger and the registry,     *)
(* `update_config` the limits and the rates.  Each component, seen alone,  *)
(* behaves as its own module says.                                         *)
(***************************************************************************)
EXTENDS SolanaClock, BasisPoints, FiniteSets

CONSTANTS
    VaultAccount, Denominator, Amounts, NavPrices, DepositLimits, InitialUsdc,  \* ShareLedger
    TravelRuleThreshold, Nonces,                                                \* Compliance
    SecondsInDay, DaysPerYear, Allocations, Rates,                              \* VaultYield
    MandateShares, CollateralRatios, YieldAccounts, LinkHashes, GoldUnits,      \* Reserve
    MaxAttestationAge

(* The components' assumptions about their constants. *)
ASSUME MoneyAssumption ==
    /\ VaultAccount \notin Wallets
    /\ Denominator \in Nat \ {0} /\ FitsU64(Denominator)
    /\ InitialUsdc \in Nat
    /\ Amounts \subseteq 0 .. MaxU64
    /\ NavPrices \subseteq 0 .. MaxU64
    /\ DepositLimits \subseteq 0 .. MaxU64
ASSUME GateAssumption ==
    /\ TravelRuleThreshold \in Nat \ {0}
    /\ IsFiniteSet(Nonces)
    /\ NoAccount \notin Wallets \X Nonces
ASSUME YieldAssumption ==
    /\ SecondsInDay \in Nat \ {0} /\ DaysPerYear \in Nat \ {0}
    /\ Allocations \subseteq Nat /\ Rates \subseteq Nat
ASSUME ReserveAssumption ==
    /\ CollateralRatios \subseteq Nat
    /\ MaxAttestationAge \in Nat
ASSUME SharesAreAllocations == MandateShares \subseteq Allocations  \* both are u16

VARIABLES
    credential, travelRecord, largeDeposits,
    paused, secondaryMarket, minDeposit, maxDeposit, nav, totalDeposits, totalSupply,
    usdc, cvault, trade, cvaultSupply, tradeSupply,
    usxAllocation, apy, lastYieldClaim, pendingYield, creditedDays, pendingEarnings,
    registry, mandate, attestation, usxAccounts

Gate    == INSTANCE Compliance WITH DepositAmounts <- Amounts
Ledger  == INSTANCE ShareLedger
Yield   == INSTANCE VaultYield WITH Books <- 0 .. MaxU64
Backing == INSTANCE Reserve

ASSUME AccountsAssumption ==
    NoAccount \notin UNION {Gate!Credential, Gate!TravelRuleData, Backing!RwaAssetRegistry,
                            Backing!VaultMandate, Backing!ReserveAttestation}

gateVars   == <<credential, travelRecord, largeDeposits>>
ledgerVars == <<paused, secondaryMarket, minDeposit, maxDeposit, nav, totalDeposits, totalSupply,
                usdc, cvault, trade, cvaultSupply, tradeSupply>>
yieldVars  == <<usxAllocation, apy, lastYieldClaim, pendingYield, creditedDays, pendingEarnings>>
reserveVars == <<registry, mandate, attestation, usxAccounts>>
vars == <<now, gateVars, ledgerVars, yieldVars, reserveVars>>

Init ==
    /\ Gate!ComplianceInit
    /\ Ledger!LedgerInit
    /\ Yield!YieldInit
    /\ Backing!ReserveInit

-----------------------------------------------------------------------------
(* Mutant: the credential gate left out. *)
DepositUngated(payer, recipient, amount, record) ==
    /\ Gate!PassTravelRule(payer, amount, record)
    /\ Ledger!BookDeposit(payer, recipient, amount)
    /\ UNCHANGED <<now, credential, yieldVars, reserveVars>>

(* Mutant: a deposit that restarts the accrual of yield, so that it earns nothing for the past. *)
DepositRestartsAccrual(payer, recipient, amount, record) ==
    /\ Gate!AdmitDeposit(payer, amount, record)
    /\ Ledger!BookDeposit(payer, recipient, amount)
    /\ lastYieldClaim' = now
    /\ UNCHANGED <<now, usxAllocation, apy, pendingYield, creditedDays, pendingEarnings, reserveVars>>

Deposit(payer, recipient, amount, record) ==
    /\ Gate!AdmitDeposit(payer, amount, record)
    /\ Ledger!BookDeposit(payer, recipient, amount)
    /\ UNCHANGED <<now, yieldVars, reserveVars>>

SetNav(price) ==
    /\ Ledger!SetNav(price)
    /\ Backing!StampRegistry
    /\ UNCHANGED <<now, gateVars, yieldVars>>

(* The mandate is an optional account of update_config: the caller may leave it out. *)
MandateCaps == {NoAccount} \cup (IF mandate = NoAccount THEN {} ELSE {mandate.maxUsxAllocation})

UpdateConfig(min, max, enabled, allocation, rate, cap) ==
    /\ Ledger!UpdateLimits(min, max, enabled)
    /\ Yield!UpdateRates(allocation, rate, cap)
    /\ UNCHANGED <<now, gateVars, reserveVars>>

GateInstruction ==
    /\ \/ \E w \in Wallets, issuedAt \in Times, expiresAt \in Gate!ExpiryDates :
             Gate!IssueCredential(w, issuedAt, expiresAt)
       \/ \E w \in Wallets : Gate!RevokeCredential(w)
       \/ \E w \in Wallets, n \in Nonces, a \in Amounts : Gate!InitTravelRule(w, n, a)
    /\ UNCHANGED <<now, ledgerVars, yieldVars, reserveVars>>

ShareInstruction ==
    /\ \/ \E w \in Wallets, d \in Ledger!Destinations, a \in Amounts :
             Ledger!Redeem(w, d, a) \/ Ledger!RedeemTradeable(w, d, a)
       \/ \E w, recipient \in Wallets, a \in Amounts :
             Ledger!ConvertToTradeable(w, recipient, a) \/ Ledger!RewrapTradeable(w, recipient, a)
       \/ \E pause \in BOOLEAN : Ledger!SetPause(pause)
       \/ Ledger!TokenHolders
    /\ UNCHANGED <<now, gateVars, yieldVars, reserveVars>>

YieldInstruction ==
    /\ Yield!ProcessYield \/ Yield!DistributeYield \/ Yield!SyncYield
    /\ UNCHANGED <<now, gateVars, ledgerVars, reserveVars>>

ReserveInstruction ==
    /\ \/ \E h \in LinkHashes : Backing!InitRegistry(h) \/ Backing!UpdateRegistry(h)
       \/ \E b, c \in MandateShares, r \in CollateralRatios, e \in BOOLEAN :
             Backing!InitMandate(b, c, r, e)
       \/ \E e \in BOOLEAN : Backing!SetEnforcement(e)
       \/ \E h \in LinkHashes, g \in GoldUnits : Backing!PostAttestation(h, g)
       \/ \E accounts \in SUBSET YieldAccounts : Backing!RegisterUsxAccounts(accounts)
    /\ UNCHANGED <<now, gateVars, ledgerVars, yieldVars>>

Next ==
    \/ Tick /\ UNCHANGED <<gateVars, ledgerVars, yieldVars, reserveVars>>
    \/ GateInstruction
    \/ \E payer, recipient \in Wallets, a \in Amounts,
          record \in Gate!RecordAddresses \cup {NoAccount} :
             Deposit(payer, recipient, a, record)
    \/ ShareInstruction
    \/ \E price \in NavPrices : SetNav(price)
    \/ \E min, max \in DepositLimits, enabled \in BOOLEAN, a \in Allocations, r \in Rates,
          cap \in MandateCaps : UpdateConfig(min, max, enabled, a, r, cap)
    \/ YieldInstruction
    \/ ReserveInstruction

Spec == Init /\ [][Next]_vars

-----------------------------------------------------------------------------
(* What the register may say of a wallet, "not_found" without a row: see CredentialDesk. *)
RowStatuses == {"active", "revoked", "not_found"}

(* The read of a credential throws when the node does not answer and when there is no account. *)
ReadsCredential(w, readable) == readable /\ credential[w] # NoAccount

(* Mutant: the register asked before the chain. *)
CredentialStatusRowFirst(w, readable, row) ==
    IF row = "not_found" /\ ReadsCredential(w, readable) THEN credential[w].status ELSE row

(* The status that the preflight goes by: the row's word for what it could not read. *)
CredentialStatus(w, readable, row) ==
    IF ReadsCredential(w, readable) THEN credential[w].status ELSE row

(* Mutant: a preflight that does not look at the pause. *)
PreflightUnpaused(w, amount, readable, row) ==
    [canDeposit |-> CredentialStatus(w, readable, row) = "active",
     requiresTravelRule |-> amount >= TravelRuleThreshold,
     estimatedCvault |-> Ledger!SharesMinted(amount, nav)]

(* The deposits service's preflight on one reading of the vault, with a node that answers for   *)
(* the credential or does not, and whatever the register says.  It looks neither at the date   *)
(* on which the credential lapses nor at the limits of the vault.                              *)
Preflight(w, amount, readable, row) ==
    [canDeposit |-> CredentialStatus(w, readable, row) = "active" /\ ~paused,
     requiresTravelRule |-> amount >= TravelRuleThreshold,
     estimatedCvault |-> Ledger!SharesMinted(amount, nav)]

-----------------------------------------------------------------------------
(* Each component keeps its own specification while the others move: what is checked and       *)
(* proved of Compliance, ShareLedger, VaultYield and Reserve alone holds of the whole program. *)
RefinesComponents ==
    /\ Gate!ComplianceSpec
    /\ Ledger!LedgerSpec
    /\ Yield!YieldSpec
    /\ Backing!ReserveSpec

(* Once the credential of every investor has lapsed, the books only run down: no order of      *)
(* instructions brings in new deposits, neither a re-issued credential nor a travel-rule       *)
(* record filed in time.                                                                       *)
AllLapsed == \A w \in Wallets : Gate!Lapsed(w)

BooksRunDown == [][AllLapsed => AllLapsed' /\ totalDeposits' <= totalDeposits]_vars

(* At a mandate of no more than full cover verify_proof_of_reserve never fails for want of      *)
(* money, whatever the NAV and the redemptions have been, because no instruction takes money   *)
(* out without taking it off the books; nor for a wrong report, since none is ever attested.   *)
(* What is left to fail it: an attestation that is stale or older than the registry's last     *)
(* refresh, a caller that leaves out a registered account, and assets beyond what the program  *)
(* can multiply by 10000 in u64.                                                               *)
NoProofFailsForMoney ==
    \A yieldHeld \in Backing!YieldBalances, passed \in SUBSET YieldAccounts :
        /\ mandate # NoAccount /\ mandate.minCollateralRatio <= BpsWhole
        /\ attestation # NoAccount
        /\ ~Backing!ProofOfReserveHolds(usdc[VaultAccount], yieldHeld, totalDeposits, passed)
        => \/ ~Backing!AttestationFresh
           \/ /\ attestation.hash # registry.linkHash
              /\ attestation.attestedAt <= registry.lastVerifiedAt
           \/ ~(usxAccounts \subseteq passed)
           \/ ~FitsU64((usdc[VaultAccount] + yieldHeld) * BpsWhole)

(* How far a fresh preflight can be trusted.  Whom it turns away for the chain's own word (the  *)
(* credential it read, or the pause), no travel-rule record and no choice of accounts gets past *)
(* the program.  Whom it lets through, within the limits and with a record that covers the      *)
(* amount if it was told to bring one, finds no other guard of `deposit` in the way than the    *)
(* date of a credential that was read, and the credential as a whole when the row stood in.     *)
PreflightHonest ==
    \A w \in Wallets, amount \in Amounts, readable \in BOOLEAN, row \in RowStatuses,
       record \in Gate!RecordAddresses \cup {NoAccount} :
        LET told == Preflight(w, amount, readable, row)
            read == ReadsCredential(w, readable)
        IN
        /\ ~told.canDeposit /\ (read \/ paused) =>
              \A recipient \in Wallets : ~ENABLED Deposit(w, recipient, amount, record)
        /\ /\ told.canDeposit /\ told.estimatedCvault > 0
           /\ told.requiresTravelRule => Gate!RecordCovers(record, w, amount)
           /\ IF read THEN ~Gate!Lapsed(w) ELSE Gate!CredentialPasses(w)
           /\ minDeposit <= amount /\ amount <= maxDeposit
           /\ amount <= usdc[w]
           /\ FitsU64(amount * Denominator)
           /\ FitsU64(totalDeposits + amount) /\ FitsU64(totalSupply + told.estimatedCvault)
           => ENABLED Deposit(w, w, amount, record)

-----------------------------------------------------------------------------
(* VaultMandate says of liquidity_enforcement_active: "When true, optional `vault_mandate` on  *)
(* `deposit` enforces the USDC band (after bootstrap)."  A deposit that is not the first one   *)
(* should then leave the vault's idle USDC within the band.                                    *)
EnforcedDepositsWithinBand ==
    [][mandate # NoAccount /\ 0 < totalDeposits /\ totalDeposits < totalDeposits'
       => Backing!LiquidityAssertionHolds(usdc[VaultAccount], totalDeposits, usxAllocation)']_vars

(* The preflight's reason for turning a wallet away while the vault is not paused: "Credential  *)
(* is not active on-chain".  It should then not be active on the chain.                        *)
ReasonIsOnChain ==
    \A w \in Wallets, amount \in Amounts, readable \in BOOLEAN, row \in RowStatuses :
        ~Preflight(w, amount, readable, row).canDeposit /\ ~paused
        => credential[w] = NoAccount \/ credential[w].status # "active"
=============================================================================
