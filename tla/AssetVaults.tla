----------------------------- MODULE AssetVaults -----------------------------
(***************************************************************************)
(* The multi-asset-vault program and the backend service in front of it: a *)
(* factory of vaults, one per asset mint, each of which takes the asset's  *)
(* tokens for share tokens at a NAV of its own.  One credential, of the    *)
(* oragami-vault program, admits to all of them; the travel rule is opted  *)
(* into per vault, and a travel-rule record names no asset.  `credential`  *)
(* is the account of the oragami-vault program as Compliance has it, and   *)
(* `travelRecord` holds the records of this program, which its             *)
(* init_travel_rule files as the other's does.                             *)
(***************************************************************************)
EXTENDS Compliance, FiniteSetsExt

CONSTANTS
    Assets,        \* the asset mints
    MaxAssets,     \* MAX_ASSETS
    VaultAccount,  \* the vault's own account among the token accounts of an asset
    Denominator,   \* NAV_BPS_DENOMINATOR
    MaxNavChange,  \* MAX_NAV_CHANGE_BPS
    NavPrices,     \* the prices that register_asset and set_nav may be called with
    DepositLimits, \* the values of min_deposit and max_deposit
    ShareAmounts,  \* the share amounts that instructions may name
    MaxMinted      \* bound: the asset tokens that the faucet mints in all

ASSUME AssetsAssumption == IsFiniteSet(Assets) /\ MaxAssets \in Nat
ASSUME AccountsAssumption == VaultAccount \notin Wallets
ASSUME AssetDenominatorAssumption == Denominator \in Nat \ {0} /\ MaxNavChange \in Nat
ASSUME AssetInputsAssumption ==  \* they are all u64
    /\ NavPrices \subseteq 0 .. MaxU64
    /\ DepositLimits \subseteq 0 .. MaxU64
    /\ ShareAmounts \subseteq 0 .. MaxU64
    /\ DepositAmounts \subseteq 0 .. MaxU64
    /\ MaxMinted \in Nat

VARIABLES
    assetVault,   \* the AssetVault account of each mint
    tokens,       \* the asset tokens of each wallet and of the vault, per asset
    shares,       \* the share tokens of each wallet, per asset
    shareSupply   \* Mint.supply of each share mint

vaultVars == <<complianceVars, assetVault, tokens, shares, shareSupply>>

Accounts == Wallets \cup {VaultAccount}

AssetVault ==
    [nav : Nat, deposits : Nat, supply : Nat, min : DepositLimits, max : DepositLimits,
     travelRule : BOOLEAN, paused : BOOLEAN]

ASSUME NoVaultAssumption == NoAccount \notin AssetVault

(* Factory.registered_assets *)
Registered == {a \in Assets : assetVault[a] # NoAccount}

AssetInit ==
    /\ ComplianceInit
    /\ assetVault = [a \in Assets |-> NoAccount]
    /\ tokens = [a \in Assets |-> [x \in Accounts |-> 0]]
    /\ shares = [a \in Assets |-> [w \in Wallets |-> 0]]
    /\ shareSupply = [a \in Assets |-> 0]

-----------------------------------------------------------------------------
(* Mutant: a factory that takes one vault more than its account has room for. *)
FactoryHasRoomForOneMore == Cardinality(Registered) <= MaxAssets

FactoryHasRoom == Cardinality(Registered) < MaxAssets

RegisterAsset(a, nav, min, max, travelRule) ==
    /\ nav > 0
    /\ min <= max
    /\ a \notin Registered
    /\ FactoryHasRoom
    /\ assetVault' = [assetVault EXCEPT ![a] =
                        [nav |-> nav, deposits |-> 0, supply |-> 0, min |-> min, max |-> max,
                         travelRule |-> travelRule, paused |-> FALSE]]
    /\ UNCHANGED <<complianceVars, tokens, shares, shareSupply>>

PauseVault(a, pause) ==
    /\ a \in Registered
    /\ assetVault' = [assetVault EXCEPT ![a].paused = pause]
    /\ UNCHANGED <<complianceVars, tokens, shares, shareSupply>>

(* Half the current price at most, rounded down; the upper bound saturates. *)
WithinCap(price, current) ==
    LET maxChange == (current * MaxNavChange) \div Denominator IN
    /\ FitsU64(current * MaxNavChange)
    /\ SaturatingSub(current, maxChange) <= price
    /\ price <= current + maxChange

(* The service's setNav refuses a price that is not positive, and so does the program. *)
SetNav(a, price) ==
    /\ price > 0
    /\ a \in Registered
    /\ WithinCap(price, assetVault[a].nav)
    /\ assetVault' = [assetVault EXCEPT ![a].nav = price]
    /\ UNCHANGED <<complianceVars, tokens, shares, shareSupply>>

-----------------------------------------------------------------------------
SharesFor(amount, nav) == (amount * Denominator) \div nav

(* Mutant: a payout rounded up. *)
PayoutForRoundedUp(amount, nav) == (amount * nav + Denominator - 1) \div Denominator

PayoutFor(amount, nav) == (amount * nav) \div Denominator

(* What `deposit` asks of the vault and of the depositor, money and travel rule aside. *)
Admits(a, payer, amount) ==
    /\ ~assetVault[a].paused
    /\ amount >= assetVault[a].min
    /\ amount <= assetVault[a].max
    /\ CredentialPasses(payer)

(* Mutant: a record marked as consumed that may have been so before. *)
PassOptedInRuleReused(a, payer, amount, record) ==
    IF assetVault[a].travelRule /\ amount >= TravelRuleThreshold
    THEN /\ RecordCoversReused(record, payer, amount)
         /\ ConsumeRecord(record)
         /\ largeDeposits' = [largeDeposits EXCEPT ![<<payer, amount>>] = @ + 1]
    ELSE UNCHANGED <<travelRecord, largeDeposits>>

(* A vault that did not opt in does not read the record. *)
PassOptedInRule(a, payer, amount, record) ==
    IF assetVault[a].travelRule
    THEN PassTravelRule(payer, amount, record)
    ELSE UNCHANGED <<travelRecord, largeDeposits>>

(* The account that receives the shares is the caller's choice. *)
Deposit(a, payer, recipient, amount, record) ==
    /\ a \in Registered
    /\ Admits(a, payer, amount)
    /\ PassOptedInRule(a, payer, amount, record)
    /\ FitsU64(amount * Denominator)
    /\ amount <= tokens[a][payer]
    /\ LET minted == SharesFor(amount, assetVault[a].nav) IN
          /\ minted > 0
          /\ FitsU64(assetVault[a].deposits + amount)
          /\ FitsU64(assetVault[a].supply + minted)
          /\ tokens' = [tokens EXCEPT ![a] = Move(@, payer, VaultAccount, amount)]
          /\ shares' = [shares EXCEPT ![a] = Credit(@, recipient, minted)]
          /\ shareSupply' = [shareSupply EXCEPT ![a] = @ + minted]
          /\ assetVault' = [assetVault EXCEPT ![a].deposits = assetVault[a].deposits + amount,
                                              ![a].supply = assetVault[a].supply + minted]
    /\ UNCHANGED <<now, credential>>

(* Mutant: a redemption counted twice, and total_supply made to saturate. *)
BookRedemptionTwice(a, amount) ==
    assetVault' = [assetVault EXCEPT
        ![a].deposits = SaturatingSub(assetVault[a].deposits, PayoutFor(amount, assetVault[a].nav)),
        ![a].supply = SaturatingSub(assetVault[a].supply, 2 * amount)]

(* Mutant: a payout beyond the books left unbooked. *)
BookRedemptionUnlessShort(a, amount) ==
    LET payout == PayoutFor(amount, assetVault[a].nav) IN
    /\ amount <= assetVault[a].supply
    /\ assetVault' = [assetVault EXCEPT
          ![a].deposits = IF payout <= assetVault[a].deposits THEN assetVault[a].deposits - payout
                          ELSE assetVault[a].deposits,
          ![a].supply = assetVault[a].supply - amount]

(* total_deposits saturates, total_supply does not. *)
BookRedemption(a, amount) ==
    /\ amount <= assetVault[a].supply
    /\ assetVault' = [assetVault EXCEPT
          ![a].deposits = SaturatingSub(assetVault[a].deposits, PayoutFor(amount, assetVault[a].nav)),
          ![a].supply = assetVault[a].supply - amount]

Burn(a, holder, amount) ==
    /\ amount <= shares[a][holder]
    /\ amount <= shareSupply[a]
    /\ shares' = [shares EXCEPT ![a] = Debit(@, holder, amount)]
    /\ shareSupply' = [shareSupply EXCEPT ![a] = @ - amount]

(* Open to every holder, credentialed or not, and while the vault is paused. *)
Redeem(a, redeemer, destination, amount) ==
    /\ amount > 0
    /\ a \in Registered
    /\ LET payout == PayoutFor(amount, assetVault[a].nav) IN
          /\ FitsU64(amount * assetVault[a].nav)
          /\ payout <= tokens[a][VaultAccount]
          /\ tokens' = [tokens EXCEPT ![a] = Move(@, VaultAccount, destination, payout)]
    /\ Burn(a, redeemer, amount)
    /\ BookRedemption(a, amount)
    /\ UNCHANGED complianceVars

(* transfer_shares, and the share token's own transfer, which asks for no credential at all. *)
SendShares(a, from, to, amount) ==
    /\ amount <= shares[a][from]
    /\ shares' = [shares EXCEPT ![a] = Move(@, from, to, amount)]
    /\ UNCHANGED <<complianceVars, assetVault, tokens, shareSupply>>

TransferShares(a, sender, receiver, amount) ==
    /\ amount > 0
    /\ a \in Registered
    /\ ~assetVault[a].paused
    /\ CredentialPasses(sender)
    /\ CredentialPasses(receiver)
    /\ SendShares(a, sender, receiver, amount)

-----------------------------------------------------------------------------
(* The backend's faucet, whose key is the mint authority of the demo assets. *)
Minted == MapThenSumSet(LAMBDA holding : tokens[holding[1]][holding[2]], Assets \X Accounts)

Faucet(a, w, amount) ==
    /\ Minted + amount <= MaxMinted
    /\ tokens' = [tokens EXCEPT ![a] = Credit(@, w, amount)]
    /\ UNCHANGED <<complianceVars, assetVault, shares, shareSupply>>

(* What token holders do without the program. *)
SendTokens(a, from, to, amount) ==
    /\ amount <= tokens[a][from]
    /\ to = VaultAccount => a \in Registered
    /\ tokens' = [tokens EXCEPT ![a] = Move(@, from, to, amount)]
    /\ UNCHANGED <<complianceVars, assetVault, shares, shareSupply>>

DiscardShares(a, holder, amount) ==
    /\ Burn(a, holder, amount)
    /\ UNCHANGED <<complianceVars, assetVault, tokens>>
-----------------------------------------------------------------------------
(* The service's preflight reads the accounts by an interface description that is older than   *)
(* the program's.  Its ComplianceCredential lacks the attestation hash, so that the dates and   *)
(* the status of a credential are read from the 32 bytes of that hash; dates that are none      *)
(* (`datesFit`) throw, which counts as "not found".                                            *)
HashAsCredential == [datesFit : BOOLEAN, expiresAt : ExpiryDates, active : BOOLEAN]

VerifiesCredential(w, hash) ==
    /\ credential[w] # NoAccount
    /\ hash.datesFit
    /\ hash.active
    /\ hash.expiresAt > now

(* Its AssetVault lacks travel_rule_required, so that `paused` is read from that byte, and       *)
(* travelRuleRequired is never there.  One reading of chain and clock, for a vault it finds.    *)
Preflight(a, w, amount, hash) ==
    [canDeposit |-> /\ VerifiesCredential(w, hash)
                    /\ ~assetVault[a].travelRule
                    /\ amount >= assetVault[a].min
                    /\ amount <= assetVault[a].max,
     paused |-> assetVault[a].travelRule,
     requiresTravelRule |-> FALSE,
     estimatedShares |-> SharesFor(amount, assetVault[a].nav)]

-----------------------------------------------------------------------------
Authority ==
    \/ \E a \in Assets, nav \in NavPrices, min, max \in DepositLimits, travelRule \in BOOLEAN :
          RegisterAsset(a, nav, min, max, travelRule)
    \/ \E a \in Assets, pause \in BOOLEAN : PauseVault(a, pause)
    \/ \E a \in Assets, price \in NavPrices : SetNav(a, price)
    \/ \E a \in Assets, w \in Wallets, amount \in DepositAmounts : Faucet(a, w, amount)

Investors ==
    \/ \E a \in Assets, payer, recipient \in Wallets, amount \in DepositAmounts,
          record \in RecordAddresses \cup {NoAccount} :
             Deposit(a, payer, recipient, amount, record)
    \/ \E a \in Assets, w \in Wallets, to \in Accounts, amount \in ShareAmounts :
          Redeem(a, w, to, amount)
    \/ \E a \in Assets, from, to \in Wallets, amount \in ShareAmounts :
          TransferShares(a, from, to, amount)

TokenHolders ==
    \E a \in Assets, from \in Wallets :
       \/ \E to \in Wallets, amount \in ShareAmounts : SendShares(a, from, to, amount)
       \/ \E to \in Accounts, amount \in DepositAmounts : SendTokens(a, from, to, amount)
       \/ \E amount \in ShareAmounts : DiscardShares(a, from, amount)

(* The clock, the credentials of oragami-vault, and the travel-rule records of this program. *)
Compliances ==
    /\ \/ Tick /\ UNCHANGED <<credential, travelRecord, largeDeposits>>
       \/ /\ UNCHANGED now
          /\ \/ \E w \in Wallets, expiresAt \in ExpiryDates : IssueCredential(w, now, expiresAt)
             \/ \E w \in Wallets : RevokeCredential(w)
             \/ \E w \in Wallets, n \in Nonces, a \in DepositAmounts : InitTravelRule(w, n, a)
    /\ UNCHANGED <<assetVault, tokens, shares, shareSupply>>

AssetNext == Authority \/ Investors \/ TokenHolders \/ Compliances

AssetSpec == AssetInit /\ [][AssetNext]_vaultVars

-----------------------------------------------------------------------------
(* Type invariant of the factory, its vaults and the token accounts.  The factory account has  *)
(* room for MAX_ASSETS mints and no more.                                                      *)
AssetTypeOK ==
    /\ ComplianceTypeOK
    /\ assetVault \in [Assets -> AssetVault \cup {NoAccount}]
    /\ Cardinality(Registered) <= MaxAssets
    /\ tokens \in [Assets -> [Accounts -> Nat]]
    /\ shares \in [Assets -> [Wallets -> Nat]]
    /\ shareSupply \in [Assets -> Nat]

(* Whatever the prices do and whoever burns or gives away what, the books of a vault never     *)
(* promise more than is there: total_deposits is in custody, so that its saturating write-off  *)
(* hides no shortfall, and total_supply counts every share, so that its checked one never      *)
(* refuses a holder's redemption.                                                              *)
BooksCovered ==
    \A a \in Registered :
        /\ assetVault[a].deposits <= tokens[a][VaultAccount]
        /\ shareSupply[a] <= assetVault[a].supply

(* One record covers one large deposit in one vault: the record names no asset, and a record   *)
(* that was used in one vault of the factory is of no use in another.                          *)
RecordsSpentAcrossVaults == TravelRuleCovered

(* As long as its NAV does not move, no step worsens a vault's position (tokens held against    *)
(* shares out at the NAV): whatever is deposited, redeemed to whichever account, sent or thrown *)
(* away, here or in the other vaults, both divisions round in the vault's favour.              *)
RoundingFavoursVaults ==
    [][\A a \in Registered :
          assetVault'[a].nav = assetVault[a].nav =>
             tokens'[a][VaultAccount] * Denominator + shareSupply[a] * assetVault[a].nav
                >= tokens[a][VaultAccount] * Denominator + shareSupply'[a] * assetVault[a].nav]_vaultVars

(* Before it is registered a vault is an empty pool at par. *)
Pool(a) == INSTANCE NavPool WITH
    Quantities <- 0 .. MaxU64,
    held       <- tokens[a][VaultAccount],
    booked     <- IF a \in Registered THEN assetVault[a].deposits ELSE 0,
    shares     <- shareSupply[a],
    nav        <- IF a \in Registered THEN assetVault[a].nav ELSE Denominator

(* Every vault of the factory implements the NAV-priced pool that oragami-vault implements: no *)
(* operation on one vault, and no transfer of its shares, moves money or shares in another.    *)
ImplementsNavPools ==
    /\ \A a \in Assets : Pool(a)!PoolInit
    /\ [][\A a \in Assets : [Pool(a)!PoolNext]_<<Pool(a)!poolVars>>]_vaultVars

-----------------------------------------------------------------------------
(* The preflight's reason "Vault is paused", and the `paused` of its answer, which the page      *)
(* shows beside the vault's name.  The vault should then be paused, and otherwise not.          *)
PausedAsSaid ==
    \A a \in Registered, w \in Wallets, amount \in DepositAmounts, hash \in HashAsCredential :
        Preflight(a, w, amount, hash).paused = assetVault[a].paused
=============================================================================
