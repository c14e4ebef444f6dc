-------------------------- MODULE CredentialProofs --------------------------
(***************************************************************************)
(* Theorems about the systems that issue and ask for credentials, each     *)
(* composed with the gate of Compliance.  AssetVaults, for any wallets,    *)
(* assets, amounts, prices, limits and width of the integers;              *)
(* CredentialDesk, for any number of requests under way and any number of  *)
(* transactions that land late; and Onboarding, where a browser is one of  *)
(* the desk's clients.                                                     *)
(***************************************************************************)
EXTENDS AssetVaults, Onboarding, ComplianceProofs

-----------------------------------------------------------------------------
(* AssetVaults                                                                                 *)
USE MaxTimeAssumption, NoVaultAssumption

(* The domains of the parameters. *)
LEMMA AssetDomains ==
    /\ MaxU64 \in Nat /\ Denominator \in Nat /\ Denominator > 0
    /\ NavPrices \subseteq Nat /\ ShareAmounts \subseteq Nat
    /\ NavPrices \subseteq 0 .. MaxU64 /\ ShareAmounts \subseteq 0 .. MaxU64
    /\ DepositAmounts \subseteq 0 .. MaxU64
    /\ MaxAssets \in Nat /\ IsFiniteSet(Assets)
    /\ VaultAccount \notin Wallets /\ VaultAccount \in Accounts /\ Wallets \subseteq Accounts
BY MaxU64Assumption, AssetDenominatorAssumption, AssetInputsAssumption, AssetsAssumption,
   AccountsAssumption DEF Accounts

-----------------------------------------------------------------------------
(* Seen through its credentials and records, the factory is one compliance gate: a deposit in  *)
(* a vault that opted in is a large deposit there, and nothing else touches a record.          *)
LEMMA GateStep ==
    ASSUME now \in Times, [AssetNext]_vaultVars
    PROVE  [ComplianceNext]_complianceVars
<1>1. CASE Authority
  BY <1>1 DEF Authority, RegisterAsset, PauseVault, SetNav, Faucet
<1>2. CASE TokenHolders
  BY <1>2 DEF TokenHolders, SendShares, SendTokens, DiscardShares
<1>3. ASSUME NEW a \in Assets, NEW payer \in Wallets, NEW recipient \in Wallets,
             NEW amount \in DepositAmounts, NEW record \in RecordAddresses \cup {NoAccount},
             Deposit(a, payer, recipient, amount, record)
      PROVE  [ComplianceNext]_complianceVars
  <2>1. /\ CredentialPasses(payer)
        /\ UNCHANGED <<now, credential>>
        /\ PassOptedInRule(a, payer, amount, record)
    BY <1>3 DEF Deposit, Admits
  <2>2. CASE PassTravelRule(payer, amount, record)
    BY <2>1, <2>2 DEF ComplianceNext, AdmitDeposit
  <2>3. CASE UNCHANGED <<travelRecord, largeDeposits>>
    BY <2>1, <2>3 DEF complianceVars
  <2>4. QED
    BY <2>1, <2>2, <2>3 DEF PassOptedInRule
<1>4. ASSUME NEW a \in Assets, NEW w \in Wallets, NEW to \in Accounts, NEW amount \in ShareAmounts,
             Redeem(a, w, to, amount)
      PROVE  [ComplianceNext]_complianceVars
  BY <1>4 DEF Redeem
<1>5. ASSUME NEW a \in Assets, NEW from \in Wallets, NEW to \in Wallets,
             NEW amount \in ShareAmounts, TransferShares(a, from, to, amount)
      PROVE  [ComplianceNext]_complianceVars
  BY <1>5 DEF TransferShares, SendShares
<1>6. CASE Investors
  BY <1>3, <1>4, <1>5, <1>6 DEF Investors
<1>7. CASE Compliances
  BY <1>7 DEF Compliances, ComplianceNext
<1>8. CASE UNCHANGED vaultVars
  BY <1>8 DEF vaultVars
<1>9. QED
  BY <1>1, <1>2, <1>6, <1>7, <1>8 DEF AssetNext

LEMMA ClockInRange == AssetSpec => [](now \in Times)
<1>1. AssetInit => now \in Times
  BY DEF AssetInit, ComplianceInit, Times
<1>2. now \in Times /\ [AssetNext]_vaultVars => (now \in Times)'
  BY GateStep DEF ComplianceNext, complianceVars, Tick, Times
<1>3. QED
  BY <1>1, <1>2, PTL DEF AssetSpec

(* What is proved of the compliance gate holds of the factory: its records are spent across all *)
(* vaults as they are in one.                                                                  *)
THEOREM AssetVaultsKeepGate == AssetSpec => ComplianceSpec
<1>1. AssetInit => ComplianceInit
  BY DEF AssetInit
<1>2. now \in Times /\ [AssetNext]_vaultVars => [ComplianceNext]_complianceVars
  BY GateStep
<1>3. QED
  BY <1>1, <1>2, ClockInRange, PTL DEF AssetSpec, ComplianceSpec

(* One record serves one large deposit in one vault, however many vaults, wallets and records. *)
THEOREM RecordsAlwaysSpentAcrossVaults == AssetSpec => []RecordsSpentAcrossVaults
<1>1. TravelRuleCovered => RecordsSpentAcrossVaults
  BY DEF RecordsSpentAcrossVaults
<1>2. QED
  BY <1>1, AssetVaultsKeepGate, TravelRuleAlwaysCovered, PTL

-----------------------------------------------------------------------------
(* Integer division of naturals rounds down. *)
LEMMA PricesAreNatural ==
    ASSUME NEW amount \in Nat, NEW nav \in Nat
    PROVE  /\ PayoutFor(amount, nav) \in Nat
           /\ nav > 0 => SharesFor(amount, nav) \in Nat
<1>1. \A x \in Nat, y \in Nat : y > 0 => x \div y \in Nat
  BY SMT
<1>2. amount * nav \in Nat /\ amount * Denominator \in Nat
  BY AssetDomains
<1>3. QED
  BY <1>1, <1>2, AssetDomains DEF PayoutFor, SharesFor

LEMMA Credited ==
    ASSUME NEW S, NEW balance \in [S -> Nat], NEW holder \in S, NEW amount \in Nat
    PROVE  /\ Credit(balance, holder, amount) \in [S -> Nat]
           /\ Credit(balance, holder, amount)[holder] = balance[holder] + amount
           /\ \A x \in S : x # holder => Credit(balance, holder, amount)[x] = balance[x]
BY DEF Credit

LEMMA Debited ==
    ASSUME NEW S, NEW balance \in [S -> Nat], NEW holder \in S, NEW amount \in Nat,
           amount <= balance[holder]
    PROVE  /\ Debit(balance, holder, amount) \in [S -> Nat]
           /\ Debit(balance, holder, amount)[holder] = balance[holder] - amount
           /\ \A x \in S : x # holder => Debit(balance, holder, amount)[x] = balance[x]
BY DEF Debit

(* A covered transfer moves exactly the amount, and nothing when it goes back where it came from. *)
LEMMA Moved ==
    ASSUME NEW S, NEW balance \in [S -> Nat], NEW from \in S, NEW to \in S,
           NEW amount \in Nat, amount <= balance[from]
    PROVE  /\ Move(balance, from, to, amount) \in [S -> Nat]
           /\ from # to => /\ Move(balance, from, to, amount)[from] = balance[from] - amount
                          /\ Move(balance, from, to, amount)[to] = balance[to] + amount
           /\ \A x \in S : x \notin {from, to} \/ from = to =>
                 Move(balance, from, to, amount)[x] = balance[x]
<1> DEFINE debited == Debit(balance, from, amount)
<1>1. /\ debited \in [S -> Nat]
      /\ debited[from] = balance[from] - amount
      /\ \A x \in S : x # from => debited[x] = balance[x]
  BY Debited
<1>2. Move(balance, from, to, amount) = Credit(debited, to, amount)
  BY DEF Move
<1> HIDE DEF debited
<1>3. /\ Credit(debited, to, amount) \in [S -> Nat]
      /\ Credit(debited, to, amount)[to] = debited[to] + amount
      /\ \A x \in S : x # to => Credit(debited, to, amount)[x] = debited[x]
  BY <1>1 DEF Credit
<1>4. balance[from] \in Nat /\ balance[to] \in Nat
  OBVIOUS
<1>5. QED
  BY <1>1, <1>2, <1>3, <1>4

-----------------------------------------------------------------------------
(* What the pool of a vault is made of *)
Held(a)   == tokens[a][VaultAccount]
Booked(a) == IF a \in Registered THEN assetVault[a].deposits ELSE 0
Price(a)  == IF a \in Registered THEN assetVault[a].nav ELSE Denominator

PoolStep(a) == [Pool(a)!PoolNext]_(Pool(a)!poolVars)

(* total_supply counts the shares that are out, and there are none before the vault is. *)
SharesCounted ==
    \A a \in Assets :
        /\ a \in Registered => shareSupply[a] <= assetVault[a].supply
        /\ a \notin Registered => shareSupply[a] = 0

AssetTypes ==
    /\ assetVault \in [Assets -> AssetVault \cup {NoAccount}]
    /\ tokens \in [Assets -> [Accounts -> Nat]]
    /\ shares \in [Assets -> [Wallets -> Nat]]
    /\ shareSupply \in [Assets -> Nat]

(* The inductive invariant of the vaults, their compliance gate aside. *)
VaultsInv ==
    /\ AssetTypes
    /\ Cardinality(Registered) <= MaxAssets
    /\ SharesCounted
    /\ \A a \in Assets : Booked(a) <= Held(a) /\ Price(a) > 0

(* What every step gives: no vault leaves the factory, and the books stay below the money because *)
(* every vault takes pool steps.                                                               *)
VaultsStep ==
    /\ AssetTypes'
    /\ Registered \subseteq Registered'
    /\ Cardinality(Registered') <= MaxAssets
    /\ SharesCounted'
    /\ \A a \in Assets : PoolStep(a)

-----------------------------------------------------------------------------
LEMMA VaultParts ==
    ASSUME AssetTypes, NEW a \in Assets
    PROVE  /\ Held(a) \in Nat /\ Booked(a) \in Nat /\ Price(a) \in Nat /\ shareSupply[a] \in Nat
           /\ a \in Registered =>
                 /\ assetVault[a] \in AssetVault
                 /\ Booked(a) = assetVault[a].deposits /\ assetVault[a].deposits \in Nat
                 /\ Price(a) = assetVault[a].nav /\ assetVault[a].nav \in Nat
                 /\ assetVault[a].supply \in Nat
<1>1. Held(a) \in Nat /\ shareSupply[a] \in Nat
  BY AssetDomains DEF AssetTypes, Held
<1>2. ASSUME a \in Registered
      PROVE  /\ assetVault[a] \in AssetVault
             /\ assetVault[a].deposits \in Nat /\ assetVault[a].nav \in Nat
             /\ assetVault[a].supply \in Nat
  BY <1>2 DEF AssetTypes, Registered, AssetVault
<1>3. QED
  BY <1>1, <1>2, AssetDomains DEF Booked, Price

(* A vault whose accounts an operation does not touch takes a stuttering step. *)
LEMMA SameVault ==
    ASSUME NEW a \in Assets, UNCHANGED <<assetVault[a], tokens[a], shareSupply[a]>>
    PROVE  PoolStep(a)
BY DEF PoolStep, Pool!poolVars, Registered

LEMMA SamePool ==
    ASSUME NEW a \in Assets, UNCHANGED <<Held(a), Booked(a), shareSupply[a], Price(a)>>
    PROVE  PoolStep(a)
BY DEF PoolStep, Pool!poolVars, Held, Booked, Price

(* Each operation of the pool, in terms of one vault *)
LEMMA PoolOperations ==
    ASSUME NEW a \in Assets, NEW x \in 0 .. MaxU64
    PROVE  /\ /\ SharesFor(x, Price(a)) > 0
              /\ Held(a)' = Held(a) + x /\ Booked(a)' = Booked(a) + x
              /\ shareSupply'[a] = shareSupply[a] + SharesFor(x, Price(a))
              /\ Price(a)' = Price(a)
              => PoolStep(a)
           /\ /\ x <= shareSupply[a] /\ shareSupply'[a] = shareSupply[a] - x
              /\ Booked(a)' = SaturatingSub(Booked(a), PayoutFor(x, Price(a)))
              /\ \/ /\ PayoutFor(x, Price(a)) <= Held(a)
                    /\ Held(a)' = Held(a) - PayoutFor(x, Price(a))
                 \/ Held(a)' = Held(a)
              /\ Price(a)' = Price(a)
              => PoolStep(a)
           /\ /\ Held(a)' = Held(a) + x
              /\ UNCHANGED <<Booked(a), shareSupply[a], Price(a)>>
              => PoolStep(a)
           /\ /\ x <= shareSupply[a] /\ shareSupply'[a] = shareSupply[a] - x
              /\ UNCHANGED <<Held(a), Booked(a), Price(a)>>
              => PoolStep(a)
           /\ /\ x > 0 /\ Price(a)' = x
              /\ UNCHANGED <<Held(a), Booked(a), shareSupply[a]>>
              => PoolStep(a)
<1> USE DEF PoolStep, Pool!PoolNext
<1>1. ASSUME SharesFor(x, Price(a)) > 0,
             Held(a)' = Held(a) + x, Booked(a)' = Booked(a) + x,
             shareSupply'[a] = shareSupply[a] + SharesFor(x, Price(a)),
             Price(a)' = Price(a)
      PROVE  PoolStep(a)
  <2>1. Pool(a)!Subscribe(x)
    BY <1>1 DEF Pool!Subscribe, Pool!SharesFor, SharesFor, Held, Booked, Price
  <2>2. QED
    BY <2>1
<1>2. ASSUME x <= shareSupply[a], shareSupply'[a] = shareSupply[a] - x,
             Booked(a)' = SaturatingSub(Booked(a), PayoutFor(x, Price(a))),
             Price(a)' = Price(a),
             PayoutFor(x, Price(a)) <= Held(a),
             Held(a)' = Held(a) - PayoutFor(x, Price(a))
      PROVE  PoolStep(a)
  <2>1. Pool(a)!PayOut(x)
    BY <1>2 DEF Pool!PayOut, Pool!MoneyFor, Pool!WriteOff, PayoutFor, SaturatingSub, Held, Booked, Price
  <2>2. QED
    BY <2>1
<1>3. ASSUME x <= shareSupply[a], shareSupply'[a] = shareSupply[a] - x,
             Booked(a)' = SaturatingSub(Booked(a), PayoutFor(x, Price(a))),
             Price(a)' = Price(a),
             Held(a)' = Held(a)
      PROVE  PoolStep(a)
  <2>1. Pool(a)!Return(x)
    BY <1>3 DEF Pool!Return, Pool!MoneyFor, Pool!WriteOff, PayoutFor, SaturatingSub, Held, Booked, Price
  <2>2. QED
    BY <2>1
<1>4. ASSUME Held(a)' = Held(a) + x,
             UNCHANGED <<Booked(a), shareSupply[a], Price(a)>>
      PROVE  PoolStep(a)
  <2>1. Pool(a)!Donate(x)
    BY <1>4 DEF Pool!Donate, Held, Booked, Price
  <2>2. QED
    BY <2>1
<1>5. ASSUME x <= shareSupply[a], shareSupply'[a] = shareSupply[a] - x,
             UNCHANGED <<Held(a), Booked(a), Price(a)>>
      PROVE  PoolStep(a)
  <2>1. Pool(a)!Forfeit(x)
    BY <1>5 DEF Pool!Forfeit, Held, Booked, Price
  <2>2. QED
    BY <2>1
<1>6. ASSUME x > 0, Price(a)' = x,
             UNCHANGED <<Held(a), Booked(a), shareSupply[a]>>
      PROVE  PoolStep(a)
  <2>1. Pool(a)!Reprice(x)
    BY <1>6 DEF Pool!Reprice, Held, Booked, Price
  <2>2. QED
    BY <2>1
<1> HIDE DEF PoolStep, Pool!PoolNext
<1>7. QED
  BY <1>1, <1>2, <1>3, <1>4, <1>5, <1>6

(* Among them none that lets the books run ahead of the money, or the price go to zero *)
LEMMA BackingKept ==
    ASSUME NEW a \in Assets, AssetTypes, AssetTypes', Booked(a) <= Held(a), Price(a) > 0,
           PoolStep(a)
    PROVE  Booked(a)' <= Held(a)' /\ Price(a)' > 0
<1>1. /\ Held(a) \in Nat /\ Booked(a) \in Nat /\ Price(a) \in Nat
      /\ Held(a)' \in Nat /\ Booked(a)' \in Nat
  <2>1. Held(a) \in Nat /\ Booked(a) \in Nat /\ Price(a) \in Nat
    BY VaultParts
  <2>2. Held(a)' \in Nat
    BY AssetDomains DEF AssetTypes, Held
  <2>3. Booked(a)' \in Nat
    BY DEF AssetTypes, Booked, Registered, AssetVault
  <2>4. QED
    BY <2>1, <2>2, <2>3
<1>2. CASE UNCHANGED Pool(a)!poolVars
  BY <1>1, <1>2 DEF Pool!poolVars, Held, Booked, Price
<1>3. ASSUME NEW x \in 0 .. MaxU64, Pool(a)!Subscribe(x)
      PROVE  Booked(a)' <= Held(a)' /\ Price(a)' > 0
  BY <1>1, <1>3, AssetDomains DEF Pool!Subscribe, Held, Booked, Price
<1>4. ASSUME NEW x \in 0 .. MaxU64, Pool(a)!PayOut(x) \/ Pool(a)!Return(x)
      PROVE  Booked(a)' <= Held(a)' /\ Price(a)' > 0
  <2>1. PICK m \in Nat : m = PayoutFor(x, Price(a))
    BY <1>1, PricesAreNatural, AssetDomains
  <2>2. /\ Booked(a)' = IF m >= Booked(a) THEN 0 ELSE Booked(a) - m
        /\ Held(a)' \in {Held(a), Held(a) - m}
        /\ Price(a)' = Price(a)
    BY <1>4, <2>1 DEF Pool!PayOut, Pool!Return, Pool!WriteOff, Pool!MoneyFor, PayoutFor, Held, Booked, Price
  <2>3. QED
    BY <1>1, <2>1, <2>2
<1>5. ASSUME NEW x \in 0 .. MaxU64, Pool(a)!Donate(x) \/ Pool(a)!Forfeit(x) \/ Pool(a)!Reprice(x)
      PROVE  Booked(a)' <= Held(a)' /\ Price(a)' > 0
  BY <1>1, <1>5, AssetDomains DEF Pool!Donate, Pool!Forfeit, Pool!Reprice, Held, Booked, Price
<1>6. QED
  BY <1>2, <1>3, <1>4, <1>5 DEF PoolStep, Pool!PoolNext

(* A step on one vault, in which the others do not move *)
LEMMA OneVault ==
    ASSUME VaultsInv, AssetTypes', NEW a \in Assets,
           \A b \in Assets : b # a => UNCHANGED <<assetVault[b], tokens[b], shareSupply[b]>>,
           a \in Registered <=> assetVault'[a] # NoAccount,
           a \in Registered => shareSupply'[a] <= assetVault'[a].supply,
           a \notin Registered => shareSupply'[a] = 0,
           PoolStep(a)
    PROVE  VaultsStep
<1>1. Registered' = Registered
  BY DEF Registered
<1>2. SharesCounted'
  BY <1>1 DEF VaultsInv, SharesCounted
<1>3. \A b \in Assets : PoolStep(b)
  BY SameVault
<1>4. QED
  BY <1>1, <1>2, <1>3 DEF VaultsInv, VaultsStep

(* A step that touches neither vaults nor their tokens *)
LEMMA UntouchedStep ==
    ASSUME VaultsInv, AssetTypes', UNCHANGED <<assetVault, tokens, shareSupply>>
    PROVE  VaultsStep
BY SameVault DEF VaultsInv, VaultsStep, SharesCounted, Registered

-----------------------------------------------------------------------------
LEMMA RegisterStep ==
    ASSUME VaultsInv, NEW a \in Assets, NEW nav \in NavPrices,
           NEW min \in DepositLimits, NEW max \in DepositLimits, NEW travelRule \in BOOLEAN,
           RegisterAsset(a, nav, min, max, travelRule)
    PROVE  VaultsStep
<1> DEFINE v == [nav |-> nav, deposits |-> 0, supply |-> 0, min |-> min, max |-> max,
                 travelRule |-> travelRule, paused |-> FALSE]
<1>1. v \in AssetVault /\ v # NoAccount
  <2>1. v \in AssetVault
    BY AssetDomains DEF AssetVault
  <2>2. QED
    BY <2>1
<1>2. v.nav = nav /\ v.deposits = 0 /\ v.supply = 0
  OBVIOUS
<1> HIDE DEF v
<1>3. /\ nav > 0 /\ a \notin Registered /\ FactoryHasRoom
      /\ assetVault' = [assetVault EXCEPT ![a] = v]
      /\ UNCHANGED <<tokens, shares, shareSupply>>
  BY DEF RegisterAsset, v
<1>4. /\ assetVault'[a] = v
      /\ \A b \in Assets : b # a => assetVault'[b] = assetVault[b]
  BY <1>3 DEF VaultsInv, AssetTypes
<1>5. AssetTypes'
  BY <1>1, <1>3 DEF VaultsInv, AssetTypes
<1>6. Registered' = Registered \cup {a}
  BY <1>1, <1>4 DEF Registered
<1>7. Cardinality(Registered') <= MaxAssets
  <2>1. IsFiniteSet(Registered)
    BY AssetDomains, FS_Subset DEF Registered
  <2>2. Cardinality(Registered) \in Nat /\ Cardinality(Registered \cup {a}) = Cardinality(Registered) + 1
    BY <1>3, <2>1, FS_AddElement, FS_CardinalityType
  <2>3. QED
    BY <1>3, <1>6, <2>2, AssetDomains DEF FactoryHasRoom
<1>8. SharesCounted'
  BY <1>2, <1>3, <1>4, <1>6 DEF VaultsInv, SharesCounted
<1>9. PoolStep(a)
  <2>1. Price(a)' = nav /\ Booked(a)' = 0 /\ Booked(a) = 0 /\ Held(a)' = Held(a)
    BY <1>2, <1>3, <1>4, <1>6 DEF Price, Booked, Held
  <2>2. QED
    BY <1>3, <2>1, PoolOperations, AssetDomains
<1>10. \A b \in Assets : PoolStep(b)
  BY <1>3, <1>4, <1>9, SameVault
<1>11. QED
  BY <1>5, <1>6, <1>7, <1>8, <1>10 DEF VaultsStep

(* A pause moves nothing, and a new price is a new price only. *)
LEMMA AdministrationStep ==
    ASSUME VaultsInv, NEW a \in Assets,
           \/ \E pause \in BOOLEAN : PauseVault(a, pause)
           \/ \E price \in NavPrices : SetNav(a, price)
    PROVE  VaultsStep
<1>1. /\ a \in Registered
      /\ UNCHANGED <<tokens, shares, shareSupply>>
  BY DEF PauseVault, SetNav
<1>2. assetVault[a] \in AssetVault
  BY <1>1, VaultParts DEF VaultsInv
<1>3. ASSUME NEW v \in AssetVault, assetVault' = [assetVault EXCEPT ![a] = v],
             v.deposits = assetVault[a].deposits, v.supply = assetVault[a].supply,
             v.nav = assetVault[a].nav \/ (v.nav > 0 /\ v.nav \in NavPrices)
      PROVE  VaultsStep
  <2>1. AssetTypes'
    BY <1>1, <1>3 DEF VaultsInv, AssetTypes
  <2>2. /\ assetVault'[a] = v /\ v # NoAccount
        /\ \A b \in Assets : b # a => assetVault'[b] = assetVault[b]
    BY <1>3 DEF VaultsInv, AssetTypes
  <2>3. Price(a)' = v.nav /\ Price(a) = assetVault[a].nav /\ UNCHANGED <<Booked(a), Held(a), shareSupply[a]>>
    BY <1>1, <1>3, <2>2 DEF Price, Booked, Held, Registered
  <2>4. PoolStep(a)
    <3>1. CASE v.nav = assetVault[a].nav
      BY <2>3, <3>1, SamePool
    <3>2. CASE v.nav > 0 /\ v.nav \in NavPrices
      BY <2>3, <3>2, PoolOperations, AssetDomains
    <3>3. QED
      BY <1>3, <3>1, <3>2
  <2>5. shareSupply'[a] <= assetVault'[a].supply
    BY <1>1, <1>3, <2>2 DEF VaultsInv, SharesCounted
  <2>6. QED
    BY <1>1, <2>1, <2>2, <2>4, <2>5, OneVault
<1>4. ASSUME NEW pause \in BOOLEAN, PauseVault(a, pause)
      PROVE  VaultsStep
  <2> DEFINE v == [assetVault[a] EXCEPT !.paused = pause]
  <2>1. /\ v \in AssetVault /\ v.deposits = assetVault[a].deposits
        /\ v.supply = assetVault[a].supply /\ v.nav = assetVault[a].nav
    BY <1>2 DEF AssetVault
  <2>2. assetVault' = [assetVault EXCEPT ![a] = v]
    BY <1>4 DEF PauseVault
  <2> HIDE DEF v
  <2>3. QED
    BY <1>3, <2>1, <2>2
<1>5. ASSUME NEW price \in NavPrices, SetNav(a, price)
      PROVE  VaultsStep
  <2> DEFINE v == [assetVault[a] EXCEPT !.nav = price]
  <2>1. /\ v \in AssetVault /\ v.deposits = assetVault[a].deposits
        /\ v.supply = assetVault[a].supply /\ v.nav = price
    BY <1>2, AssetDomains DEF AssetVault
  <2>2. assetVault' = [assetVault EXCEPT ![a] = v] /\ price > 0
    BY <1>5 DEF SetNav
  <2> HIDE DEF v
  <2>3. QED
    BY <1>3, <2>1, <2>2
<1>6. QED
  BY <1>4, <1>5

-----------------------------------------------------------------------------
(* What a covered transfer of an asset's tokens does to the accounts *)
LEMMA TokensMove ==
    ASSUME AssetTypes, NEW a \in Assets, NEW from \in Accounts, NEW to \in Accounts,
           NEW amount \in Nat, amount <= tokens[a][from],
           tokens' = [tokens EXCEPT ![a] = Move(@, from, to, amount)]
    PROVE  /\ tokens' \in [Assets -> [Accounts -> Nat]]
           /\ \A b \in Assets : b # a => tokens'[b] = tokens[b]
           /\ from # to /\ to = VaultAccount => Held(a)' = Held(a) + amount
           /\ from # to /\ from = VaultAccount => Held(a)' = Held(a) - amount
           /\ VaultAccount \notin {from, to} \/ from = to => Held(a)' = Held(a)
<1> DEFINE moved == Move(tokens[a], from, to, amount)
<1>1. tokens[a] \in [Accounts -> Nat]
  BY DEF AssetTypes
<1>2. /\ moved \in [Accounts -> Nat]
      /\ from # to => /\ moved[from] = tokens[a][from] - amount
                     /\ moved[to] = tokens[a][to] + amount
      /\ \A x \in Accounts : x \notin {from, to} \/ from = to => moved[x] = tokens[a][x]
  BY <1>1, Moved
<1>3. tokens' = [tokens EXCEPT ![a] = moved]
  OBVIOUS
<1> HIDE DEF moved
<1>4. /\ tokens' \in [Assets -> [Accounts -> Nat]]
      /\ tokens'[a] = moved
      /\ \A b \in Assets : b # a => tokens'[b] = tokens[b]
  BY <1>2, <1>3 DEF AssetTypes
<1>5. Held(a)' = moved[VaultAccount] /\ Held(a) = tokens[a][VaultAccount]
  BY <1>4 DEF Held
<1>6. QED
  BY <1>2, <1>4, <1>5, AssetDomains

(* A deposit: the vault holds what the payer paid. *)
LEMMA TokensPaidIn ==
    ASSUME AssetTypes, NEW a \in Assets, NEW from \in Wallets,
           NEW amount \in Nat, amount <= tokens[a][from],
           tokens' = [tokens EXCEPT ![a] = Move(@, from, VaultAccount, amount)]
    PROVE  /\ tokens' \in [Assets -> [Accounts -> Nat]]
           /\ \A b \in Assets : b # a => tokens'[b] = tokens[b]
           /\ Held(a)' = Held(a) + amount
<1>1. from \in Accounts /\ VaultAccount \in Accounts /\ from # VaultAccount
  BY AssetDomains
<1> DEFINE to == VaultAccount
<1>2. to \in Accounts /\ from # to /\ to = VaultAccount
  BY <1>1
<1>3. tokens' = [tokens EXCEPT ![a] = Move(@, from, to, amount)]
  OBVIOUS
<1> HIDE DEF to
<1>4. /\ tokens' \in [Assets -> [Accounts -> Nat]]
      /\ \A b \in Assets : b # a => tokens'[b] = tokens[b]
      /\ from # to /\ to = VaultAccount => Held(a)' = Held(a) + amount
  BY <1>1, <1>2, <1>3, TokensMove
<1>5. QED
  BY <1>2, <1>4

(* What burning an asset's shares does *)
LEMMA SharesBurn ==
    ASSUME AssetTypes, NEW a \in Assets, NEW holder \in Wallets, NEW amount \in ShareAmounts,
           Burn(a, holder, amount)
    PROVE  /\ shares' \in [Assets -> [Wallets -> Nat]]
           /\ shareSupply' \in [Assets -> Nat]
           /\ amount \in Nat /\ amount <= shareSupply[a]
           /\ shareSupply'[a] = shareSupply[a] - amount
           /\ \A b \in Assets : b # a => shareSupply'[b] = shareSupply[b]
<1>1. amount \in Nat /\ shareSupply[a] \in Nat /\ shares[a] \in [Wallets -> Nat]
  BY AssetDomains DEF AssetTypes
<1>2. /\ amount <= shares[a][holder] /\ amount <= shareSupply[a]
      /\ shares' = [shares EXCEPT ![a] = Debit(shares[a], holder, amount)]
      /\ shareSupply' = [shareSupply EXCEPT ![a] = shareSupply[a] - amount]
  BY DEF Burn
<1>3. Debit(shares[a], holder, amount) \in [Wallets -> Nat]
  BY <1>1, <1>2, Debited
<1>4. shares' \in [Assets -> [Wallets -> Nat]]
  BY <1>2, <1>3 DEF AssetTypes
<1>5. shareSupply[a] - amount \in Nat
  BY <1>1, <1>2
<1>6. QED
  BY <1>1, <1>2, <1>4, <1>5 DEF AssetTypes

(* What new books of a vault look like *)
LEMMA BooksMove ==
    ASSUME AssetTypes, NEW a \in Registered, NEW d \in Nat, NEW s \in Nat,
           assetVault' = [assetVault EXCEPT ![a].deposits = d, ![a].supply = s]
    PROVE  /\ assetVault' \in [Assets -> AssetVault \cup {NoAccount}]
           /\ assetVault'[a] # NoAccount
           /\ assetVault'[a].supply = s
           /\ Booked(a)' = d
           /\ Price(a)' = Price(a)
           /\ \A b \in Assets : b # a => assetVault'[b] = assetVault[b]
<1> DEFINE v == [assetVault[a] EXCEPT !.deposits = d, !.supply = s]
<1>1. a \in Assets /\ assetVault[a] \in AssetVault
  BY VaultParts DEF Registered
<1>2. v \in AssetVault /\ v.deposits = d /\ v.supply = s /\ v.nav = assetVault[a].nav
  BY <1>1 DEF AssetVault
<1>3. assetVault' = [assetVault EXCEPT ![a] = v]
  BY <1>1 DEF AssetTypes
<1> HIDE DEF v
<1>4. /\ assetVault' \in [Assets -> AssetVault \cup {NoAccount}]
      /\ assetVault'[a] = v /\ v # NoAccount
      /\ \A b \in Assets : b # a => assetVault'[b] = assetVault[b]
  BY <1>1, <1>2, <1>3 DEF AssetTypes
<1>5. a \in Registered'
  BY <1>1, <1>4 DEF Registered
<1>6. QED
  BY <1>2, <1>4, <1>5 DEF Booked, Price

-----------------------------------------------------------------------------
LEMMA DepositStep ==
    ASSUME VaultsInv, NEW a \in Assets, NEW payer \in Wallets, NEW recipient \in Wallets,
           NEW amount \in DepositAmounts, NEW record \in RecordAddresses \cup {NoAccount},
           Deposit(a, payer, recipient, amount, record)
    PROVE  VaultsStep
<1> DEFINE minted == SharesFor(amount, assetVault[a].nav)
<1>1. /\ a \in Registered
      /\ amount <= tokens[a][payer]
      /\ minted > 0
      /\ tokens' = [tokens EXCEPT ![a] = Move(@, payer, VaultAccount, amount)]
      /\ shares' = [shares EXCEPT ![a] = Credit(@, recipient, minted)]
      /\ shareSupply' = [shareSupply EXCEPT ![a] = @ + minted]
      /\ assetVault' = [assetVault EXCEPT ![a].deposits = assetVault[a].deposits + amount,
                                          ![a].supply = assetVault[a].supply + minted]
  BY DEF Deposit
<1>2. /\ AssetTypes /\ amount \in Nat /\ amount \in 0 .. MaxU64
      /\ payer \in Accounts /\ VaultAccount \in Accounts /\ payer # VaultAccount
  BY AssetDomains DEF VaultsInv
<1>3. /\ assetVault[a].deposits \in Nat /\ assetVault[a].supply \in Nat
      /\ assetVault[a].nav \in Nat
      /\ Booked(a) = assetVault[a].deposits /\ Price(a) = assetVault[a].nav
      /\ assetVault[a].nav > 0
      /\ shareSupply[a] \in Nat /\ shareSupply[a] <= assetVault[a].supply
  BY <1>1, <1>2, VaultParts DEF VaultsInv, SharesCounted
<1>4. minted \in Nat
  BY <1>2, <1>3, PricesAreNatural
<1> HIDE DEF minted
<1>5. /\ tokens' \in [Assets -> [Accounts -> Nat]]
      /\ \A b \in Assets : b # a => tokens'[b] = tokens[b]
      /\ Held(a)' = Held(a) + amount
  BY <1>1, <1>2, TokensPaidIn
<1>6. /\ assetVault' \in [Assets -> AssetVault \cup {NoAccount}]
      /\ assetVault'[a] # NoAccount
      /\ assetVault'[a].supply = assetVault[a].supply + minted
      /\ Booked(a)' = Booked(a) + amount
      /\ Price(a)' = Price(a)
      /\ \A b \in Assets : b # a => assetVault'[b] = assetVault[b]
  <2>1. assetVault[a].deposits + amount \in Nat /\ assetVault[a].supply + minted \in Nat
    BY <1>2, <1>3, <1>4
  <2>2. QED
    BY <1>1, <1>2, <1>3, <2>1, BooksMove
<1>7. shares' \in [Assets -> [Wallets -> Nat]]
  <2>1. Credit(shares[a], recipient, minted) \in [Wallets -> Nat]
    BY <1>2, <1>4, Credited DEF AssetTypes
  <2>2. QED
    BY <1>1, <1>2, <2>1 DEF AssetTypes
<1>8. /\ shareSupply' \in [Assets -> Nat]
      /\ shareSupply'[a] = shareSupply[a] + minted
      /\ \A b \in Assets : b # a => shareSupply'[b] = shareSupply[b]
  BY <1>1, <1>2, <1>3, <1>4 DEF AssetTypes
<1>9. PoolStep(a)
  <2>1. minted = SharesFor(amount, Price(a))
    BY <1>3 DEF minted
  <2>2. QED
    BY <1>1, <1>2, <1>5, <1>6, <1>8, <2>1, PoolOperations
<1>10. AssetTypes'
  BY <1>5, <1>6, <1>7, <1>8 DEF AssetTypes
<1>11. shareSupply'[a] <= assetVault'[a].supply
  BY <1>3, <1>4, <1>6, <1>8
<1>12. QED
  BY <1>1, <1>5, <1>6, <1>8, <1>9, <1>10, <1>11, OneVault

LEMMA RedeemStep ==
    ASSUME VaultsInv, NEW a \in Assets, NEW w \in Wallets, NEW to \in Accounts,
           NEW amount \in ShareAmounts, Redeem(a, w, to, amount)
    PROVE  VaultsStep
<1> DEFINE payout == PayoutFor(amount, assetVault[a].nav)
<1>1. /\ a \in Registered
      /\ payout <= tokens[a][VaultAccount]
      /\ tokens' = [tokens EXCEPT ![a] = Move(@, VaultAccount, to, payout)]
      /\ Burn(a, w, amount)
      /\ amount <= assetVault[a].supply
      /\ assetVault' = [assetVault EXCEPT
            ![a].deposits = SaturatingSub(assetVault[a].deposits, payout),
            ![a].supply = assetVault[a].supply - amount]
  BY DEF Redeem, BookRedemption
<1>2. /\ AssetTypes /\ amount \in Nat /\ amount \in 0 .. MaxU64
      /\ VaultAccount \in Accounts
  BY AssetDomains DEF VaultsInv
<1>3. /\ assetVault[a].deposits \in Nat /\ assetVault[a].supply \in Nat
      /\ assetVault[a].nav \in Nat
      /\ Booked(a) = assetVault[a].deposits /\ Price(a) = assetVault[a].nav
      /\ shareSupply[a] \in Nat /\ shareSupply[a] <= assetVault[a].supply
  BY <1>1, <1>2, VaultParts DEF VaultsInv, SharesCounted
<1>4. payout \in Nat /\ payout = PayoutFor(amount, Price(a))
  BY <1>2, <1>3, PricesAreNatural
<1> HIDE DEF payout
<1>5. /\ shares' \in [Assets -> [Wallets -> Nat]] /\ shareSupply' \in [Assets -> Nat]
      /\ amount <= shareSupply[a] /\ shareSupply'[a] = shareSupply[a] - amount
      /\ \A b \in Assets : b # a => shareSupply'[b] = shareSupply[b]
  BY <1>1, <1>2, SharesBurn
<1>6. /\ assetVault' \in [Assets -> AssetVault \cup {NoAccount}]
      /\ assetVault'[a] # NoAccount
      /\ assetVault'[a].supply = assetVault[a].supply - amount
      /\ Booked(a)' = SaturatingSub(Booked(a), payout)
      /\ Price(a)' = Price(a)
      /\ \A b \in Assets : b # a => assetVault'[b] = assetVault[b]
  <2>1. /\ SaturatingSub(assetVault[a].deposits, payout) \in Nat
        /\ assetVault[a].supply - amount \in Nat
    BY <1>1, <1>2, <1>3, <1>4 DEF SaturatingSub
  <2>2. QED
    BY <1>1, <1>2, <1>3, <2>1, BooksMove
<1>7. /\ tokens' \in [Assets -> [Accounts -> Nat]]
      /\ \A b \in Assets : b # a => tokens'[b] = tokens[b]
      /\ Held(a)' = Held(a) - payout \/ Held(a)' = Held(a)
  BY <1>1, <1>2, <1>4, TokensMove
<1>8. PoolStep(a)
  <2>1. payout <= Held(a)
    BY <1>1 DEF Held
  <2>2. QED
    BY <1>2, <1>4, <1>5, <1>6, <1>7, <2>1, PoolOperations
<1>9. AssetTypes'
  BY <1>5, <1>6, <1>7 DEF AssetTypes
<1>10. shareSupply'[a] <= assetVault'[a].supply
  BY <1>2, <1>3, <1>5, <1>6
<1>11. QED
  BY <1>1, <1>5, <1>6, <1>7, <1>8, <1>9, <1>10, OneVault

(* With the program or without it, shares that change hands change nothing else. *)
LEMMA SendSharesStep ==
    ASSUME VaultsInv, NEW a \in Assets, NEW from \in Wallets, NEW to \in Wallets,
           NEW amount \in ShareAmounts, SendShares(a, from, to, amount)
    PROVE  VaultsStep
<1>1. /\ AssetTypes /\ amount \in Nat /\ amount <= shares[a][from]
      /\ shares' = [shares EXCEPT ![a] = Move(shares[a], from, to, amount)]
      /\ UNCHANGED <<assetVault, tokens, shareSupply>>
  BY AssetDomains DEF VaultsInv, SendShares
<1>2. Move(shares[a], from, to, amount) \in [Wallets -> Nat]
  BY <1>1, Moved DEF AssetTypes
<1>3. AssetTypes'
  BY <1>1, <1>2 DEF AssetTypes
<1>4. QED
  BY <1>1, <1>3, UntouchedStep

(* Asset tokens that arrive from a faucet or a wallet: to the vault, they are a donation. *)
LEMMA TokenStep ==
    ASSUME VaultsInv, NEW a \in Assets, NEW from \in Wallets, NEW to \in Accounts,
           NEW amount \in DepositAmounts,
           Faucet(a, from, amount) \/ SendTokens(a, from, to, amount)
    PROVE  VaultsStep
<1>1. /\ AssetTypes /\ amount \in Nat /\ amount \in 0 .. MaxU64
      /\ from \in Accounts /\ VaultAccount \in Accounts /\ from # VaultAccount
      /\ UNCHANGED <<assetVault, shares, shareSupply>>
  BY AssetDomains DEF VaultsInv, Faucet, SendTokens
<1>2. UNCHANGED <<Booked(a), Price(a), shareSupply[a]>>
  BY <1>1 DEF Booked, Price, Registered
<1>3. ASSUME tokens' \in [Assets -> [Accounts -> Nat]],
             \A b \in Assets : b # a => tokens'[b] = tokens[b],
             Held(a)' = Held(a) \/ Held(a)' = Held(a) + amount
      PROVE  VaultsStep
  <2>1. AssetTypes'
    BY <1>1, <1>3 DEF AssetTypes
  <2>2. PoolStep(a)
    BY <1>1, <1>2, <1>3, SamePool, PoolOperations
  <2>3. QED
    BY <1>1, <1>3, <2>1, <2>2, OneVault DEF VaultsInv, SharesCounted, Registered
<1>4. CASE Faucet(a, from, amount)
  <2> DEFINE credited == Credit(tokens[a], from, amount)
  <2>1. /\ credited \in [Accounts -> Nat]
        /\ credited[VaultAccount] = tokens[a][VaultAccount]
    <3>1. tokens[a] \in [Accounts -> Nat]
      BY <1>1 DEF AssetTypes
    <3>2. QED
      BY <1>1, <3>1 DEF Credit
  <2>2. tokens' = [tokens EXCEPT ![a] = credited]
    BY <1>4 DEF Faucet
  <2> HIDE DEF credited
  <2>3. /\ tokens' \in [Assets -> [Accounts -> Nat]]
        /\ \A b \in Assets : b # a => tokens'[b] = tokens[b]
        /\ Held(a)' = Held(a)
    BY <1>1, <2>1, <2>2 DEF AssetTypes, Held
  <2>4. QED
    BY <1>3, <2>3
<1>5. CASE SendTokens(a, from, to, amount)
  <2>1. /\ amount <= tokens[a][from]
        /\ tokens' = [tokens EXCEPT ![a] = Move(@, from, to, amount)]
    BY <1>5 DEF SendTokens
  <2>2. QED
    BY <1>1, <1>3, <2>1, TokensMove
<1>6. QED
  BY <1>4, <1>5

LEMMA DiscardStep ==
    ASSUME VaultsInv, NEW a \in Assets, NEW w \in Wallets, NEW amount \in ShareAmounts,
           DiscardShares(a, w, amount)
    PROVE  VaultsStep
<1>1. /\ AssetTypes /\ Burn(a, w, amount) /\ amount \in 0 .. MaxU64
      /\ UNCHANGED <<assetVault, tokens>>
  BY AssetDomains DEF VaultsInv, DiscardShares
<1>2. /\ shares' \in [Assets -> [Wallets -> Nat]] /\ shareSupply' \in [Assets -> Nat]
      /\ amount \in Nat /\ amount <= shareSupply[a] /\ shareSupply'[a] = shareSupply[a] - amount
      /\ \A b \in Assets : b # a => shareSupply'[b] = shareSupply[b]
  BY <1>1, SharesBurn
<1>3. AssetTypes'
  BY <1>1, <1>2 DEF AssetTypes
<1>4. PoolStep(a)
  <2>1. UNCHANGED <<Held(a), Booked(a), Price(a)>>
    BY <1>1 DEF Held, Booked, Price, Registered
  <2>2. QED
    BY <1>1, <1>2, <2>1, PoolOperations
<1>5. /\ shareSupply[a] \in Nat
      /\ a \in Registered => assetVault[a].supply \in Nat /\ shareSupply[a] <= assetVault[a].supply
      /\ a \notin Registered => shareSupply[a] = 0
  BY <1>1, VaultParts DEF VaultsInv, SharesCounted
<1>6. /\ a \in Registered => shareSupply'[a] <= assetVault'[a].supply
      /\ a \notin Registered => shareSupply'[a] = 0
  BY <1>1, <1>2, <1>5
<1>7. a \in Registered <=> assetVault'[a] # NoAccount
  BY <1>1 DEF Registered
<1>8. QED
  BY <1>1, <1>2, <1>3, <1>4, <1>6, <1>7, OneVault

-----------------------------------------------------------------------------
LEMMA EveryStep ==
    ASSUME VaultsInv, [AssetNext]_vaultVars
    PROVE  VaultsStep
<1>1. CASE Authority
  BY <1>1, RegisterStep, AdministrationStep, TokenStep, AssetDomains DEF Authority
<1>2. CASE Investors
  BY <1>2, DepositStep, RedeemStep, SendSharesStep DEF Investors, TransferShares
<1>3. CASE TokenHolders
  BY <1>3, SendSharesStep, TokenStep, DiscardStep DEF TokenHolders
<1>4. ASSUME UNCHANGED <<assetVault, tokens, shares, shareSupply>>
      PROVE  VaultsStep
  <2>1. AssetTypes'
    BY <1>4 DEF VaultsInv, AssetTypes
  <2>2. QED
    BY <1>4, <2>1, UntouchedStep
<1>5. CASE Compliances \/ UNCHANGED vaultVars
  BY <1>4, <1>5 DEF Compliances, vaultVars
<1>6. QED
  BY <1>1, <1>2, <1>3, <1>5 DEF AssetNext

LEMMA VaultsStart ==
    ASSUME AssetInit
    PROVE  VaultsInv
<1>1. /\ assetVault = [a \in Assets |-> NoAccount]
      /\ tokens = [a \in Assets |-> [x \in Accounts |-> 0]]
      /\ shares = [a \in Assets |-> [w \in Wallets |-> 0]]
      /\ shareSupply = [a \in Assets |-> 0]
  BY DEF AssetInit
<1>2. AssetTypes
  BY <1>1 DEF AssetTypes
<1>3. Registered = {}
  BY <1>1 DEF Registered
<1>4. Cardinality(Registered) <= MaxAssets
  BY <1>3, FS_EmptySet, AssetDomains
<1>5. SharesCounted
  BY <1>1, <1>3 DEF SharesCounted
<1>6. \A a \in Assets : Booked(a) = 0 /\ Held(a) = 0 /\ Price(a) = Denominator
  BY <1>1, <1>3, AssetDomains DEF Booked, Held, Price
<1>7. QED
  BY <1>2, <1>4, <1>5, <1>6, AssetDomains DEF VaultsInv

THEOREM VaultsInvariant == AssetSpec => []VaultsInv
<1>1. AssetInit => VaultsInv
  BY VaultsStart
<1>2. VaultsInv /\ [AssetNext]_vaultVars => VaultsInv'
  <2> SUFFICES ASSUME VaultsInv, [AssetNext]_vaultVars
               PROVE  VaultsInv'
    OBVIOUS
  <2>1. VaultsStep
    BY EveryStep
  <2>2. \A a \in Assets : Booked(a)' <= Held(a)' /\ Price(a)' > 0
    BY <2>1, BackingKept DEF VaultsInv, VaultsStep
  <2>3. QED
    BY <2>1, <2>2 DEF VaultsInv, VaultsStep
<1>3. QED
  BY <1>1, <1>2, PTL DEF AssetSpec

(* The factory and its vaults keep their types, and the factory its capacity. *)
THEOREM AssetTypeCorrect == AssetSpec => []AssetTypeOK
<1>1. ComplianceTypeOK /\ VaultsInv => AssetTypeOK
  BY DEF VaultsInv, AssetTypes, AssetTypeOK
<1>2. QED
  BY <1>1, AssetVaultsKeepGate, ComplianceTypeCorrect, VaultsInvariant, PTL

(* However prices move, whoever redeems, burns or gives away what: total_deposits is in custody *)
(* and total_supply counts every share, in every vault of the factory.                         *)
THEOREM BooksAlwaysCovered == AssetSpec => []BooksCovered
<1>1. VaultsInv => BooksCovered
  BY DEF VaultsInv, SharesCounted, BooksCovered, Booked, Held, Registered
<1>2. QED
  BY <1>1, VaultsInvariant, PTL

(* Each vault of the factory is a NAV-priced pool of its own. *)
THEOREM VaultsImplementPools == AssetSpec => ImplementsNavPools
<1>1. AssetInit => \A a \in Assets : Pool(a)!PoolInit
  <2> SUFFICES ASSUME AssetInit, NEW a \in Assets
               PROVE  Pool(a)!PoolInit
    OBVIOUS
  <2>1. a \notin Registered
    BY DEF AssetInit, Registered
  <2>2. tokens[a][VaultAccount] = 0 /\ shareSupply[a] = 0
    BY AssetDomains DEF AssetInit
  <2>3. QED
    BY <2>1, <2>2 DEF Pool!PoolInit
<1>2. VaultsInv /\ [AssetNext]_vaultVars
      => [\A a \in Assets : [Pool(a)!PoolNext]_<<Pool(a)!poolVars>>]_vaultVars
  BY EveryStep DEF VaultsStep, PoolStep
<1>3. QED
  BY <1>1, <1>2, VaultsInvariant, PTL DEF AssetSpec, ImplementsNavPools

-----------------------------------------------------------------------------
(* Tokens and shares exchanged at the NAV or worse leave the vault no worse off. *)
NoWorseOff(a) ==
    Held(a)' * Denominator + shareSupply[a] * Price(a)
       >= Held(a) * Denominator + shareSupply'[a] * Price(a)

LEMMA ExchangeAtPrice ==
    ASSUME NEW h \in Nat, NEW s \in Nat, NEW price \in Nat, NEW den \in Nat,
           NEW moneyIn \in Int, NEW sharesOut \in Int,
           moneyIn * den >= sharesOut * price
    PROVE  (h + moneyIn) * den + s * price >= h * den + (s + sharesOut) * price
<1>1. /\ (h + moneyIn) * den = h * den + moneyIn * den
      /\ (s + sharesOut) * price = s * price + sharesOut * price
  BY SMT
<1>2. /\ h * den \in Int /\ moneyIn * den \in Int
      /\ s * price \in Int /\ sharesOut * price \in Int
  BY SMT
<1>3. QED
  BY <1>1, <1>2

(* Neither division gives more than the price says. *)
LEMMA PricesRoundDown ==
    ASSUME NEW amount \in Nat, NEW nav \in Nat
    PROVE  /\ PayoutFor(amount, nav) * Denominator <= amount * nav
           /\ nav > 0 => SharesFor(amount, nav) * nav <= amount * Denominator
<1>1. \A x \in Nat, y \in Nat : y > 0 => (x \div y) * y <= x
  BY SMT
<1>2. amount * nav \in Nat /\ amount * Denominator \in Nat
  BY AssetDomains
<1>3. QED
  BY <1>1, <1>2, AssetDomains DEF PayoutFor, SharesFor

LEMMA PoolRoundsDown ==
    ASSUME NEW a \in Assets, AssetTypes, AssetTypes', Price(a) > 0, PoolStep(a),
           Price(a)' = Price(a)
    PROVE  NoWorseOff(a)
<1>1. /\ Held(a) \in Nat /\ shareSupply[a] \in Nat /\ Price(a) \in Nat
      /\ Held(a)' \in Nat /\ shareSupply'[a] \in Nat /\ Denominator \in Nat
  <2>1. Held(a) \in Nat /\ shareSupply[a] \in Nat /\ Price(a) \in Nat
    BY VaultParts
  <2>2. Held(a)' \in Nat /\ shareSupply'[a] \in Nat
    BY AssetDomains DEF AssetTypes, Held
  <2>3. QED
    BY <2>1, <2>2, AssetDomains
<1>2. ASSUME NEW moneyIn \in Int, NEW sharesOut \in Int,
             Held(a)' = Held(a) + moneyIn, shareSupply'[a] = shareSupply[a] + sharesOut,
             moneyIn * Denominator >= sharesOut * Price(a)
      PROVE  NoWorseOff(a)
  BY <1>1, <1>2, ExchangeAtPrice DEF NoWorseOff
<1>3. CASE UNCHANGED Pool(a)!poolVars
  BY <1>1, <1>3 DEF Pool!poolVars, NoWorseOff, Held
<1>4. ASSUME NEW x \in 0 .. MaxU64, Pool(a)!Subscribe(x)
      PROVE  NoWorseOff(a)
  <2>1. x \in Nat /\ x \in Int
    BY AssetDomains
  <2>2. /\ SharesFor(x, Price(a)) \in Nat
        /\ SharesFor(x, Price(a)) * Price(a) <= x * Denominator
    BY <1>1, <2>1, PricesAreNatural, PricesRoundDown
  <2>3. /\ Held(a)' = Held(a) + x
        /\ shareSupply'[a] = shareSupply[a] + SharesFor(x, Price(a))
    BY <1>4 DEF Pool!Subscribe, Pool!SharesFor, SharesFor, Held, Price
  <2>4. x * Denominator >= SharesFor(x, Price(a)) * Price(a)
    BY <1>1, <2>1, <2>2
  <2>5. QED
    BY <1>2, <2>1, <2>2, <2>3, <2>4
<1>5. ASSUME NEW x \in 0 .. MaxU64,
             Pool(a)!PayOut(x) \/ Pool(a)!Return(x) \/ Pool(a)!Forfeit(x) \/ Pool(a)!Donate(x)
      PROVE  NoWorseOff(a)
  <2>1. x \in Nat /\ 0 - x \in Int
    BY AssetDomains
  <2>2. PICK paid \in Nat : paid = PayoutFor(x, Price(a)) /\ paid * Denominator <= x * Price(a)
    BY <1>1, <2>1, PricesAreNatural, PricesRoundDown
  <2>3. /\ (0 - paid) * Denominator >= (0 - x) * Price(a)
        /\ 0 * Denominator >= (0 - x) * Price(a)
        /\ x * Denominator >= 0 * Price(a)
    BY <1>1, <2>1, <2>2
  <2>4. CASE Pool(a)!PayOut(x)
    <3>1. /\ Held(a)' = Held(a) + (0 - paid)
          /\ shareSupply'[a] = shareSupply[a] + (0 - x)
      BY <1>1, <2>1, <2>2, <2>4 DEF Pool!PayOut, Pool!MoneyFor, PayoutFor, Held, Price
    <3>2. QED
      BY <1>2, <2>1, <2>2, <2>3, <3>1
  <2>5. CASE Pool(a)!Return(x) \/ Pool(a)!Forfeit(x)
    <3>1. Held(a)' = Held(a) + 0 /\ shareSupply'[a] = shareSupply[a] + (0 - x)
      BY <1>1, <2>1, <2>5 DEF Pool!Return, Pool!Forfeit, Held
    <3>2. QED
      BY <1>2, <2>1, <2>3, <3>1
  <2>6. CASE Pool(a)!Donate(x)
    <3>1. Held(a)' = Held(a) + x /\ shareSupply'[a] = shareSupply[a] + 0
      BY <1>1, <2>6 DEF Pool!Donate, Held
    <3>2. QED
      BY <1>2, <2>1, <2>3, <3>1
  <2>7. QED
    BY <1>5, <2>4, <2>5, <2>6
<1>6. ASSUME NEW price \in 0 .. MaxU64, Pool(a)!Reprice(price)
      PROVE  NoWorseOff(a)
  BY <1>1, <1>6 DEF Pool!Reprice, NoWorseOff, Held
<1>7. QED
  BY <1>3, <1>4, <1>5, <1>6 DEF PoolStep, Pool!PoolNext

(* At a constant NAV no step of the factory worsens the position of any of its vaults. *)
THEOREM RoundingAlwaysFavoursVaults == AssetSpec => RoundingFavoursVaults
<1>1. ASSUME VaultsInv, [AssetNext]_vaultVars, NEW a \in Registered,
             assetVault'[a].nav = assetVault[a].nav
      PROVE  tokens'[a][VaultAccount] * Denominator + shareSupply[a] * assetVault[a].nav
                >= tokens[a][VaultAccount] * Denominator + shareSupply'[a] * assetVault[a].nav
  <2>1. a \in Assets
    BY DEF Registered
  <2>2. VaultsStep
    BY <1>1, EveryStep
  <2>3. a \in Registered'
    BY <1>1, <2>2 DEF VaultsStep
  <2>4. Price(a)' = Price(a) /\ Price(a) = assetVault[a].nav
    BY <1>1, <2>1, <2>3 DEF Price
  <2>5. NoWorseOff(a)
    BY <1>1, <2>1, <2>2, <2>4, PoolRoundsDown DEF VaultsInv, VaultsStep
  <2>6. QED
    BY <2>4, <2>5 DEF NoWorseOff, Held
<1>2. VaultsInv /\ [AssetNext]_vaultVars
        => [\A a \in Registered :
              assetVault'[a].nav = assetVault[a].nav =>
                 tokens'[a][VaultAccount] * Denominator + shareSupply[a] * assetVault[a].nav
                    >= tokens[a][VaultAccount] * Denominator + shareSupply'[a] * assetVault[a].nav]_vaultVars
  BY <1>1
<1>3. QED
  BY <1>2, VaultsInvariant, PTL DEF AssetSpec, RoundingFavoursVaults

(* A credential that lapsed stays lapsed in every vault of the factory. *)
THEOREM LapseFinalAcrossVaults == AssetSpec => LapseIsFinal
BY AssetVaultsKeepGate, LapseIsAlwaysFinal, PTL

-----------------------------------------------------------------------------
(* CredentialDesk                                                                              *)
USE WalletsAssumption, AmountsAssumption, ThresholdAssumption, NoncesAssumption,
    NoAccountAssumption

(* What the program did for a request whose transaction was executed *)
Done(op, w) == IF op = "issue" THEN Issued(w) ELSE Revoked(w)

PastChain == {"landed", "storing", "auditing"}

(* An executed transaction that its request has yet to record: the chain bears it out, and the   *)
(* audit trail does not have it already.                                                       *)
ExecutedUnaudited ==
    \A s \in Slots : request[s].pc \in PastChain =>
        /\ Done(request[s].tx.op, request[s].tx.wallet)
        /\ audited[<<request[s].tx.wallet, request[s].tx.op>>] = 0

(* The program executes an issue, or a revocation, of one wallet for one request only. *)
ExecutedForOne ==
    \A s, t \in Slots :
        /\ request[s].pc \in PastChain
        /\ request[t].pc \in PastChain
        /\ request[s].tx.op = request[t].tx.op
        /\ request[s].tx.wallet = request[t].tx.wallet
        => s = t

AuditBorneOut ==
    \A w \in Wallets, op \in Operations :
        /\ audited[<<w, op>>] <= 1
        /\ audited[<<w, op>>] = 1 => Done(op, w)

(* The row of an issue is there when its audit event is due, and stays. *)
IssueStored ==
    /\ \A w \in Wallets : audited[<<w, "issue">>] = 1 => institution[w] # "none"
    /\ \A s \in Slots :
          request[s].pc = "auditing" /\ request[s].tx.op = "issue"
          => institution[request[s].tx.wallet] # "none"

(* A wallet that a verify has denied is denied by the chain for good. *)
DeniedByChain ==
    \A w \in denied : Issued(w) /\ (Revoked(w) \/ credential[w].expiresAt < now)

DenialRemembered ==
    \A s \in Slots :
        request[s].pc \in {"reading", "falling back", "verified"} /\ request[s].afterDenial
        => request[s].wallet \in denied

DeskInv ==
    /\ ExecutedUnaudited
    /\ ExecutedForOne
    /\ AuditBorneOut
    /\ IssueStored
    /\ RegisterBehindChain
    /\ DeniedByChain
    /\ DenialRemembered
    /\ DenialIsFinal

-----------------------------------------------------------------------------
(* A verify that falls back to the row is a request as before. *)
LastResort(r) ==
    LET f == [r EXCEPT !.pc = "falling back"] IN
    /\ f \in Request
    /\ f.pc = "falling back"
    /\ f.wallet = r.wallet
    /\ f.afterDenial = r.afterDenial

(* What a request in each state carries *)
LEMMA RequestShape ==
    ASSUME DeskTypeOK, NEW s \in Slots
    PROVE  /\ request[s] \in Request
           /\ request[s].pc \in {"checking", "sending"} \cup PastChain =>
                 /\ request[s].tx \in Transaction
                 /\ request[s].tx.op \in Operations
                 /\ request[s].tx.wallet \in Wallets
                 /\ request[s].tx.op = "issue" =>
                       request[s].tx.issuedAt \in Times /\ request[s].tx.expiresAt \in ExpiryDates
                 /\ \A pc \in {"checking", "sending"} \cup PastChain :
                       [request[s] EXCEPT !.pc = pc] = [pc |-> pc, tx |-> request[s].tx]
           /\ request[s].pc \in {"reading", "falling back", "verified"} =>
                 /\ request[s].wallet \in Wallets
                 /\ request[s].afterDenial \in BOOLEAN
           /\ request[s].pc = "reading" => LastResort(request[s])
<1> DEFINE r == request[s]
           Sending == [pc : {"checking", "sending", "landed", "storing", "auditing"}, tx : Transaction]
           Reading == [pc : {"reading", "falling back"}, wallet : Wallets, afterDenial : BOOLEAN]
           Read == [pc : {"verified"}, wallet : Wallets, afterDenial : BOOLEAN, verdict : Verdicts]
<1>1. r \in Request
  BY DEF DeskTypeOK
<1>2. \/ r.pc \in {"idle", "replied"}
      \/ r \in Sending /\ r.pc \in {"checking", "sending"} \cup PastChain
      \/ r \in Reading /\ r.pc \in {"reading", "falling back"}
      \/ r \in Read /\ r.pc = "verified"
  <2>1. \/ r = Idle \/ r \in Sending \/ r \in Reading \/ r \in Read
        \/ r \in [pc : {"replied"}, reply : {"success", "conflict", "failed"}]
    BY <1>1 DEF Request
  <2>2. r = Idle => r.pc = "idle"
    BY DEF Idle
  <2>3. r \in Sending => r.pc \in {"checking", "sending"} \cup PastChain
    BY DEF PastChain
  <2>4. r \in Reading => r.pc \in {"reading", "falling back"}
    OBVIOUS
  <2>5. r \in Read => r.pc = "verified"
    OBVIOUS
  <2>6. r \in [pc : {"replied"}, reply : {"success", "conflict", "failed"}] => r.pc = "replied"
    OBVIOUS
  <2>7. QED
    BY <2>1, <2>2, <2>3, <2>4, <2>5, <2>6
<1>3. ASSUME r.pc \in {"checking", "sending"} \cup PastChain
      PROVE  /\ r.tx \in Transaction
             /\ r.tx.op \in Operations
             /\ r.tx.wallet \in Wallets
             /\ r.tx.op = "issue" => r.tx.issuedAt \in Times /\ r.tx.expiresAt \in ExpiryDates
             /\ \A pc \in {"checking", "sending"} \cup PastChain :
                   [r EXCEPT !.pc = pc] = [pc |-> pc, tx |-> r.tx]
  <2>1. r \in Sending
    BY <1>2, <1>3 DEF PastChain
  <2>2. r.tx \in Transaction
    BY <2>1
  <2>3. QED
    BY <2>1, <2>2 DEF Transaction, Operations
<1>4. ASSUME r.pc \in {"reading", "falling back", "verified"}
      PROVE  /\ r.wallet \in Wallets
             /\ r.afterDenial \in BOOLEAN
             /\ r.pc = "reading" => LastResort(r)
  <2>1. (r \in Reading /\ r.pc # "verified") \/ (r \in Read /\ r.pc = "verified")
    BY <1>2, <1>4 DEF PastChain
  <2>2. ASSUME r \in Reading
        PROVE  LastResort(r)
    <3> HIDE DEF r
    <3> DEFINE f == [r EXCEPT !.pc = "falling back"]
    <3>1. f \in Reading
      BY <2>2
    <3>2. /\ f.pc = "falling back"
          /\ f.wallet = r.wallet
          /\ f.afterDenial = r.afterDenial
      BY <2>2
    <3>3. f \in Request
      BY <3>1 DEF Request
    <3>4. QED
      BY <3>2, <3>3 DEF LastResort
  <2>3. r \in Reading \cup Read => r.wallet \in Wallets /\ r.afterDenial \in BOOLEAN
    OBVIOUS
  <2>4. QED
    BY <2>1, <2>2, <2>3
<1>5. QED
  BY <1>1, <1>3, <1>4

-----------------------------------------------------------------------------
(* A step of one request that changes neither chain nor database, and executes nothing *)
PlainStep(s, r) ==
    /\ r \in Request
    /\ request' = [request EXCEPT ![s] = r]
    /\ r.pc \notin {"auditing", "verified"}
    /\ r.pc \in PastChain => request[s].pc \in PastChain /\ r.tx = request[s].tx
    /\ r.pc \in {"reading", "falling back"} /\ r.afterDenial => r.wallet \in denied
    /\ late' \subseteq Transaction
    /\ UNCHANGED <<complianceVars, registerVars, denied>>

Asks(s) ==
    \/ \E w \in Wallets, expiresAt \in ExpiryDates : AskIssue(s, w, expiresAt)
    \/ \E w \in Wallets : AskRevoke(s, w) \/ AskVerify(s, w)

LEMMA PlainSteps ==
    ASSUME DeskTypeOK, DenialRemembered, NEW s \in Slots,
           \/ Asks(s) \/ FindExisting(s) \/ FindNone(s) \/ Confirm(s) \/ SendFails(s)
           \/ GiveUp(s) \/ DatabaseFails(s) \/ ReadFails(s) \/ Close(s)
    PROVE  \E r : PlainStep(s, r)
<1> USE DEF OnlyRequest, Becomes, Proceeds, Replies
<1>1. /\ late \subseteq Transaction
      /\ now \in Times
  BY DEF DeskTypeOK, ComplianceTypeOK
<1>2. ASSUME NEW w \in Wallets, NEW expiresAt \in ExpiryDates, AskIssue(s, w, expiresAt)
      PROVE  \E r : PlainStep(s, r)
  <2> DEFINE tx == [op |-> "issue", wallet |-> w, issuedAt |-> now, expiresAt |-> expiresAt]
             r == [pc |-> "checking", tx |-> tx]
  <2>1. tx \in Transaction
    BY <1>1 DEF Transaction
  <2>2. r \in Request
    BY <2>1 DEF Request
  <2>3. PlainStep(s, r)
    BY <1>1, <1>2, <2>2 DEF PlainStep, AskIssue, PastChain
  <2>4. QED
    BY <2>3
<1>3. ASSUME NEW w \in Wallets, AskRevoke(s, w)
      PROVE  \E r : PlainStep(s, r)
  <2> DEFINE tx == [op |-> "revoke", wallet |-> w]
             r == [pc |-> "sending", tx |-> tx]
  <2>1. tx \in Transaction
    BY DEF Transaction
  <2>2. r \in Request
    BY <2>1 DEF Request
  <2>3. PlainStep(s, r)
    BY <1>1, <1>3, <2>2 DEF PlainStep, AskRevoke, PastChain
  <2>4. QED
    BY <2>3
<1>4. ASSUME NEW w \in Wallets, AskVerify(s, w)
      PROVE  \E r : PlainStep(s, r)
  <2> DEFINE r == [pc |-> "reading", wallet |-> w, afterDenial |-> w \in denied]
  <2>1. r \in Request
    BY DEF Request
  <2>2. PlainStep(s, r)
    BY <1>1, <1>4, <2>1 DEF PlainStep, AskVerify, PastChain
  <2>3. QED
    BY <2>2
<1>5. ASSUME NEW reply \in {"success", "conflict", "failed"}, Replies(s, reply),
             late' \subseteq Transaction, UNCHANGED <<complianceVars, registerVars, denied>>
      PROVE  \E r : PlainStep(s, r)
  <2> DEFINE r == [pc |-> "replied", reply |-> reply]
  <2>1. r \in Request
    BY DEF Request
  <2>2. PlainStep(s, r)
    BY <1>5, <2>1 DEF PlainStep, PastChain
  <2>3. QED
    BY <2>2
<1>6. CASE FindExisting(s)
  BY <1>1, <1>5, <1>6 DEF FindExisting
<1>7. ASSUME request[s].pc \in {"checking", "sending"} \cup PastChain,
             NEW pc \in {"sending", "storing"}, Proceeds(s, pc), OnlyRequest,
             pc = "storing" => request[s].pc = "landed"
      PROVE  \E r : PlainStep(s, r)
  <2> DEFINE r == [pc |-> pc, tx |-> request[s].tx]
  <2>1. request[s].tx \in Transaction /\ request' = [request EXCEPT ![s] = r]
    BY <1>7, RequestShape DEF DeskTypeOK, PastChain
  <2>2. r \in Request
    BY <2>1 DEF Request
  <2>3. PlainStep(s, r)
    BY <1>1, <1>7, <2>1, <2>2 DEF PlainStep, PastChain
  <2>4. QED
    BY <2>3
<1>8. CASE FindNone(s)
  BY <1>7, <1>8 DEF FindNone, PastChain
<1>9. CASE Confirm(s)
  BY <1>7, <1>9 DEF Confirm, PastChain
<1>10. CASE SendFails(s)
  BY <1>1, <1>5, <1>10 DEF SendFails
<1>11. CASE GiveUp(s)
  <2>1. late' \subseteq Transaction
    BY <1>1, <1>11, RequestShape DEF GiveUp
  <2>2. QED
    BY <1>5, <1>11, <2>1 DEF GiveUp
<1>12. CASE DatabaseFails(s)
  BY <1>1, <1>5, <1>12 DEF DatabaseFails
<1>13. CASE ReadFails(s)
  <2> DEFINE r == [request[s] EXCEPT !.pc = "falling back"]
  <2>1. request[s].pc = "reading"
    BY <1>13 DEF ReadFails
  <2>2. r \in Request /\ r.pc = "falling back" /\ r.wallet = request[s].wallet
        /\ r.afterDenial = request[s].afterDenial
    BY <2>1, RequestShape DEF LastResort
  <2>3. r.afterDenial => r.wallet \in denied
    BY <2>1, <2>2 DEF DenialRemembered
  <2> HIDE DEF r
  <2>4. request' = [request EXCEPT ![s] = r]
    BY <1>13 DEF ReadFails, r
  <2>5. PlainStep(s, r)
    BY <1>1, <1>13, <2>2, <2>3, <2>4 DEF PlainStep, ReadFails, PastChain
  <2>6. QED
    BY <2>5
<1>14. CASE Close(s)
  <2>1. Idle \in Request
    BY DEF Request
  <2>2. PlainStep(s, Idle)
    BY <1>1, <1>14, <2>1 DEF PlainStep, Close, PastChain, Idle
  <2>3. QED
    BY <2>2
<1>15. QED
  BY <1>2, <1>3, <1>4, <1>6, <1>8, <1>9, <1>10, <1>11, <1>12, <1>13, <1>14 DEF Asks
-----------------------------------------------------------------------------
(* What is done on the chain stays done, whatever is executed and however time passes. *)
ChainKeeps ==
    /\ now' \in Times /\ now' >= now
    /\ ComplianceTypeOK'
    /\ \A w \in Wallets :
          /\ Issued(w) => Issued(w)' /\ credential'[w].expiresAt = credential[w].expiresAt
          /\ Revoked(w) => Revoked(w)'

LEMMA ExecutionKeeps ==
    ASSUME DeskTypeOK, NEW tx \in Transaction, Execute(tx)
    PROVE  /\ ChainKeeps
           /\ Done(tx.op, tx.wallet)'
           /\ ~Done(tx.op, tx.wallet)
<1>1. /\ credential \in [Wallets -> Credential \cup {NoAccount}]
      /\ now \in Times /\ now' = now
      /\ ComplianceTypeOK
      /\ tx.wallet \in Wallets
  BY DEF DeskTypeOK, ComplianceTypeOK, Execute, Transaction
<1>2. /\ UNCHANGED <<travelRecord, largeDeposits>>
      /\ now' >= now
  BY <1>1 DEF Execute, IssueCredential, RevokeCredential, Times
<1>3. ASSUME tx.op = "issue", IssueCredential(tx.wallet, tx.issuedAt, tx.expiresAt)
      PROVE  /\ credential' \in [Wallets -> Credential \cup {NoAccount}]
             /\ \A w \in Wallets : Issued(w) => credential'[w] = credential[w]
             /\ Issued(tx.wallet)' /\ ~Issued(tx.wallet)
  <2> DEFINE c == [status |-> "active", expiresAt |-> tx.expiresAt]
  <2>1. c \in Credential
    BY <1>3 DEF Transaction, Credential
  <2>2. c # NoAccount
    BY <2>1
  <2>3. credential' = [credential EXCEPT ![tx.wallet] = c]
    BY <1>3 DEF IssueCredential
  <2> HIDE DEF c
  <2>4. credential[tx.wallet] = NoAccount
    BY <1>3 DEF IssueCredential, CanIssue
  <2>5. QED
    BY <1>1, <2>1, <2>2, <2>3, <2>4 DEF Issued
<1>4. ASSUME tx.op = "revoke", RevokeCredential(tx.wallet)
      PROVE  /\ credential' \in [Wallets -> Credential \cup {NoAccount}]
             /\ \A w \in Wallets : w # tx.wallet => credential'[w] = credential[w]
             /\ credential'[tx.wallet].expiresAt = credential[tx.wallet].expiresAt
             /\ Revoked(tx.wallet)' /\ ~Revoked(tx.wallet)
  <2> DEFINE c == [credential[tx.wallet] EXCEPT !.status = "revoked"]
  <2>1. credential[tx.wallet] \in Credential /\ credential[tx.wallet].status # "revoked"
    BY <1>1, <1>4 DEF RevokeCredential
  <2>2. c \in Credential /\ c.status = "revoked" /\ c.expiresAt = credential[tx.wallet].expiresAt
    BY <2>1 DEF Credential
  <2>3. credential' = [credential EXCEPT ![tx.wallet] = c]
    BY <1>4 DEF RevokeCredential
  <2> HIDE DEF c
  <2>4. c # NoAccount
    BY <2>2
  <2>5. QED
    BY <1>1, <2>1, <2>2, <2>3, <2>4 DEF Issued, Revoked
<1>5. CASE tx.op = "issue" /\ IssueCredential(tx.wallet, tx.issuedAt, tx.expiresAt)
  <2>1. ComplianceTypeOK'
    BY <1>1, <1>2, <1>3, <1>5 DEF ComplianceTypeOK
  <2>2. QED
    BY <1>1, <1>2, <1>3, <1>5, <2>1 DEF ChainKeeps, Done, Issued, Revoked
<1>6. CASE tx.op = "revoke" /\ RevokeCredential(tx.wallet)
  <2>1. ComplianceTypeOK'
    BY <1>1, <1>2, <1>4, <1>6 DEF ComplianceTypeOK
  <2>2. \A w \in Wallets : Issued(w) => Issued(w)' /\ credential'[w].expiresAt = credential[w].expiresAt
    BY <1>4, <1>6 DEF Issued, Revoked
  <2>3. \A w \in Wallets : Revoked(w) => Revoked(w)'
    BY <1>4, <1>6 DEF Issued, Revoked
  <2>4. QED
    BY <1>1, <1>2, <1>4, <1>6, <2>1, <2>2, <2>3 DEF ChainKeeps, Done
<1>7. QED
  BY <1>5, <1>6 DEF Execute

LEMMA TickKeeps ==
    ASSUME DeskTypeOK, ClockTicks
    PROVE  ChainKeeps
<1>1. now \in Times /\ now' = now + 1 /\ now < MaxTime
  BY DEF DeskTypeOK, ComplianceTypeOK, ClockTicks, Tick
<1>2. now' \in Times /\ now' >= now
  BY <1>1 DEF Times
<1>3. UNCHANGED <<credential, travelRecord, largeDeposits>>
  BY DEF ClockTicks
<1>4. ComplianceTypeOK'
  BY <1>2, <1>3 DEF DeskTypeOK, ComplianceTypeOK
<1>5. QED
  BY <1>2, <1>3, <1>4 DEF ChainKeeps, Issued, Revoked

LEMMA UnchangedKeeps ==
    ASSUME DeskTypeOK, UNCHANGED complianceVars
    PROVE  ChainKeeps
<1>1. now \in Times /\ now' = now
  BY DEF DeskTypeOK, ComplianceTypeOK, complianceVars
<1>2. now' \in Times /\ now' >= now
  BY <1>1 DEF Times
<1>3. ComplianceTypeOK'
  BY DEF DeskTypeOK, ComplianceTypeOK, complianceVars
<1>4. QED
  BY <1>2, <1>3 DEF ChainKeeps, Issued, Revoked, complianceVars
-----------------------------------------------------------------------------
LEMMA PlainStepKeeps ==
    ASSUME DeskTypeOK, DeskInv, NEW s \in Slots, NEW r, PlainStep(s, r)
    PROVE  DeskTypeOK' /\ DeskInv'
<1> USE DEF DeskInv
<1>1. /\ UNCHANGED <<now, credential, institution, audited, denied>>
      /\ r \in Request
      /\ late' \subseteq Transaction
  BY DEF PlainStep, complianceVars, registerVars
<1>2. ChainKeeps
  BY UnchangedKeeps DEF PlainStep
<1>3. /\ request' \in [Slots -> Request]
      /\ request'[s] = r
      /\ \A t \in Slots : t # s => request'[t] = request[t]
  BY <1>1 DEF DeskTypeOK, PlainStep
<1>4. DeskTypeOK'
  BY <1>1, <1>2, <1>3 DEF DeskTypeOK, ChainKeeps
<1>5. \A t \in Slots : request'[t].pc \in PastChain =>
         request[t].pc \in PastChain /\ request'[t].tx = request[t].tx
  BY <1>3 DEF PlainStep
<1>6. \A w, op : Done(op, w)' <=> Done(op, w)
  BY <1>1 DEF Done, Issued, Revoked
<1>7. ExecutedUnaudited'
  BY <1>1, <1>5, <1>6 DEF ExecutedUnaudited
<1>8. ExecutedForOne'
  BY <1>5 DEF ExecutedForOne
<1>9. AuditBorneOut'
  BY <1>1, <1>6 DEF AuditBorneOut
<1>10. IssueStored'
  BY <1>1, <1>3 DEF IssueStored, PlainStep
<1>11. RegisterBehindChain'
  BY <1>1 DEF RegisterBehindChain, Issued, Revoked
<1>12. DeniedByChain'
  BY <1>1 DEF DeniedByChain, Issued, Revoked
<1>13. DenialRemembered'
  BY <1>1, <1>3 DEF DenialRemembered, PlainStep
<1>14. DenialIsFinal'
  BY <1>3 DEF DenialIsFinal, PlainStep
<1>15. QED
  BY <1>4, <1>7, <1>8, <1>9, <1>10, <1>11, <1>12, <1>13, <1>14

(* A step of the chain alone: a transaction that lands late, or the clock *)
LEMMA ChainStepKeeps ==
    ASSUME DeskTypeOK, DeskInv, ChainKeeps, late' \subseteq Transaction,
           UNCHANGED <<registerVars, request, denied>>
    PROVE  DeskTypeOK' /\ DeskInv'
<1> USE DEF DeskInv
<1>1. UNCHANGED <<institution, audited, request, denied>>
  BY DEF registerVars
<1>2. DeskTypeOK'
  BY <1>1 DEF DeskTypeOK, ChainKeeps
<1>3. \A w \in Wallets, op \in Operations : Done(op, w) => Done(op, w)'
  BY DEF Done, ChainKeeps
<1>4. \A s \in Slots : request[s].pc \in PastChain =>
         request[s].tx.wallet \in Wallets /\ request[s].tx.op \in Operations
  BY RequestShape
<1>5. ExecutedUnaudited'
  <2>1. ASSUME NEW s \in Slots, request[s].pc \in PastChain
        PROVE  Done(request[s].tx.op, request[s].tx.wallet)'
    BY <1>1, <1>3, <1>4, <2>1 DEF ExecutedUnaudited, Done
  <2>2. QED
    BY <1>1, <2>1 DEF ExecutedUnaudited, Done
<1>6. ExecutedForOne'
  BY <1>1 DEF ExecutedForOne
<1>7. AuditBorneOut'
  BY <1>1, <1>3 DEF AuditBorneOut
<1>8. IssueStored'
  BY <1>1 DEF IssueStored
<1>9. RegisterBehindChain'
  BY <1>1 DEF RegisterBehindChain, ChainKeeps
<1>10. DeniedByChain'
  <2>1. ASSUME NEW w \in denied
        PROVE  Issued(w)' /\ (Revoked(w)' \/ credential'[w].expiresAt < now')
    <3>1. w \in Wallets /\ Issued(w) /\ (Revoked(w) \/ credential[w].expiresAt < now)
      BY <2>1 DEF DeniedByChain, DeskTypeOK
    <3>2. credential[w].expiresAt \in Nat /\ now \in Nat /\ now' \in Nat /\ now' >= now
      <4>1. credential[w] \in Credential
        BY <3>1 DEF Issued, DeskTypeOK, ComplianceTypeOK
      <4>2. QED
        BY <4>1 DEF Credential, ExpiryDates, ChainKeeps, Times, DeskTypeOK, ComplianceTypeOK
    <3>3. QED
      BY <3>1, <3>2 DEF ChainKeeps
  <2>2. QED
    BY <1>1, <2>1 DEF DeniedByChain
<1>11. DenialRemembered'
  BY <1>1 DEF DenialRemembered
<1>12. DenialIsFinal'
  BY <1>1 DEF DenialIsFinal
<1>13. QED
  BY <1>2, <1>5, <1>6, <1>7, <1>8, <1>9, <1>10, <1>11, <1>12
-----------------------------------------------------------------------------
(* A request moves on with its transaction. *)
LEMMA TransactionProceeds ==
    ASSUME DeskTypeOK, NEW s \in Slots, request[s].pc \in {"sending"} \cup PastChain,
           NEW pc \in {"landed", "storing", "auditing"}, Proceeds(s, pc)
    PROVE  /\ request' \in [Slots -> Request]
           /\ request'[s].pc = pc
           /\ request'[s].tx = request[s].tx
           /\ \A t \in Slots : t # s => request'[t] = request[t]
<1> DEFINE r == [pc |-> pc, tx |-> request[s].tx]
<1>1. request[s].tx \in Transaction /\ request' = [request EXCEPT ![s] = r]
  BY RequestShape DEF Proceeds, PastChain, DeskTypeOK
<1>2. r \in Request
  BY <1>1 DEF Request
<1>3. QED
  BY <1>1, <1>2 DEF DeskTypeOK

LEMMA LandKeeps ==
    ASSUME DeskTypeOK, DeskInv, NEW s \in Slots, Land(s)
    PROVE  DeskTypeOK' /\ DeskInv'
<1> USE DEF DeskInv
<1>1. /\ request[s].pc = "sending"
      /\ request[s].tx \in Transaction
  BY RequestShape DEF Land
<1>2. PICK tx \in Transaction : tx = request[s].tx
  BY <1>1
<1>3. /\ request[s].pc = "sending"
      /\ Execute(tx)
      /\ UNCHANGED <<institution, audited, late, denied>>
  BY <1>2 DEF Land, registerVars
<1>4. tx \in Transaction /\ tx.op \in Operations /\ tx.wallet \in Wallets
  BY <1>3, <1>2, RequestShape
<1>5. /\ ChainKeeps
      /\ Done(tx.op, tx.wallet)'
      /\ ~Done(tx.op, tx.wallet)
  BY <1>3, <1>4, ExecutionKeeps
<1>6. /\ request' \in [Slots -> Request]
      /\ request'[s].pc = "landed"
      /\ request'[s].tx = tx
      /\ \A t \in Slots : t # s => request'[t] = request[t]
  BY <1>3, <1>2, TransactionProceeds DEF Land
<1>7. DeskTypeOK'
  BY <1>3, <1>5, <1>6 DEF DeskTypeOK, ChainKeeps
<1>8. \A w \in Wallets, op \in Operations : Done(op, w) => Done(op, w)'
  BY <1>5 DEF Done, ChainKeeps
<1>9. \A t \in Slots : request[t].pc \in PastChain =>
         /\ request[t].tx.wallet \in Wallets
         /\ request[t].tx.op \in Operations
         /\ Done(request[t].tx.op, request[t].tx.wallet)
  BY RequestShape DEF ExecutedUnaudited
<1>10. audited[<<tx.wallet, tx.op>>] = 0
  <2>1. /\ audited[<<tx.wallet, tx.op>>] \in Nat
        /\ audited[<<tx.wallet, tx.op>>] <= 1
        /\ audited[<<tx.wallet, tx.op>>] # 1
    BY <1>4, <1>5 DEF DeskTypeOK, AuditBorneOut
  <2>2. QED
    BY <2>1
<1>11. ExecutedUnaudited'
  <2>1. ASSUME NEW t \in Slots, t # s, request[t].pc \in PastChain
        PROVE  /\ Done(request[t].tx.op, request[t].tx.wallet)'
               /\ audited[<<request[t].tx.wallet, request[t].tx.op>>] = 0
    <3>1. Done(request[t].tx.op, request[t].tx.wallet)
      BY <1>9, <2>1
    <3>2. request'[t] = request[t]
      BY <1>6, <2>1
    <3>3. QED
      BY <1>8, <1>9, <2>1, <3>1, <3>2 DEF ExecutedUnaudited, Done
  <2>2. QED
    BY <1>3, <1>5, <1>6, <1>10, <2>1 DEF ExecutedUnaudited, Done
<1>12. ExecutedForOne'
  BY <1>5, <1>6, <1>9 DEF ExecutedForOne
<1>13. AuditBorneOut'
  BY <1>3, <1>8 DEF AuditBorneOut
<1>14. IssueStored'
  BY <1>3, <1>6 DEF IssueStored
<1>15. RegisterBehindChain'
  BY <1>3, <1>5 DEF RegisterBehindChain, ChainKeeps
<1>16. DeniedByChain'
  <2>1. now' = now
    BY <1>3 DEF Execute
  <2>2. QED
    BY <1>3, <1>5, <2>1 DEF DeniedByChain, ChainKeeps, DeskTypeOK
<1>17. DenialRemembered'
  BY <1>3, <1>6 DEF DenialRemembered
<1>18. DenialIsFinal'
  BY <1>3, <1>6 DEF DenialIsFinal
<1>19. QED
  BY <1>7, <1>11, <1>12, <1>13, <1>14, <1>15, <1>16, <1>17, <1>18

LEMMA StoreKeeps ==
    ASSUME DeskTypeOK, DeskInv, NEW s \in Slots, Store(s)
    PROVE  DeskTypeOK' /\ DeskInv'
<1> USE DEF DeskInv
<1> DEFINE tx == request[s].tx
<1>1. /\ request[s].pc = "storing"
      /\ institution' = [institution EXCEPT ![tx.wallet] = StatusAfter(tx.op, @)]
      /\ UNCHANGED <<complianceVars, now, credential, audited, late, denied>>
  BY DEF Store, complianceVars
<1>2. tx.op \in Operations /\ tx.wallet \in Wallets
  BY <1>1, RequestShape DEF PastChain
<1>3. /\ request' \in [Slots -> Request]
      /\ request'[s].pc = "auditing"
      /\ request'[s].tx = tx
      /\ \A t \in Slots : t # s => request'[t] = request[t]
  BY <1>1, TransactionProceeds DEF Store, PastChain
<1>4. Done(tx.op, tx.wallet) /\ audited[<<tx.wallet, tx.op>>] = 0
  BY <1>1 DEF ExecutedUnaudited, PastChain
<1> HIDE DEF tx
<1>5. ChainKeeps
  BY <1>1, UnchangedKeeps
<1>6. /\ institution' \in [Wallets -> {"none", "active", "revoked"}]
      /\ institution'[tx.wallet] = StatusAfter(tx.op, institution[tx.wallet])
      /\ \A w \in Wallets : w # tx.wallet => institution'[w] = institution[w]
  BY <1>1, <1>2 DEF DeskTypeOK, StatusAfter
<1>7. DeskTypeOK'
  BY <1>1, <1>3, <1>5, <1>6 DEF DeskTypeOK, ChainKeeps
<1>8. \A w, op : Done(op, w)' <=> Done(op, w)
  BY <1>1 DEF Done, Issued, Revoked
<1>9. ExecutedUnaudited'
  BY <1>1, <1>3, <1>4, <1>8 DEF ExecutedUnaudited, PastChain
<1>10. ExecutedForOne'
  BY <1>1, <1>3 DEF ExecutedForOne, PastChain, tx
<1>11. AuditBorneOut'
  BY <1>1, <1>8 DEF AuditBorneOut
<1>12. \A w \in Wallets : institution[w] # "none" => institution'[w] # "none"
  BY <1>6 DEF StatusAfter
<1>13. IssueStored'
  <2>1. \A w \in Wallets : audited'[<<w, "issue">>] = 1 => institution'[w] # "none"
    BY <1>1, <1>12 DEF IssueStored
  <2>2. ASSUME NEW t \in Slots, request'[t].pc = "auditing", request'[t].tx.op = "issue"
        PROVE  institution'[request'[t].tx.wallet] # "none"
    <3>1. CASE t = s
      BY <1>3, <1>6, <2>2, <3>1 DEF StatusAfter
    <3>2. CASE t # s
      <4>1. request'[t] = request[t]
        BY <1>3, <3>2
      <4>2. request[t].tx.wallet \in Wallets
        BY <2>2, <4>1, RequestShape DEF PastChain
      <4>3. institution[request[t].tx.wallet] # "none"
        BY <2>2, <4>1 DEF IssueStored
      <4>4. QED
        BY <1>12, <4>1, <4>2, <4>3
    <3>3. QED
      BY <3>1, <3>2
  <2>3. QED
    BY <2>1, <2>2 DEF IssueStored
<1>14. RegisterBehindChain'
  <2>1. ASSUME NEW w \in Wallets
        PROVE  /\ institution'[w] # "none" => Issued(w)
               /\ institution'[w] = "revoked" => Revoked(w)
    BY <1>2, <1>4, <1>6 DEF RegisterBehindChain, StatusAfter, Done, Revoked, Operations
  <2>2. QED
    BY <1>1, <2>1 DEF RegisterBehindChain, Issued, Revoked
<1>15. DeniedByChain'
  BY <1>1 DEF DeniedByChain, Issued, Revoked
<1>16. DenialRemembered'
  BY <1>1, <1>3 DEF DenialRemembered
<1>17. DenialIsFinal'
  BY <1>3 DEF DenialIsFinal
<1>18. QED
  BY <1>7, <1>9, <1>10, <1>11, <1>13, <1>14, <1>15, <1>16, <1>17

LEMMA AuditKeeps ==
    ASSUME DeskTypeOK, DeskInv, NEW s \in Slots, Audit(s)
    PROVE  DeskTypeOK' /\ DeskInv'
<1> USE DEF DeskInv
<1> DEFINE reply == [pc |-> "replied", reply |-> "success"]
<1>1. request[s].pc = "auditing"
  BY DEF Audit
<1>2. PICK w \in Wallets, op \in Operations : w = request[s].tx.wallet /\ op = request[s].tx.op
  BY <1>1, RequestShape DEF PastChain
<1>3. /\ audited' = [audited EXCEPT ![<<w, op>>] = @ + 1]
      /\ request' = [request EXCEPT ![s] = reply]
      /\ UNCHANGED <<complianceVars, now, credential, institution, late, denied>>
  BY <1>2 DEF Audit, Replies, Becomes, complianceVars
<1>4. /\ Done(op, w)
      /\ audited[<<w, op>>] = 0
      /\ op = "issue" => institution[w] # "none"
  BY <1>1, <1>2 DEF ExecutedUnaudited, IssueStored, PastChain
<1>5. /\ audited' \in [Wallets \X Operations -> Nat]
      /\ audited'[<<w, op>>] = 1
      /\ \A v \in Wallets, o \in Operations :
            v # w \/ o # op => audited'[<<v, o>>] = audited[<<v, o>>]
  BY <1>3, <1>4 DEF DeskTypeOK
<1>6. reply \in Request /\ reply.pc = "replied"
  BY DEF Request
<1> HIDE DEF reply
<1>7. /\ request' \in [Slots -> Request]
      /\ request'[s].pc = "replied"
      /\ \A t \in Slots : t # s => request'[t] = request[t]
  BY <1>3, <1>6 DEF DeskTypeOK
<1>8. DeskTypeOK'
  <2>1. ChainKeeps
    BY <1>3, UnchangedKeeps
  <2>2. QED
    BY <1>3, <1>5, <1>7, <2>1 DEF DeskTypeOK, ChainKeeps
<1>9. \A v, o : Done(o, v)' <=> Done(o, v)
  BY <1>3 DEF Done, Issued, Revoked
<1>10. ExecutedUnaudited'
  <2>1. ASSUME NEW t \in Slots, request'[t].pc \in PastChain
        PROVE  /\ Done(request[t].tx.op, request[t].tx.wallet)
               /\ audited'[<<request[t].tx.wallet, request[t].tx.op>>] = 0
               /\ request'[t] = request[t]
    <3>1. t # s /\ request'[t] = request[t]
      BY <1>7, <2>1 DEF PastChain
    <3>2. request[t].tx.wallet # w \/ request[t].tx.op # op
      BY <1>1, <1>2, <2>1, <3>1 DEF ExecutedForOne, PastChain
    <3>3. request[t].tx.wallet \in Wallets /\ request[t].tx.op \in Operations
      BY <2>1, <3>1, RequestShape
    <3>4. QED
      BY <1>5, <2>1, <3>1, <3>2, <3>3 DEF ExecutedUnaudited
  <2>2. QED
    BY <1>9, <2>1 DEF ExecutedUnaudited
<1>11. ExecutedForOne'
  BY <1>7 DEF ExecutedForOne, PastChain
<1>12. AuditBorneOut'
  <2>1. ASSUME NEW v \in Wallets, NEW o \in Operations
        PROVE  audited'[<<v, o>>] <= 1 /\ (audited'[<<v, o>>] = 1 => Done(o, v))
    <3>1. CASE v = w /\ o = op
      BY <1>4, <1>5, <3>1
    <3>2. CASE v # w \/ o # op
      BY <1>5, <3>2 DEF AuditBorneOut
    <3>3. QED
      BY <3>1, <3>2
  <2>2. QED
    BY <1>9, <2>1 DEF AuditBorneOut
<1>13. IssueStored'
  <2>1. ASSUME NEW v \in Wallets, audited'[<<v, "issue">>] = 1
        PROVE  institution[v] # "none"
    BY <1>4, <1>5, <2>1 DEF IssueStored, Operations
  <2>2. ASSUME NEW t \in Slots, request'[t].pc = "auditing", request'[t].tx.op = "issue"
        PROVE  institution[request'[t].tx.wallet] # "none"
    <3>1. t # s /\ request'[t] = request[t]
      BY <1>7, <2>2
    <3>2. QED
      BY <2>2, <3>1 DEF IssueStored
  <2>3. QED
    BY <1>3, <2>1, <2>2 DEF IssueStored
<1>14. RegisterBehindChain'
  BY <1>3 DEF RegisterBehindChain, Issued, Revoked
<1>15. DeniedByChain'
  BY <1>3 DEF DeniedByChain, Issued, Revoked
<1>16. DenialRemembered'
  BY <1>3, <1>7 DEF DenialRemembered
<1>17. DenialIsFinal'
  BY <1>7 DEF DenialIsFinal
<1>18. QED
  BY <1>8, <1>10, <1>11, <1>12, <1>13, <1>14, <1>15, <1>16, <1>17

(* A verdict that denies is the chain's, now or as the register had it from there; one that does *)
(* not is given to no wallet that was denied before.                                           *)
Justified(s, verdict) ==
    /\ verdict \in {"revoked", "expired"} =>
          /\ Issued(request[s].wallet)
          /\ Revoked(request[s].wallet) \/ credential[request[s].wallet].expiresAt < now
    /\ request[s].afterDenial => verdict # "active"

LEMMA ChainVerdictJustified ==
    ASSUME DeskTypeOK, DeskInv, NEW s \in Slots, request[s].pc = "reading",
           credential[request[s].wallet] # NoAccount
    PROVE  LET verdict == ChainVerdict(credential[request[s].wallet]) IN
              verdict \in Verdicts /\ Justified(s, verdict)
<1> DEFINE c == credential[request[s].wallet]
<1>1. request[s].wallet \in Wallets /\ Issued(request[s].wallet)
  BY RequestShape DEF Issued
<1>2. request[s].afterDenial => c.status = "revoked" \/ c.expiresAt < now
  BY <1>1 DEF DeskInv, DenialRemembered, DeniedByChain, Revoked
<1>3. ChainVerdict(c) \in Verdicts
  BY DEF ChainVerdict, Verdicts
<1>4. QED
  BY <1>1, <1>2, <1>3 DEF ChainVerdict, Justified, Revoked

LEMMA RowVerdictJustified ==
    ASSUME DeskTypeOK, DeskInv, NEW s \in Slots, request[s].pc = "falling back"
    PROVE  LET verdict == RowVerdict(institution[request[s].wallet]) IN
              verdict \in Verdicts /\ Justified(s, verdict)
<1>1. request[s].wallet \in Wallets
  BY RequestShape
<1>2. institution[request[s].wallet] = "revoked" => Revoked(request[s].wallet)
  BY <1>1 DEF DeskInv, RegisterBehindChain
<1>3. QED
  BY <1>2 DEF RowVerdict, Verdicts, Justified, Revoked

LEMMA VerifiedKeeps ==
    ASSUME DeskTypeOK, DeskInv, NEW s \in Slots, NEW verdict \in Verdicts,
           request[s].pc \in {"reading", "falling back"},
           Justified(s, verdict), Verified(s, verdict)
    PROVE  DeskTypeOK' /\ DeskInv'
<1> USE DEF DeskInv
<1> DEFINE r == [pc |-> "verified", wallet |-> request[s].wallet,
                 afterDenial |-> request[s].afterDenial, verdict |-> verdict]
<1>1. /\ request' = [request EXCEPT ![s] = r]
      /\ denied' = IF verdict \in {"revoked", "expired"} THEN denied \cup {request[s].wallet} ELSE denied
      /\ UNCHANGED <<complianceVars, now, credential, institution, audited, late>>
  BY DEF Verified, Becomes, complianceVars, registerVars
<1>2. request[s].wallet \in Wallets /\ request[s].afterDenial \in BOOLEAN
  BY RequestShape
<1>3. r \in [pc : {"verified"}, wallet : Wallets, afterDenial : BOOLEAN, verdict : Verdicts]
  BY <1>2
<1>4. /\ r \in Request
      /\ r.pc = "verified"
      /\ r.wallet = request[s].wallet
      /\ r.afterDenial => request[s].afterDenial
      /\ r.verdict = verdict
  BY <1>3 DEF Request
<1> HIDE DEF r
<1>5. /\ request' \in [Slots -> Request]
      /\ request'[s] = r
      /\ \A t \in Slots : t # s => request'[t] = request[t]
  BY <1>1, <1>4 DEF DeskTypeOK
<1>6. denied \subseteq denied' /\ denied' \subseteq Wallets
  BY <1>1, <1>2 DEF DeskTypeOK
<1>7. DeskTypeOK'
  <2>1. ChainKeeps
    BY <1>1, UnchangedKeeps
  <2>2. QED
    BY <1>1, <1>5, <1>6, <2>1 DEF DeskTypeOK, ChainKeeps
<1>8. \A t \in Slots : request'[t].pc \in PastChain => request'[t] = request[t]
  BY <1>4, <1>5 DEF PastChain
<1>9. \A w, op : Done(op, w)' <=> Done(op, w)
  BY <1>1 DEF Done, Issued, Revoked
<1>10. ExecutedUnaudited'
  BY <1>1, <1>8, <1>9 DEF ExecutedUnaudited
<1>11. ExecutedForOne'
  BY <1>8 DEF ExecutedForOne
<1>12. AuditBorneOut'
  BY <1>1, <1>9 DEF AuditBorneOut
<1>13. IssueStored'
  BY <1>1, <1>8 DEF IssueStored, PastChain
<1>14. RegisterBehindChain'
  BY <1>1 DEF RegisterBehindChain, Issued, Revoked
<1>15. DeniedByChain'
  <2>1. \A w \in denied' : Issued(w) /\ (Revoked(w) \/ credential[w].expiresAt < now)
    BY <1>1 DEF DeniedByChain, Justified
  <2>2. QED
    BY <1>1, <2>1 DEF DeniedByChain, Issued, Revoked
<1>16. DenialRemembered'
  <2>1. ASSUME NEW t \in Slots, request'[t].afterDenial,
               request'[t].pc \in {"reading", "falling back", "verified"}
        PROVE  request'[t].wallet \in denied
    <3>1. CASE t = s
      BY <1>4, <1>5, <2>1, <3>1 DEF DenialRemembered
    <3>2. CASE t # s
      BY <1>5, <2>1, <3>2 DEF DenialRemembered
    <3>3. QED
      BY <3>1, <3>2
  <2>2. QED
    BY <1>6, <2>1 DEF DenialRemembered
<1>17. DenialIsFinal'
  BY <1>4, <1>5 DEF DenialIsFinal, Justified
<1>18. QED
  BY <1>7, <1>10, <1>11, <1>12, <1>13, <1>14, <1>15, <1>16, <1>17

-----------------------------------------------------------------------------
LEMMA DeskStep ==
    ASSUME DeskTypeOK, DeskInv, [DeskNext]_deskVars
    PROVE  DeskTypeOK' /\ DeskInv'
<1>1. ASSUME NEW s \in Slots, OperatorAsks(s)
      PROVE  DeskTypeOK' /\ DeskInv'
  BY <1>1, PlainSteps, PlainStepKeeps DEF OperatorAsks, Asks, DeskInv
<1>2. ASSUME NEW s \in Slots, Serve(s)
      PROVE  DeskTypeOK' /\ DeskInv'
  <2>1. CASE \/ FindExisting(s) \/ FindNone(s) \/ Confirm(s) \/ SendFails(s)
             \/ GiveUp(s) \/ DatabaseFails(s) \/ ReadFails(s)
    BY <2>1, PlainSteps, PlainStepKeeps DEF DeskInv
  <2>2. CASE Land(s)
    BY <2>2, LandKeeps
  <2>3. CASE Store(s)
    BY <2>3, StoreKeeps
  <2>4. CASE Audit(s)
    BY <2>4, AuditKeeps
  <2>5. CASE ReadChain(s)
    BY <2>5, ChainVerdictJustified, VerifiedKeeps DEF ReadChain
  <2>6. CASE ReadRow(s)
    BY <2>6, RowVerdictJustified, VerifiedKeeps DEF ReadRow
  <2>7. QED
    BY <1>2, <2>1, <2>2, <2>3, <2>4, <2>5, <2>6 DEF Serve
<1>3. ASSUME NEW s \in Slots, Close(s)
      PROVE  DeskTypeOK' /\ DeskInv'
  BY <1>3, PlainSteps, PlainStepKeeps DEF DeskInv
<1>4. CASE Settle
  <2>1. PICK tx \in late : LateLands(tx) \/ LateExpires(tx)
    BY <1>4 DEF Settle
  <2>2. tx \in Transaction /\ late \ {tx} \subseteq Transaction
    BY DEF DeskTypeOK
  <2>3. CASE LateLands(tx)
    BY <2>2, <2>3, ExecutionKeeps, ChainStepKeeps DEF LateLands
  <2>4. CASE LateExpires(tx)
    BY <2>2, <2>4, UnchangedKeeps, ChainStepKeeps DEF LateExpires
  <2>5. QED
    BY <2>1, <2>3, <2>4
<1>5. CASE ClockTicks
  BY <1>5, TickKeeps, ChainStepKeeps DEF ClockTicks, DeskTypeOK
<1>6. CASE UNCHANGED deskVars
  BY <1>6, UnchangedKeeps, ChainStepKeeps DEF deskVars, DeskTypeOK
<1>7. QED
  BY <1>1, <1>2, <1>3, <1>4, <1>5, <1>6 DEF DeskNext

LEMMA DeskStart ==
    ASSUME DeskInit
    PROVE  DeskTypeOK /\ DeskInv
<1> USE DEF DeskInit, ComplianceInit
<1>1. ComplianceTypeOK
  BY DEF ComplianceTypeOK, Times
<1>2. Idle \in Request /\ Idle.pc = "idle"
  BY DEF Request, Idle
<1>3. DeskTypeOK
  BY <1>1, <1>2 DEF DeskTypeOK
<1>4. \A s \in Slots : request[s].pc = "idle"
  BY <1>2
<1>5. \A s \in Slots : request[s].pc \notin PastChain \cup {"auditing", "reading", "falling back", "verified"}
  BY <1>4 DEF PastChain
<1>6. ExecutedUnaudited /\ ExecutedForOne
  BY <1>5 DEF ExecutedUnaudited, ExecutedForOne
<1>7. AuditBorneOut
  BY DEF AuditBorneOut, Done
<1>8. IssueStored
  <2>1. \A w \in Wallets : audited[<<w, "issue">>] = 0
    BY DEF Operations
  <2>2. \A w \in Wallets : ~(audited[<<w, "issue">>] = 1)
    <3> HIDE DEF DeskInit
    <3>1. 0 # 1
      OBVIOUS
    <3>2. QED
      BY <2>1, <3>1, Zenon
  <2>3. \A s \in Slots : ~(request[s].pc = "auditing")
    BY <1>4
  <2>4. QED
    BY <2>2, <2>3, Zenon DEF IssueStored
<1>9. RegisterBehindChain /\ DeniedByChain
  BY DEF RegisterBehindChain, DeniedByChain
<1>10. DenialRemembered /\ DenialIsFinal
  BY <1>5 DEF DenialRemembered, DenialIsFinal
<1>11. QED
  BY <1>3, <1>6, <1>7, <1>8, <1>9, <1>10 DEF DeskInv

LEMMA DeskInvariant == DeskSpec => [](DeskTypeOK /\ DeskInv)
<1>1. DeskInit => DeskTypeOK /\ DeskInv
  BY DeskStart
<1>2. (DeskTypeOK /\ DeskInv) /\ [DeskNext]_deskVars => (DeskTypeOK /\ DeskInv)'
  BY DeskStep
<1>3. QED
  BY <1>1, <1>2, PTL DEF DeskSpec

(* The desk keeps its types, whatever its requests and the transactions they gave up do. *)
THEOREM DeskTypeCorrect == DeskSpec => []DeskTypeOK
BY DeskInvariant, PTL

(* However the steps of issue and revoke fail, overlap or land late, the register says nothing  *)
(* of a wallet that the chain does not bear out.                                               *)
THEOREM RegisterAlwaysBehindChain == DeskSpec => []RegisterBehindChain
<1>1. DeskTypeOK /\ DeskInv => RegisterBehindChain
  BY DEF DeskInv
<1>2. QED
  BY <1>1, DeskInvariant, PTL

(* For any number of racing requests, one issue and one revocation of a wallet at most are      *)
(* recorded in the audit trail, and what is recorded has happened.                             *)
THEOREM AlwaysAuditedOnce == DeskSpec => []AuditedOnce
<1>1. DeskTypeOK /\ DeskInv => AuditedOnce
  BY DEF DeskInv, AuditBorneOut, IssueStored, AuditedOnce, Done, Operations
<1>2. QED
  BY <1>1, DeskInvariant, PTL

(* No verify calls a wallet active that an earlier verify called revoked or expired. *)
THEOREM DenialAlwaysFinal == DeskSpec => []DenialIsFinal
<1>1. DeskTypeOK /\ DeskInv => DenialIsFinal
  BY DEF DeskInv
<1>2. QED
  BY <1>1, DeskInvariant, PTL

-----------------------------------------------------------------------------
(* What a request or an orphaned transaction does to the chain is an instruction of the gate. *)
LEMMA ExecutionIsOfGate ==
    ASSUME NEW tx \in Transaction, Execute(tx)
    PROVE  ComplianceNext
<1>1. CASE tx.op = "issue" /\ IssueCredential(tx.wallet, tx.issuedAt, tx.expiresAt)
  <2>1. tx.wallet \in Wallets /\ tx.issuedAt \in Times /\ tx.expiresAt \in ExpiryDates
    BY <1>1 DEF Transaction
  <2>2. QED
    BY <1>1, <2>1 DEF Execute, ComplianceNext
<1>2. CASE tx.op = "revoke" /\ RevokeCredential(tx.wallet)
  <2>1. tx.wallet \in Wallets
    BY DEF Transaction
  <2>2. QED
    BY <1>2, <2>1 DEF Execute, ComplianceNext
<1>3. QED
  BY <1>1, <1>2 DEF Execute

(* The steps of the desk that the chain does not see *)
LEMMA OffChainSteps ==
    ASSUME NEW s \in Slots, OperatorAsks(s) \/ Close(s) \/ (Serve(s) /\ ~Land(s))
    PROVE  UNCHANGED complianceVars
BY DEF OperatorAsks, AskIssue, AskRevoke, AskVerify, Close, Serve, FindExisting, FindNone,
       Confirm, SendFails, GiveUp, Store, Audit, DatabaseFails, ReadChain, ReadFails, ReadRow,
       Verified, OnlyRequest

LEMMA DeskGateStep ==
    ASSUME DeskTypeOK, [DeskNext]_deskVars
    PROVE  [ComplianceNext]_complianceVars
<1>1. ASSUME NEW s \in Slots, Land(s)
      PROVE  ComplianceNext
  <2>1. request[s].tx \in Transaction /\ Execute(request[s].tx)
    BY <1>1, RequestShape DEF Land
  <2>2. QED
    BY <2>1, ExecutionIsOfGate
<1>2. ASSUME NEW tx \in late, LateLands(tx)
      PROVE  ComplianceNext
  BY <1>2, ExecutionIsOfGate DEF LateLands, DeskTypeOK
<1>3. ASSUME NEW tx \in late, LateExpires(tx)
      PROVE  UNCHANGED complianceVars
  BY <1>3 DEF LateExpires
<1>4. CASE ClockTicks
  BY <1>4 DEF ClockTicks, ComplianceNext
<1>5. CASE UNCHANGED deskVars
  BY <1>5 DEF deskVars
<1>6. QED
  BY <1>1, <1>2, <1>3, <1>4, <1>5, OffChainSteps DEF DeskNext, Serve, Settle

(* The desk does nothing to the gate that the program would not allow anybody: whatever order    *)
(* its requests, retries and late transactions come in, the chain sees a run of the gate.       *)
THEOREM DeskKeepsGate == DeskSpec => ComplianceSpec
<1>1. DeskInit => ComplianceInit
  BY DEF DeskInit
<1>2. DeskTypeOK /\ [DeskNext]_deskVars => [ComplianceNext]_complianceVars
  BY DeskGateStep
<1>3. QED
  BY <1>1, <1>2, DeskTypeCorrect, PTL DEF DeskSpec, ComplianceSpec

(* No request of the desk, late or repeated, brings a lapsed credential back. *)
THEOREM LapseFinalAtDesk == DeskSpec => LapseIsFinal
BY DeskKeepsGate, LapseIsAlwaysFinal, PTL

-----------------------------------------------------------------------------
(* The desk as the record sees it                                                              *)
ChainView == [w \in Wallets |-> IF Issued(w) THEN credential[w].status ELSE "none"]

News == [k \in Wallets \X Operations |->
           IF CarriedAt({"landed", "storing"}, k) THEN "row"
           ELSE IF CarriedAt({"auditing"}, k) THEN "event" ELSE "nothing"]

RecordStep == [Record!RecordNext]_(Record!recordVars)

(* How far a request in this state has carried its news *)
NewsOf(pc) ==
    IF pc \in {"landed", "storing"} THEN "row" ELSE IF pc = "auditing" THEN "event" ELSE "nothing"

Carries(s, w, op) ==
    request[s].pc \in PastChain /\ request[s].tx.wallet = w /\ request[s].tx.op = op

(* The news of an operation that one request carries at most is where that request is. *)
LEMMA NewsMoves ==
    ASSUME NEW s \in Slots, NEW w \in Wallets, NEW op \in Operations,
           \A t \in Slots : t # s => request'[t] = request[t] /\ ~Carries(t, w, op),
           request[s].pc \in PastChain => Carries(s, w, op),
           request'[s].pc \in PastChain => Carries(s, w, op)'
    PROVE  /\ News[<<w, op>>] = NewsOf(request[s].pc)
           /\ News' = [News EXCEPT ![<<w, op>>] = NewsOf(request'[s].pc)]
<1> DEFINE k == <<w, op>>
<1>1. k \in Wallets \X Operations /\ k[1] = w /\ k[2] = op
  OBVIOUS
<1>2. \A pcs \in SUBSET PastChain :
         /\ CarriedAt(pcs, k) <=> request[s].pc \in pcs
         /\ CarriedAt(pcs, k)' <=> request'[s].pc \in pcs
  <2> TAKE pcs \in SUBSET PastChain
  <2>1. CarriedAt(pcs, k) <=> request[s].pc \in pcs
    BY <1>1 DEF CarriedAt, Carries
  <2>2. CarriedAt(pcs, k)' <=> request'[s].pc \in pcs
    BY <1>1 DEF CarriedAt, Carries
  <2>3. QED
    BY <2>1, <2>2
<1>3. {"landed", "storing"} \in SUBSET PastChain /\ {"auditing"} \in SUBSET PastChain
  BY DEF PastChain
<1>4. /\ News[k] = NewsOf(request[s].pc)
      /\ News'[k] = NewsOf(request'[s].pc)
  BY <1>1, <1>2, <1>3 DEF News, NewsOf
<1>5. ASSUME NEW j \in Wallets \X Operations, j # k
      PROVE  News'[j] = News[j]
  <2>1. ~(j[1] = w /\ j[2] = op)
    BY <1>5
  <2>2. \A pcs \in SUBSET PastChain : CarriedAt(pcs, j)' <=> CarriedAt(pcs, j)
    <3> TAKE pcs \in SUBSET PastChain
    <3>1. \A t \in Slots :
             (request'[t].pc \in pcs /\ request'[t].tx.wallet = j[1] /\ request'[t].tx.op = j[2])
             <=> (request[t].pc \in pcs /\ request[t].tx.wallet = j[1] /\ request[t].tx.op = j[2])
      BY <2>1 DEF Carries
    <3>2. QED
      BY <3>1 DEF CarriedAt
  <2>3. QED
    BY <1>3, <2>2 DEF News
<1>6. News' = [News EXCEPT ![k] = News'[k]]
  <2>1. \A j \in Wallets \X Operations : News'[j] = [News EXCEPT ![k] = News'[k]][j]
    BY <1>5 DEF News
  <2>2. QED
    BY <2>1 DEF News
<1>7. QED
  BY <1>4, <1>6

(* A request that carries nothing before or after a step changes no news. *)
LEMMA NewsStay ==
    ASSUME NEW s \in Slots, \A t \in Slots : t # s => request'[t] = request[t],
           request[s].pc \notin PastChain, request'[s].pc \notin PastChain
    PROVE  News' = News
<1>1. ASSUME NEW pcs \in SUBSET PastChain, NEW k \in Wallets \X Operations
      PROVE  CarriedAt(pcs, k)' <=> CarriedAt(pcs, k)
  <2>1. \A t \in Slots :
           (request'[t].pc \in pcs /\ request'[t].tx.wallet = k[1] /\ request'[t].tx.op = k[2])
           <=> (request[t].pc \in pcs /\ request[t].tx.wallet = k[1] /\ request[t].tx.op = k[2])
    OBVIOUS
  <2>2. QED
    BY <2>1 DEF CarriedAt
<1>2. {"landed", "storing"} \in SUBSET PastChain /\ {"auditing"} \in SUBSET PastChain
  BY DEF PastChain
<1>3. QED
  BY <1>1, <1>2 DEF News

LEMMA NothingToTell ==
    ASSUME News' = News, UNCHANGED <<credential, registerVars>>
    PROVE  RecordStep
<1>1. ChainView' = ChainView
  BY DEF ChainView, Issued
<1>2. QED
  BY <1>1 DEF RecordStep, Record!recordVars, ChainView, News, registerVars

(* What the program executes is the next happening in the wallet's life. *)
LEMMA ExecutionHappens ==
    ASSUME DeskTypeOK, NEW tx \in Transaction, Execute(tx)
    PROVE  /\ ChainView[tx.wallet] = Record!Before(tx.op)
           /\ ChainView' = [ChainView EXCEPT ![tx.wallet] = Record!After(tx.op)]
<1>1. /\ credential \in [Wallets -> Credential \cup {NoAccount}]
      /\ tx.wallet \in Wallets
  BY DEF DeskTypeOK, ComplianceTypeOK, Transaction
<1>2. CASE tx.op = "issue" /\ IssueCredential(tx.wallet, tx.issuedAt, tx.expiresAt)
  <2> DEFINE c == [status |-> "active", expiresAt |-> tx.expiresAt]
  <2>1. c # NoAccount /\ c.status = "active"
    <3>1. c \in Credential
      BY <1>2 DEF Transaction, Credential
    <3>2. QED
      BY <3>1
  <2>2. credential' = [credential EXCEPT ![tx.wallet] = c] /\ credential[tx.wallet] = NoAccount
    BY <1>2 DEF IssueCredential, CanIssue
  <2> HIDE DEF c
  <2>3. QED
    BY <1>1, <1>2, <2>1, <2>2 DEF ChainView, Issued, Record!Before, Record!After
<1>3. CASE tx.op = "revoke" /\ RevokeCredential(tx.wallet)
  <2> DEFINE c == [credential[tx.wallet] EXCEPT !.status = "revoked"]
  <2>1. /\ credential[tx.wallet] \in Credential
        /\ credential[tx.wallet] # NoAccount
        /\ credential[tx.wallet].status = "active"
    BY <1>1, <1>3 DEF RevokeCredential, Credential
  <2>2. c \in Credential /\ c.status = "revoked"
    BY <2>1 DEF Credential
  <2>3. credential' = [credential EXCEPT ![tx.wallet] = c]
    BY <1>3 DEF RevokeCredential
  <2> HIDE DEF c
  <2>4. c # NoAccount
    BY <2>2
  <2>5. QED
    BY <1>1, <1>3, <2>1, <2>2, <2>3, <2>4 DEF ChainView, Issued, Record!Before, Record!After
<1>4. QED
  BY <1>2, <1>3 DEF Execute

(* The other requests carry other news. *)
LEMMA OneCarrier ==
    ASSUME DeskInv, NEW s \in Slots, request[s].pc \in PastChain
    PROVE  \A t \in Slots : t # s => ~Carries(t, request[s].tx.wallet, request[s].tx.op)
BY DEF DeskInv, ExecutedForOne, Carries

LEMMA LandHappens ==
    ASSUME DeskTypeOK, DeskInv, NEW s \in Slots, Land(s)
    PROVE  RecordStep
<1>1. PICK tx \in Transaction : tx = request[s].tx
  BY RequestShape DEF Land
<1>2. tx.wallet \in Wallets /\ tx.op \in Operations
  BY <1>1, RequestShape DEF Land
<1>3. /\ Execute(tx)
      /\ UNCHANGED <<institution, audited>>
      /\ request[s].pc = "sending"
  BY <1>1 DEF Land, registerVars
<1>4. /\ request'[s].pc = "landed"
      /\ request'[s].tx = tx
      /\ \A t \in Slots : t # s => request'[t] = request[t]
  BY <1>1, <1>3, TransactionProceeds DEF Land
<1>5. \A t \in Slots : t # s => ~Carries(t, tx.wallet, tx.op)
  BY <1>2, <1>3, ExecutionKeeps DEF DeskInv, ExecutedUnaudited, Carries
<1>6. News' = [News EXCEPT ![<<tx.wallet, tx.op>>] = "row"]
  <2>1. request[s].pc \notin PastChain /\ Carries(s, tx.wallet, tx.op)'
    BY <1>3, <1>4 DEF PastChain, Carries
  <2>2. News' = [News EXCEPT ![<<tx.wallet, tx.op>>] = NewsOf(request'[s].pc)]
    BY <1>2, <1>4, <1>5, <2>1, NewsMoves
  <2>3. QED
    BY <1>4, <2>2 DEF NewsOf
<1>7. Record!Happen(tx.wallet, tx.op)
  BY <1>3, <1>6, ExecutionHappens DEF Record!Happen, ChainView, News
<1>8. QED
  BY <1>2, <1>7 DEF RecordStep, Record!RecordNext, Record!Operations, Operations

(* A transaction that lands late happens, and nobody is left to tell of it. *)
LEMMA LateLandHappens ==
    ASSUME DeskTypeOK, NEW tx \in late, LateLands(tx)
    PROVE  RecordStep
<1>1. tx \in Transaction /\ tx.wallet \in Wallets /\ tx.op \in Operations
  BY DEF DeskTypeOK, Transaction, Operations
<1>2. Execute(tx) /\ UNCHANGED <<institution, audited, request>>
  BY DEF LateLands, registerVars
<1>3. News' = News
  BY <1>2 DEF News, CarriedAt
<1>4. Record!Happen(tx.wallet, tx.op)
  BY <1>1, <1>2, <1>3, ExecutionHappens DEF Record!Happen, ChainView, News
<1>5. QED
  BY <1>1, <1>4 DEF RecordStep, Record!RecordNext, Record!Operations, Operations

(* A request that gives its answer has told its news or loses it. *)
LEMMA AnswerEndsNews ==
    ASSUME DeskTypeOK, DeskInv, NEW s \in Slots, request[s].pc \in PastChain,
           NEW reply, Replies(s, reply)
    PROVE  LET k == <<request[s].tx.wallet, request[s].tx.op>> IN
           /\ News[k] = NewsOf(request[s].pc)
           /\ News' = [News EXCEPT ![k] = "nothing"]
<1>1. /\ request'[s].pc = "replied"
      /\ \A t \in Slots : t # s => request'[t] = request[t]
  BY DEF Replies, Becomes, DeskTypeOK
<1>2. request'[s].pc \notin PastChain /\ NewsOf(request'[s].pc) = "nothing"
  BY <1>1 DEF PastChain, NewsOf
<1>3. request[s].tx.wallet \in Wallets /\ request[s].tx.op \in Operations
  BY RequestShape
<1>4. Carries(s, request[s].tx.wallet, request[s].tx.op)
  BY DEF Carries
<1>5. QED
  BY <1>1, <1>2, <1>3, <1>4, NewsMoves, OneCarrier

(* A request that moves on takes its news along. *)
LEMMA ProceedingTakesNews ==
    ASSUME DeskTypeOK, DeskInv, NEW s \in Slots, request[s].pc \in PastChain,
           NEW pc \in PastChain, Proceeds(s, pc)
    PROVE  LET k == <<request[s].tx.wallet, request[s].tx.op>> IN
           /\ News[k] = NewsOf(request[s].pc)
           /\ News' = [News EXCEPT ![k] = NewsOf(pc)]
<1>1. /\ request'[s].pc = pc
      /\ request'[s].tx = request[s].tx
      /\ \A t \in Slots : t # s => request'[t] = request[t]
  BY TransactionProceeds DEF PastChain
<1>2. request[s].tx.wallet \in Wallets /\ request[s].tx.op \in Operations
  BY RequestShape
<1>3. /\ Carries(s, request[s].tx.wallet, request[s].tx.op)
      /\ Carries(s, request[s].tx.wallet, request[s].tx.op)'
  BY <1>1 DEF Carries
<1>4. QED
  BY <1>1, <1>2, <1>3, NewsMoves, OneCarrier

LEMMA CarrierSteps ==
    ASSUME DeskTypeOK, DeskInv, NEW s \in Slots, request[s].pc \in PastChain,
           Confirm(s) \/ SendFails(s) \/ Store(s) \/ Audit(s) \/ DatabaseFails(s)
    PROVE  RecordStep
<1> DEFINE w == request[s].tx.wallet
           op == request[s].tx.op
<1>1. w \in Wallets /\ op \in Operations /\ op \in Record!Operations
  BY RequestShape DEF Operations, Record!Operations
<1>2. <<w, op>> \in Wallets \X Operations /\ News \in [Wallets \X Operations -> {"row", "event", "nothing"}]
  BY <1>1 DEF News
<1>3. CASE Confirm(s)
  <2>1. /\ News[<<w, op>>] = NewsOf("landed")
        /\ News' = [News EXCEPT ![<<w, op>>] = NewsOf("storing")]
    BY <1>3, ProceedingTakesNews DEF Confirm, PastChain
  <2>2. News' = News
    BY <1>2, <2>1 DEF NewsOf
  <2>3. QED
    BY <1>3, <2>2, NothingToTell DEF Confirm, OnlyRequest, complianceVars
<1>4. CASE SendFails(s) \/ DatabaseFails(s)
  <2>1. /\ News[<<w, op>>] = NewsOf(request[s].pc)
        /\ News' = [News EXCEPT ![<<w, op>>] = "nothing"]
    BY <1>4, AnswerEndsNews DEF SendFails, DatabaseFails
  <2>2. News[<<w, op>>] # "nothing"
    BY <2>1 DEF NewsOf, PastChain
  <2>3. UNCHANGED <<credential, institution, audited>>
    BY <1>4 DEF SendFails, DatabaseFails, OnlyRequest, complianceVars, registerVars
  <2>4. ChainView' = ChainView
    BY <2>3 DEF ChainView, Issued
  <2>5. Record!Lose(w, op)
    BY <2>1, <2>2, <2>3, <2>4 DEF Record!Lose, ChainView, News
  <2>6. QED
    BY <1>1, <2>5 DEF RecordStep, Record!RecordNext
<1>5. CASE Store(s)
  <2>1. /\ News[<<w, op>>] = "row"
        /\ News' = [News EXCEPT ![<<w, op>>] = "event"]
    <3>1. /\ News[<<w, op>>] = NewsOf("storing")
          /\ News' = [News EXCEPT ![<<w, op>>] = NewsOf("auditing")]
      BY <1>5, ProceedingTakesNews DEF Store, PastChain
    <3>2. QED
      BY <3>1 DEF NewsOf
  <2>2. /\ UNCHANGED <<credential, audited>>
        /\ institution' = [institution EXCEPT ![w] = StatusAfter(op, @)]
    BY <1>5 DEF Store, complianceVars
  <2>3. ChainView' = ChainView
    BY <2>2 DEF ChainView, Issued
  <2>4. StatusAfter(op, institution[w])
        = IF op = "revoke" /\ institution[w] = "none" THEN "none" ELSE Record!After(op)
    BY <1>1 DEF StatusAfter, Operations, Record!After
  <2>5. Record!TellRegister(w, op)
    BY <2>1, <2>2, <2>3, <2>4 DEF Record!TellRegister, ChainView, News
  <2>6. QED
    BY <1>1, <2>5 DEF RecordStep, Record!RecordNext
<1>6. CASE Audit(s)
  <2>1. /\ News[<<w, op>>] = "event"
        /\ News' = [News EXCEPT ![<<w, op>>] = "nothing"]
    BY <1>6, AnswerEndsNews DEF Audit, NewsOf
  <2>2. audited[<<w, op>>] = 0
    BY DEF DeskInv, ExecutedUnaudited
  <2>3. /\ UNCHANGED <<credential, institution>>
        /\ audited' = [audited EXCEPT ![<<w, op>>] = 1]
    BY <1>6, <2>2 DEF Audit, complianceVars
  <2>4. ChainView' = ChainView
    BY <2>3 DEF ChainView, Issued
  <2>5. Record!TellAudit(w, op)
    BY <2>1, <2>2, <2>3, <2>4 DEF Record!TellAudit, ChainView, News
  <2>6. QED
    BY <1>1, <2>5 DEF RecordStep, Record!RecordNext
<1>7. QED
  BY <1>3, <1>4, <1>5, <1>6

(* The steps of a request before its transaction is executed, and those of a verify *)
LEMMA QuietSteps ==
    ASSUME DeskTypeOK, DeskInv, NEW s \in Slots, request[s].pc \notin PastChain,
           OperatorAsks(s) \/ Close(s) \/ (Serve(s) /\ ~Land(s))
    PROVE  RecordStep
<1>1. UNCHANGED <<credential, registerVars>>
  <2>1. ~Store(s) /\ ~Audit(s)
    BY DEF Store, Audit, PastChain
  <2>2. UNCHANGED credential
    BY OffChainSteps DEF complianceVars
  <2>3. QED
    BY <2>1, <2>2 DEF OperatorAsks, AskIssue, AskRevoke, AskVerify, Close, Serve, FindExisting,
       FindNone, Confirm, SendFails, GiveUp, DatabaseFails, ReadChain, ReadFails, ReadRow,
       Verified, OnlyRequest, registerVars
<1>2. CASE ReadChain(s) \/ ReadRow(s)
  <2>1. /\ request'[s].pc = "verified"
        /\ \A t \in Slots : t # s => request'[t] = request[t]
    <3>1. ASSUME NEW verdict, Verified(s, verdict)
          PROVE  /\ request'[s].pc = "verified"
                 /\ \A t \in Slots : t # s => request'[t] = request[t]
      BY <3>1 DEF Verified, Becomes, DeskTypeOK
    <3>2. QED
      BY <1>2, <3>1 DEF ReadChain, ReadRow
  <2>2. request'[s].pc \notin PastChain
    BY <2>1 DEF PastChain
  <2>3. QED
    BY <1>1, <2>1, <2>2, NewsStay, NothingToTell
<1>3. CASE ~(ReadChain(s) \/ ReadRow(s))
  <2>1. \E r : PlainStep(s, r)
    <3>1. ~Store(s) /\ ~Audit(s)
      BY DEF Store, Audit, PastChain
    <3>2. QED
      BY <1>3, <3>1, PlainSteps DEF OperatorAsks, Asks, Serve, DeskInv
  <2>2. PICK r : PlainStep(s, r)
    BY <2>1
  <2>3. /\ request'[s].pc \notin PastChain
        /\ \A t \in Slots : t # s => request'[t] = request[t]
    BY <2>2 DEF PlainStep, DeskTypeOK
  <2>4. QED
    BY <1>1, <2>3, NewsStay, NothingToTell
<1>4. QED
  BY <1>2, <1>3

LEMMA RecordSteps ==
    ASSUME DeskTypeOK, DeskInv, [DeskNext]_deskVars
    PROVE  RecordStep
<1>1. ASSUME NEW s \in Slots, OperatorAsks(s) \/ Serve(s) \/ Close(s)
      PROVE  RecordStep
  <2>1. CASE Land(s)
    BY <2>1, LandHappens
  <2>2. CASE request[s].pc \in PastChain
    <3>1. Land(s) \/ Confirm(s) \/ SendFails(s) \/ Store(s) \/ Audit(s) \/ DatabaseFails(s)
      BY <1>1, <2>2 DEF PastChain, OperatorAsks, AskIssue, AskRevoke, AskVerify, Close, Answered,
         Serve, FindExisting, FindNone, GiveUp, ReadChain, ReadFails, ReadRow
    <3>2. QED
      BY <2>1, <2>2, <3>1, CarrierSteps
  <2>3. CASE request[s].pc \notin PastChain /\ ~Land(s)
    BY <1>1, <2>3, QuietSteps
  <2>4. QED
    BY <2>1, <2>2, <2>3
<1>2. ASSUME UNCHANGED <<credential, registerVars, request>>
      PROVE  RecordStep
  BY <1>2, NothingToTell DEF News, CarriedAt
<1>3. ASSUME NEW tx \in late, LateLands(tx) \/ LateExpires(tx)
      PROVE  RecordStep
  <2>1. CASE LateLands(tx)
    BY <2>1, LateLandHappens
  <2>2. CASE LateExpires(tx)
    BY <1>2, <2>2 DEF LateExpires, complianceVars
  <2>3. QED
    BY <1>3, <2>1, <2>2
<1>4. CASE ClockTicks \/ UNCHANGED deskVars
  BY <1>2, <1>4 DEF ClockTicks, deskVars, complianceVars
<1>5. QED
  BY <1>1, <1>3, <1>4 DEF DeskNext, Settle

LEMMA RecordStart ==
    ASSUME DeskInit
    PROVE  Record!RecordInit
<1>1. /\ \A w \in Wallets : ~Issued(w)
      /\ \A s \in Slots : request[s].pc = "idle"
      /\ institution = [w \in Wallets |-> "none"]
      /\ audited = [k \in Wallets \X Operations |-> 0]
  BY DEF DeskInit, ComplianceInit, Issued, Idle
<1>2. \A k : ~CarriedAt({"landed", "storing"}, k) /\ ~CarriedAt({"auditing"}, k)
  BY <1>1 DEF CarriedAt
<1>3. /\ ChainView = [w \in Wallets |-> "none"]
      /\ News = [k \in Wallets \X Operations |-> "nothing"]
  BY <1>1, <1>2 DEF ChainView, News
<1>4. Record!Happenings = Wallets \X Operations
  BY DEF Record!Happenings, Record!Operations, Operations
<1>5. QED
  BY <1>1, <1>3, <1>4 DEF Record!RecordInit, ChainView, News

(* ImplementsRecord: for any number of requests that overlap, fail or land late, the chain, the  *)
(* register and the audit trail together behave as the abstract record of a credential's life.  *)
THEOREM DeskImplementsRecord == DeskSpec => ImplementsRecord
<1>1. DeskInit => Record!RecordInit
  BY RecordStart
<1>2. DeskTypeOK /\ DeskInv /\ [DeskNext]_deskVars => [Record!RecordNext]_(Record!recordVars)
  BY RecordSteps DEF RecordStep
<1>3. QED
  BY <1>1, <1>2, DeskInvariant, PTL DEF DeskSpec, ImplementsRecord, Record!RecordSpec

-----------------------------------------------------------------------------
(* Once taken in, a request is there until its answer is taken. *)
Pending(s) == request[s].pc # "idle"

LEMMA AskedIsPending ==
    ASSUME DeskTypeOK, NEW s \in Slots, Asks(s)
    PROVE  Pending(s)' /\ \A t \in Slots : t # s => request'[t] = request[t]
<1>1. ASSUME NEW r, Becomes(s, r), r.pc # "idle"
      PROVE  Pending(s)' /\ \A t \in Slots : t # s => request'[t] = request[t]
  BY <1>1 DEF Becomes, DeskTypeOK, Pending
<1>2. ASSUME NEW w \in Wallets, NEW expiresAt \in ExpiryDates, AskIssue(s, w, expiresAt)
      PROVE  Pending(s)' /\ \A t \in Slots : t # s => request'[t] = request[t]
  BY <1>1, <1>2 DEF AskIssue
<1>3. ASSUME NEW w \in Wallets, AskRevoke(s, w) \/ AskVerify(s, w)
      PROVE  Pending(s)' /\ \A t \in Slots : t # s => request'[t] = request[t]
  BY <1>1, <1>3 DEF AskRevoke, AskVerify
<1>4. QED
  BY <1>2, <1>3 DEF Asks

LEMMA ServedStaysPending ==
    ASSUME DeskTypeOK, NEW s \in Slots, Serve(s), NEW t \in Slots, Pending(t)
    PROVE  Pending(t)'
<1>1. ASSUME NEW r, Becomes(s, r), r.pc # "idle"
      PROVE  Pending(t)'
  BY <1>1 DEF Becomes, DeskTypeOK, Pending
<1>2. ASSUME NEW reply, Replies(s, reply)
      PROVE  Pending(t)'
  BY <1>1, <1>2 DEF Replies
<1>3. ASSUME NEW verdict, Verified(s, verdict)
      PROVE  Pending(t)'
  BY <1>1, <1>3 DEF Verified
<1>4. ASSUME request[s].pc \in {"checking", "sending"} \cup PastChain,
             NEW pc \in {"sending"} \cup PastChain, Proceeds(s, pc)
      PROVE  Pending(t)'
  <2>1. Becomes(s, [pc |-> pc, tx |-> request[s].tx])
    BY <1>4, RequestShape DEF Proceeds, Becomes, DeskTypeOK
  <2>2. QED
    BY <1>1, <2>1 DEF PastChain
<1>5. CASE FindNone(s) \/ Land(s) \/ Confirm(s) \/ Store(s)
  BY <1>4, <1>5 DEF FindNone, Land, Confirm, Store, PastChain
<1>6. CASE FindExisting(s) \/ SendFails(s) \/ GiveUp(s) \/ Audit(s) \/ DatabaseFails(s)
  BY <1>2, <1>6 DEF FindExisting, SendFails, GiveUp, Audit, DatabaseFails
<1>7. CASE ReadChain(s) \/ ReadRow(s)
  BY <1>3, <1>7 DEF ReadChain, ReadRow
<1>8. CASE ReadFails(s)
  <2>1. LastResort(request[s])
    BY <1>8, RequestShape DEF ReadFails
  <2>2. Becomes(s, [request[s] EXCEPT !.pc = "falling back"])
    BY <1>8 DEF ReadFails, Proceeds, Becomes
  <2>3. QED
    BY <1>1, <2>1, <2>2 DEF LastResort
<1>9. QED
  BY <1>5, <1>6, <1>7, <1>8 DEF Serve

(* What the browser does is, to the desk, what any client of its endpoints may do. *)
LEMMA BrowserAsksDesk ==
    ASSUME NEW s \in Slots, BrowserAsks(s)
    PROVE  /\ OperatorAsks(s) /\ Asks(s)
           /\ WaitFor(s)
           /\ UNCHANGED <<page, connected, cookie, reloads>>
<1>1. /\ WaitFor(s)
      /\ UNCHANGED <<page, connected, cookie, reloads>>
      /\ AskVerify(s, Me) \/ \E expiresAt \in ExpiryDates : AskIssue(s, Me, expiresAt)
  BY DEF BrowserAsks, CheckCredential, Submit, Poll, AskGate
<1>2. QED
  BY <1>1, MeAssumption DEF OperatorAsks, Asks

LEMMA BrowserTakesAnswer ==
    ASSUME NEW s \in Slots, page \in Pages, BrowserTakes(s)
    PROVE  /\ Close(s)
           /\ awaiting = s /\ awaiting' = NoSlot
           /\ page' \in Pages
           /\ UNCHANGED <<connected, cookie, reloads>>
BY DEF BrowserTakes, CheckAnswered, SubmitAnswered, PollAnswered, GateAnswered, Take,
       Show, AfterSubmit, Refuse, Pages

(* The steps that the browser takes by itself *)
LEMMA BrowserAlone ==
    ASSUME OnboardTypeOK,
           \/ Connect \/ Disconnect \/ GoBack \/ PollsEnd \/ EnterVault
           \/ GateWithoutCookie \/ AnswerLost \/ ReloadStuck \/ ReloadAnyhow
    PROVE  UNCHANGED deskVars /\ OnboardTypeOK'
<1>1. /\ UNCHANGED deskVars
      /\ page' \in Pages
      /\ connected' \in BOOLEAN
      /\ cookie' \in BOOLEAN
      /\ awaiting' \in {awaiting, NoSlot}
  BY DEF OnboardTypeOK, Connect, Disconnect, GoBack, PollsEnd, EnterVault, GateWithoutCookie,
         AnswerLost, ReloadStuck, ReloadAnyhow, Reload, Refuse, Show, Pages
<1>2. reloads' \in 0 .. MaxReloads
  <2>1. CASE ReloadAnyhow
    BY <2>1, MaxReloadsAssumption DEF OnboardTypeOK, ReloadAnyhow
  <2>2. CASE ~ReloadAnyhow
    <3>1. UNCHANGED reloads
      BY <2>2 DEF Connect, Disconnect, GoBack, PollsEnd, EnterVault, GateWithoutCookie,
                  AnswerLost, ReloadStuck
    <3>2. QED
      BY <3>1 DEF OnboardTypeOK
  <2>3. QED
    BY <2>1, <2>2
<1>3. request' = request
  BY <1>1 DEF deskVars
<1>4. QED
  BY <1>1, <1>2, <1>3 DEF OnboardTypeOK

(* A step of the desk that leaves the browser alone, and the request it waits for pending *)
LEMMA BrowserWaits ==
    ASSUME OnboardTypeOK, Others, awaiting # NoSlot => Pending(awaiting)'
    PROVE  OnboardTypeOK'
BY DEF OnboardTypeOK, Others, browserVars, Pending

LEMMA OnboardTypeStep ==
    ASSUME DeskTypeOK, OnboardTypeOK, [OnboardNext]_onboardVars
    PROVE  OnboardTypeOK'
<1>1. /\ awaiting \in Slots \cup {NoSlot}
      /\ awaiting # NoSlot => awaiting \in Slots /\ Pending(awaiting)
      /\ page \in Pages
  BY DEF OnboardTypeOK, Pending
<1>2. CASE \/ Connect \/ Disconnect \/ GoBack \/ PollsEnd \/ EnterVault
           \/ GateWithoutCookie \/ AnswerLost \/ ReloadStuck \/ ReloadAnyhow
  BY <1>2, BrowserAlone
<1>3. ASSUME NEW s \in Slots, BrowserAsks(s)
      PROVE  OnboardTypeOK'
  <2>1. Pending(s)' /\ awaiting' = s /\ UNCHANGED <<page, connected, cookie, reloads>>
    BY <1>3, BrowserAsksDesk, AskedIsPending DEF WaitFor
  <2>2. QED
    BY <2>1 DEF OnboardTypeOK, Pending
<1>4. ASSUME NEW s \in Slots, BrowserTakes(s)
      PROVE  OnboardTypeOK'
  BY <1>1, <1>4, BrowserTakesAnswer DEF OnboardTypeOK
<1>5. ASSUME NEW s \in Slots, Serve(s), Others
      PROVE  OnboardTypeOK'
  <2>1. awaiting # NoSlot => Pending(awaiting)'
    <3>1. ASSUME NEW t \in Slots, Pending(t)
          PROVE  request'[t].pc # "idle"
      BY <1>5, <3>1, ServedStaysPending DEF Pending
    <3>2. awaiting' = awaiting
      BY <1>5 DEF Others, browserVars
    <3>3. QED
      BY <1>1, <3>1, <3>2 DEF Pending
  <2>2. QED
    BY <1>5, <2>1, BrowserWaits
<1>6. ASSUME NEW s \in Slots \ {awaiting}, Close(s), Others
      PROVE  OnboardTypeOK'
  <2>1. awaiting # NoSlot => request'[awaiting] = request[awaiting]
    BY <1>1, <1>6 DEF Close, Becomes, DeskTypeOK
  <2>2. QED
    BY <1>6, <2>1 DEF OnboardTypeOK, Others, browserVars
<1>7. CASE \/ Settle /\ Others
           \/ OperatorRevokes
           \/ TimePasses
           \/ UNCHANGED onboardVars
  <2>1. request' = request
    BY <1>7 DEF Settle, LateLands, LateExpires, OperatorRevokes, TimePasses, ClockTicks,
                onboardVars, deskVars
  <2>2. UNCHANGED <<page, connected, awaiting, reloads>> /\ cookie' \in {cookie, FALSE}
    BY <1>7 DEF Others, OperatorRevokes, TimePasses, browserVars, onboardVars
  <2>3. QED
    BY <2>1, <2>2 DEF OnboardTypeOK
<1>8. QED
  BY <1>2, <1>3, <1>4, <1>5, <1>6, <1>7 DEF OnboardNext

(* All that the onboarding does to the desk are steps of the desk, but for the operator's        *)
(* revocation, which is one that the desk's service need not have sent.                        *)
LEMMA OperatorRevocationKeeps ==
    ASSUME DeskTypeOK, OperatorRevokes
    PROVE  /\ ChainKeeps
           /\ late' \subseteq Transaction
           /\ UNCHANGED <<registerVars, request, denied>>
<1> DEFINE tx == [op |-> "revoke", wallet |-> Me]
<1>1. tx \in Transaction
  BY MeAssumption DEF Transaction
<1>2. Execute(tx)
  BY DEF Execute, OperatorRevokes
<1>3. ChainKeeps
  BY <1>1, <1>2, ExecutionKeeps
<1>4. QED
  BY <1>3 DEF OperatorRevokes, DeskTypeOK

LEMMA OnboardStepOfDesk ==
    ASSUME OnboardTypeOK, [OnboardNext]_onboardVars, ~OperatorRevokes
    PROVE  [DeskNext]_deskVars
<1>1. CASE \/ Connect \/ Disconnect \/ GoBack \/ PollsEnd \/ EnterVault
           \/ GateWithoutCookie \/ AnswerLost \/ ReloadStuck \/ ReloadAnyhow
  BY <1>1, BrowserAlone
<1>2. ASSUME NEW s \in Slots, BrowserAsks(s) \/ BrowserTakes(s)
      PROVE  DeskNext
  BY <1>2, BrowserAsksDesk, BrowserTakesAnswer DEF DeskNext, OnboardTypeOK
<1>3. CASE TimePasses
  BY <1>3 DEF TimePasses, DeskNext
<1>4. CASE UNCHANGED onboardVars
  BY <1>4 DEF onboardVars
<1>5. QED
  BY <1>1, <1>2, <1>3, <1>4 DEF OnboardNext, DeskNext

LEMMA OnboardDeskStep ==
    ASSUME DeskTypeOK, DeskInv, OnboardTypeOK, [OnboardNext]_onboardVars
    PROVE  DeskTypeOK' /\ DeskInv'
<1>1. CASE OperatorRevokes
  BY <1>1, OperatorRevocationKeeps, ChainStepKeeps
<1>2. CASE ~OperatorRevokes
  BY <1>2, OnboardStepOfDesk, DeskStep
<1>3. QED
  BY <1>1, <1>2

(* The chain's word that "active" stands for: each verify is of the browser's own wallet, and    *)
(* one that said "active" read a credential, as the row alone never does.                      *)
OfMe(r, issued) ==
    r.pc \in {"reading", "falling back", "verified"} =>
        /\ r.wallet = Me
        /\ r.pc = "verified" /\ r.verdict = "active" => issued

OnboardInv ==
    /\ \A s \in Slots : OfMe(request[s], Issued(Me))
    /\ page = "complete" => Issued(Me)

LEMMA RequestOfMe ==
    ASSUME DeskTypeOK, OnboardInv, Issued(Me) => Issued(Me)',
           NEW s \in Slots, NEW r, Becomes(s, r), OfMe(r, Issued(Me)')
    PROVE  \A t \in Slots : OfMe(request'[t], Issued(Me)')
<1>1. /\ request'[s] = r
      /\ \A t \in Slots : t # s => request'[t] = request[t]
  BY DEF Becomes, DeskTypeOK
<1>2. \A t \in Slots : OfMe(request[t], Issued(Me)')
  BY DEF OnboardInv, OfMe
<1>3. QED
  BY <1>1, <1>2

LEMMA ServedOfMe ==
    ASSUME DeskTypeOK, OnboardInv, Issued(Me) => Issued(Me)', NEW s \in Slots, Serve(s)
    PROVE  \A t \in Slots : OfMe(request'[t], Issued(Me)')
<1> DEFINE Goal == \A t \in Slots : OfMe(request'[t], Issued(Me)')
<1>1. ASSUME request[s].pc \in {"checking", "sending"} \cup PastChain,
             NEW pc \in {"sending"} \cup PastChain, Proceeds(s, pc)
      PROVE  Goal
  <2> DEFINE r == [pc |-> pc, tx |-> request[s].tx]
  <2>1. Becomes(s, r)
    BY <1>1, RequestShape DEF Proceeds, Becomes, DeskTypeOK
  <2>2. OfMe(r, Issued(Me)')
    BY <1>1 DEF OfMe, PastChain
  <2>3. QED
    BY <2>1, <2>2, RequestOfMe
<1>2. ASSUME NEW reply, Replies(s, reply)
      PROVE  Goal
  <2> DEFINE r == [pc |-> "replied", reply |-> reply]
  <2>1. Becomes(s, r) /\ OfMe(r, Issued(Me)')
    BY <1>2 DEF Replies, OfMe
  <2>2. QED
    BY <2>1, RequestOfMe
<1>3. ASSUME request[s].pc \in {"reading", "falling back"},
             NEW verdict, Verified(s, verdict), verdict = "active" => Issued(Me)
      PROVE  Goal
  <2> DEFINE r == [pc |-> "verified", wallet |-> request[s].wallet,
                   afterDenial |-> request[s].afterDenial, verdict |-> verdict]
  <2>1. Becomes(s, r)
    BY <1>3 DEF Verified
  <2>2. OfMe(r, Issued(Me)')
    BY <1>3 DEF OfMe, OnboardInv
  <2>3. QED
    BY <2>1, <2>2, RequestOfMe
<1>4. CASE FindNone(s) \/ Land(s) \/ Confirm(s) \/ Store(s)
  BY <1>1, <1>4 DEF FindNone, Land, Confirm, Store, PastChain
<1>5. CASE FindExisting(s) \/ SendFails(s) \/ GiveUp(s) \/ Audit(s) \/ DatabaseFails(s)
  BY <1>2, <1>5 DEF FindExisting, SendFails, GiveUp, Audit, DatabaseFails
<1>6. CASE ReadChain(s)
  <2>1. request[s].pc = "reading" /\ Issued(request[s].wallet)
    BY <1>6 DEF ReadChain, Issued
  <2>2. Issued(Me)
    BY <2>1 DEF OnboardInv, OfMe
  <2>3. QED
    BY <1>3, <1>6, <2>1, <2>2 DEF ReadChain
<1>7. CASE ReadRow(s)
  BY <1>3, <1>7 DEF ReadRow, RowVerdict
<1>8. CASE ReadFails(s)
  <2> DEFINE r == [request[s] EXCEPT !.pc = "falling back"]
  <2>1. request[s].pc = "reading" /\ LastResort(request[s])
    BY <1>8, RequestShape DEF ReadFails
  <2>2. Becomes(s, r)
    BY <1>8 DEF ReadFails, Proceeds, Becomes
  <2>3. request[s].wallet = Me
    BY <2>1 DEF OnboardInv, OfMe
  <2>4. r.pc = "falling back" /\ r.wallet = Me
    BY <2>1, <2>3 DEF LastResort
  <2> HIDE DEF r
  <2>5. OfMe(r, Issued(Me)')
    BY <2>4 DEF OfMe
  <2>6. QED
    BY <2>2, <2>5, RequestOfMe
<1>9. QED
  BY <1>4, <1>5, <1>6, <1>7, <1>8 DEF Serve

(* A credential account is never closed. *)
LEMMA IssuedStays ==
    ASSUME DeskTypeOK, OnboardTypeOK, [OnboardNext]_onboardVars
    PROVE  Issued(Me) => Issued(Me)'
<1>1. ASSUME ChainKeeps
      PROVE  Issued(Me) => Issued(Me)'
  BY <1>1, MeAssumption DEF ChainKeeps
<1>2. ASSUME UNCHANGED complianceVars
      PROVE  Issued(Me) => Issued(Me)'
  BY <1>1, <1>2, UnchangedKeeps
<1>3. CASE OperatorRevokes
  BY <1>1, <1>3, OperatorRevocationKeeps
<1>4. CASE [DeskNext]_deskVars
  <2>1. ASSUME NEW s \in Slots, Land(s)
        PROVE  ChainKeeps
    <3>1. PICK tx \in Transaction : Execute(tx)
      BY <2>1, RequestShape DEF Land
    <3>2. QED
      BY <3>1, ExecutionKeeps
  <2>2. ASSUME NEW tx \in late, LateLands(tx)
        PROVE  ChainKeeps
    BY <2>2, ExecutionKeeps DEF LateLands, DeskTypeOK
  <2>3. ASSUME NEW tx \in late, LateExpires(tx)
        PROVE  UNCHANGED complianceVars
    BY <2>3 DEF LateExpires
  <2>4. QED
    BY <1>1, <1>2, <1>4, <2>1, <2>2, <2>3, OffChainSteps, TickKeeps DEF DeskNext, Serve, Settle, deskVars
<1>5. QED
  BY <1>3, <1>4, OnboardStepOfDesk

LEMMA OnboardInvStep ==
    ASSUME DeskTypeOK, OnboardTypeOK, OnboardInv, [OnboardNext]_onboardVars
    PROVE  OnboardInv'
<1> DEFINE OfMeAll == \A s \in Slots : OfMe(request[s], Issued(Me))
           CompleteIssued == page = "complete" => Issued(Me)
<1>1. Issued(Me) => Issued(Me)'
  BY IssuedStays
<1>2. ASSUME request' = request
      PROVE  OfMeAll'
  BY <1>1, <1>2 DEF OnboardInv, OfMe
<1>3. ASSUME page' = "complete" => page = "complete"
      PROVE  CompleteIssued'
  BY <1>1, <1>3 DEF OnboardInv
<1>4. CASE \/ Connect \/ Disconnect \/ GoBack \/ PollsEnd \/ EnterVault
           \/ GateWithoutCookie \/ AnswerLost \/ ReloadStuck \/ ReloadAnyhow
  <2>1. request' = request
    BY <1>4, BrowserAlone DEF deskVars
  <2>2. page' = "complete" => page = "complete"
    BY <1>4 DEF Connect, Disconnect, GoBack, PollsEnd, EnterVault, GateWithoutCookie, AnswerLost,
                ReloadStuck, ReloadAnyhow, Reload, Refuse, Show, OnboardTypeOK, Pages
  <2>3. QED
    BY <1>2, <1>3, <2>1, <2>2 DEF OnboardInv
<1>5. ASSUME NEW s \in Slots, BrowserAsks(s)
      PROVE  OnboardInv'
  <2>1. ASSUME NEW r, Becomes(s, r), r.pc \in {"checking", "reading"},
               r.pc = "reading" => r.wallet = Me
        PROVE  OfMeAll'
    <3>1. OfMe(r, Issued(Me)')
      BY <2>1 DEF OfMe
    <3>2. QED
      BY <1>1, <2>1, <3>1, RequestOfMe
  <2>2. ASSUME AskVerify(s, Me)
        PROVE  OfMeAll'
    BY <2>1, <2>2 DEF AskVerify
  <2>3. ASSUME NEW expiresAt \in ExpiryDates, AskIssue(s, Me, expiresAt)
        PROVE  OfMeAll'
    BY <2>1, <2>3 DEF AskIssue
  <2>4. OfMeAll'
    BY <1>5, <2>2, <2>3 DEF BrowserAsks, CheckCredential, Submit, Poll, AskGate
  <2>5. QED
    BY <1>3, <1>5, <2>4, BrowserAsksDesk DEF OnboardInv
<1>6. ASSUME NEW s \in Slots, Close(s)
      PROVE  OfMeAll'
  <2>1. Becomes(s, Idle) /\ OfMe(Idle, Issued(Me)')
    BY <1>6 DEF Close, Idle, OfMe
  <2>2. QED
    BY <1>1, <2>1, RequestOfMe
<1>7. ASSUME NEW s \in Slots, BrowserTakes(s)
      PROVE  OnboardInv'
  <2>1. Close(s) /\ OfMeAll'
    BY <1>6, <1>7, BrowserTakesAnswer DEF OnboardTypeOK
  <2>2. CASE page' = "complete" /\ page # "complete"
    <3>1. Verdict(s) = "active"
      BY <1>7, <2>2 DEF BrowserTakes, CheckAnswered, SubmitAnswered, PollAnswered, GateAnswered,
                        Take, Show, AfterSubmit, Refuse
    <3>2. request[s].pc = "verified" /\ request[s].verdict = "active"
      BY <3>1 DEF Verdict
    <3>3. Issued(Me)
      BY <3>2 DEF OnboardInv, OfMe
    <3>4. QED
      BY <1>1, <2>1, <3>3 DEF OnboardInv
  <2>3. CASE page' = "complete" => page = "complete"
    BY <1>3, <2>1, <2>3 DEF OnboardInv
  <2>4. QED
    BY <2>2, <2>3
<1>8. ASSUME NEW s \in Slots, Serve(s), Others
      PROVE  OnboardInv'
  BY <1>1, <1>3, <1>8, ServedOfMe DEF OnboardInv, Others, browserVars
<1>9. ASSUME NEW s \in Slots, Close(s), Others
      PROVE  OnboardInv'
  BY <1>3, <1>6, <1>9 DEF OnboardInv, Others, browserVars
<1>10. CASE \/ Settle /\ Others
            \/ OperatorRevokes
            \/ TimePasses
            \/ UNCHANGED onboardVars
  <2>1. request' = request
    BY <1>10 DEF Settle, LateLands, LateExpires, OperatorRevokes, TimePasses, ClockTicks,
                 onboardVars, deskVars
  <2>2. page' = page
    BY <1>10 DEF Others, OperatorRevokes, TimePasses, browserVars, onboardVars
  <2>3. QED
    BY <1>2, <1>3, <2>1, <2>2 DEF OnboardInv
<1>11. QED
  BY <1>4, <1>5, <1>7, <1>8, <1>9, <1>10 DEF OnboardNext

LEMMA OnboardStart ==
    ASSUME OnboardInit
    PROVE  DeskTypeOK /\ DeskInv /\ OnboardTypeOK /\ OnboardInv
<1>1. DeskTypeOK /\ DeskInv
  BY DeskStart DEF OnboardInit
<1>2. OnboardTypeOK
  <2>1. reloads \in 0 .. MaxReloads
    BY MaxReloadsAssumption DEF OnboardInit
  <2>2. /\ page \in Pages
        /\ connected \in BOOLEAN
        /\ cookie \in BOOLEAN
        /\ awaiting = NoSlot
    BY DEF OnboardInit, Pages
  <2>3. QED
    BY <2>1, <2>2 DEF OnboardTypeOK
<1>3. OnboardInv
  BY DEF OnboardInit, DeskInit, OnboardInv, OfMe, Idle
<1>4. QED
  BY <1>1, <1>2, <1>3

LEMMA OnboardInvariant ==
    OnboardSafetySpec => [](DeskTypeOK /\ DeskInv /\ OnboardTypeOK /\ OnboardInv)
<1> DEFINE Inv == DeskTypeOK /\ DeskInv /\ OnboardTypeOK /\ OnboardInv
<1>1. OnboardInit => Inv
  BY OnboardStart
<1>2. Inv /\ [OnboardNext]_onboardVars => Inv'
  BY OnboardDeskStep, OnboardTypeStep, OnboardInvStep
<1>3. QED
  BY <1>1, <1>2, PTL DEF OnboardSafetySpec

(* Whatever pages the browser goes through, is sent back to or reloads, it waits for no request  *)
(* that the backend does not have.                                                             *)
THEOREM OnboardTypeCorrect == OnboardSafetySpec => []OnboardTypeOK
BY OnboardInvariant, PTL

(* What the desk promises its operators holds as well when a browser is its client, and when     *)
(* credentials are revoked that the desk was not asked to revoke.                              *)
THEOREM DeskKeptInOnboarding ==
    OnboardSafetySpec => [](RegisterBehindChain /\ AuditedOnce /\ DenialIsFinal)
<1>1. DeskTypeOK /\ DeskInv => RegisterBehindChain /\ AuditedOnce /\ DenialIsFinal
  BY DEF DeskInv, AuditBorneOut, IssueStored, AuditedOnce, Done, Operations
<1>2. QED
  BY <1>1, OnboardInvariant, PTL

(* The browser is told that its onboarding is complete only of a wallet that the program has      *)
(* issued a credential, never on the word of the row or of an answer that was about nothing.    *)
THEOREM CompleteOnlyWithCredential == OnboardSafetySpec => [](page = "complete" => Issued(Me))
<1>1. OnboardInv => (page = "complete" => Issued(Me))
  BY DEF OnboardInv
<1>2. QED
  BY <1>1, OnboardInvariant, PTL

(* Behind the browser too the chain sees a run of the gate, the operator's revocation included. *)
THEOREM OnboardingKeepsGate == OnboardSafetySpec => ComplianceSpec
<1>1. OnboardInit => ComplianceInit
  BY DEF OnboardInit, DeskInit
<1>2. DeskTypeOK /\ OnboardTypeOK /\ [OnboardNext]_onboardVars => [ComplianceNext]_complianceVars
  <2>1. OperatorRevokes => ComplianceNext
    BY MeAssumption DEF OperatorRevokes, ComplianceNext
  <2>2. QED
    BY <2>1, OnboardStepOfDesk, DeskGateStep
<1>3. QED
  BY <1>1, <1>2, OnboardInvariant, PTL DEF OnboardSafetySpec, ComplianceSpec

(* The browser, its retries and the operator's revocation keep the record too, which is what the *)
(* onboarding's end rests on: nothing told that did not happen, nothing told twice.             *)
THEOREM OnboardingImplementsRecord == OnboardSafetySpec => ImplementsRecord
<1>1. OnboardInit => Record!RecordInit
  BY RecordStart DEF OnboardInit
<1>2. ASSUME DeskTypeOK, DeskInv, OnboardTypeOK, [OnboardNext]_onboardVars
      PROVE  [Record!RecordNext]_(Record!recordVars)
  <2>1. CASE OperatorRevokes
    <3> DEFINE tx == [op |-> "revoke", wallet |-> Me]
    <3>1. tx \in Transaction
      BY MeAssumption DEF Transaction
    <3>2. Execute(tx)
      BY <2>1 DEF OperatorRevokes, Execute
    <3>3. UNCHANGED <<institution, audited, request>>
      BY <2>1 DEF OperatorRevokes, registerVars
    <3>4. News' = News
      BY <3>3 DEF News, CarriedAt
    <3>5. tx.wallet = Me /\ tx.op = "revoke"
      OBVIOUS
    <3> HIDE DEF tx
    <3>6. /\ ChainView[Me] = Record!Before("revoke")
          /\ ChainView' = [ChainView EXCEPT ![Me] = Record!After("revoke")]
      BY <1>2, <3>1, <3>2, <3>5, ExecutionHappens
    <3>7. Record!Happen(Me, "revoke")
      BY <3>3, <3>4, <3>6 DEF Record!Happen, ChainView, News
    <3>8. QED
      BY <3>7, MeAssumption DEF Record!RecordNext, Record!Operations
  <2>2. CASE ~OperatorRevokes
    BY <1>2, <2>2, OnboardStepOfDesk, RecordSteps DEF RecordStep
  <2>3. QED
    BY <2>1, <2>2
<1>3. QED
  BY <1>1, <1>2, OnboardInvariant, PTL DEF OnboardSafetySpec, ImplementsRecord, Record!RecordSpec
=============================================================================
