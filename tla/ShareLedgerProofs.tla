------------------------- MODULE ShareLedgerProofs -------------------------
(***************************************************************************)
(* Theorems about ShareLedger, for any wallets, amounts, prices, limits    *)
(* and width of the integers.                                              *)
(***************************************************************************)
EXTENDS ShareLedger, Integers, TLAPS

(* The domains of the parameters. *)
LEMMA Domains ==
    /\ MaxU64 \in Nat /\ Denominator \in Nat /\ Denominator > 0 /\ Denominator <= MaxU64
    /\ Amounts \subseteq 0 .. MaxU64 /\ NavPrices \subseteq 0 .. MaxU64
    /\ InitialUsdc \in Nat
    /\ VaultAccount \notin Wallets
    /\ VaultAccount \in Destinations /\ Wallets \subseteq Destinations
  BY MaxU64Assumption, DenominatorIsPositive, LedgerInputsAssumption, InitialUsdcAssumption,
     VaultAccountAssumption DEF FitsU64, Destinations

(* Integer division of naturals rounds down. *)
LEMMA FloorDivision ==
    ASSUME NEW a \in Nat, NEW b \in Nat, b > 0
    PROVE  a \div b \in Nat /\ (a \div b) * b <= a
  BY SMT

(* Shares are never sold below the NAV. *)
LEMMA SharesMintedRoundsDown ==
    ASSUME NEW amount \in Nat, NEW price \in Nat, price > 0
    PROVE  /\ SharesMinted(amount, price) \in Nat
           /\ SharesMinted(amount, price) * price <= amount * Denominator
  BY FloorDivision, Domains DEF SharesMinted

(* Shares are never paid out above the NAV. *)
LEMMA PayoutRoundsDown ==
    ASSUME NEW shares \in Nat, NEW price \in Nat
    PROVE  /\ Payout(shares, price) \in Nat
           /\ Payout(shares, price) * Denominator <= shares * price
  BY FloorDivision, Domains DEF Payout

LEMMA CreditKeepsBalances ==
    ASSUME NEW S, NEW balance \in [S -> Nat], NEW holder \in S, NEW amount \in Nat
    PROVE  /\ Credit(balance, holder, amount) \in [S -> Nat]
           /\ Credit(balance, holder, amount)[holder] = balance[holder] + amount
           /\ \A x \in S : x # holder => Credit(balance, holder, amount)[x] = balance[x]
  BY DEF Credit

LEMMA DebitKeepsBalances ==
    ASSUME NEW S, NEW balance \in [S -> Nat], NEW holder \in S, NEW amount \in Nat,
           amount <= balance[holder]
    PROVE  /\ Debit(balance, holder, amount) \in [S -> Nat]
           /\ Debit(balance, holder, amount)[holder] = balance[holder] - amount
           /\ \A x \in S : x # holder => Debit(balance, holder, amount)[x] = balance[x]
  BY DEF Debit

(* A covered token transfer keeps balances natural and moves exactly the amount. *)
LEMMA MoveKeepsBalances ==
    ASSUME NEW S, NEW balance \in [S -> Nat], NEW from \in S, NEW to \in S,
           NEW amount \in Nat, amount <= balance[from]
    PROVE  /\ Move(balance, from, to, amount) \in [S -> Nat]
           /\ Move(balance, from, to, amount)[from] =
                 IF from = to THEN balance[from] ELSE balance[from] - amount
           /\ Move(balance, from, to, amount)[to] =
                 IF from = to THEN balance[to] ELSE balance[to] + amount
           /\ \A x \in S : x # from /\ x # to =>
                 Move(balance, from, to, amount)[x] = balance[x]
  <1> DEFINE debited == Debit(balance, from, amount)
  <1>1. /\ debited \in [S -> Nat]
        /\ debited[from] = balance[from] - amount
        /\ \A x \in S : x # from => debited[x] = balance[x]
    BY DebitKeepsBalances
  <1> HIDE DEF debited
  <1>2. /\ Credit(debited, to, amount) \in [S -> Nat]
        /\ Credit(debited, to, amount)[to] = debited[to] + amount
        /\ \A x \in S : x # to => Credit(debited, to, amount)[x] = debited[x]
    BY <1>1 DEF Credit
  <1>3. balance[from] \in Nat /\ balance[to] \in Nat
    OBVIOUS
  <1>4. Move(balance, from, to, amount) = Credit(debited, to, amount)
    BY DEF Move, debited
  <1>5. CASE from = to
    BY <1>1, <1>2, <1>3, <1>4, <1>5
  <1>6. CASE from # to
    BY <1>1, <1>2, <1>3, <1>4, <1>6
  <1>7. QED
    BY <1>5, <1>6

(* What a transfer does to the vault's own account. *)
LEMMA VaultReceives ==
    ASSUME LedgerTypeOK, NEW from \in Wallets, NEW amount \in Nat, amount <= usdc[from],
           usdc' = Move(usdc, from, VaultAccount, amount)
    PROVE  /\ usdc' \in [Destinations -> Nat]
           /\ usdc'[VaultAccount] = usdc[VaultAccount] + amount
  <1>1. /\ usdc \in [Destinations -> Nat] /\ from \in Destinations
        /\ VaultAccount \in Destinations /\ from # VaultAccount
    BY Domains DEF LedgerTypeOK
  <1>2. /\ Move(usdc, from, VaultAccount, amount) \in [Destinations -> Nat]
        /\ Move(usdc, from, VaultAccount, amount)[VaultAccount] = usdc[VaultAccount] + amount
    BY <1>1, MoveKeepsBalances
  <1>3. QED
    BY <1>2

LEMMA VaultPays ==
    ASSUME LedgerTypeOK, NEW to \in Destinations, NEW amount \in Nat,
           amount <= usdc[VaultAccount],
           usdc' = Move(usdc, VaultAccount, to, amount)
    PROVE  /\ usdc' \in [Destinations -> Nat]
           /\ usdc'[VaultAccount] = IF to = VaultAccount THEN usdc[VaultAccount]
                                    ELSE usdc[VaultAccount] - amount
  <1>1. usdc \in [Destinations -> Nat] /\ VaultAccount \in Destinations
    BY Domains DEF LedgerTypeOK
  <1>2. /\ Move(usdc, VaultAccount, to, amount) \in [Destinations -> Nat]
        /\ Move(usdc, VaultAccount, to, amount)[VaultAccount] =
              IF VaultAccount = to THEN usdc[VaultAccount] ELSE usdc[VaultAccount] - amount
    BY <1>1, MoveKeepsBalances
  <1>3. QED
    BY <1>2

-----------------------------------------------------------------------------
(* The inductive invariant: types, the money behind the books, and the shares behind           *)
(* total_supply, which the checked subtraction needs to stay natural.                          *)
LedgerInv == LedgerTypeOK /\ BackedDeposits /\ SupplyCovered

(* What every step but the pool's own invariant gives: types, the supply, and a pool step.     *)
LedgerStep == LedgerTypeOK' /\ SupplyCovered' /\ [Pool!PoolNext]_(Pool!poolVars)

LEMMA LedgerInvInit == LedgerInit => LedgerInv
  <1> SUFFICES ASSUME LedgerInit PROVE LedgerInv
    OBVIOUS
  <1>1. /\ usdc \in [Destinations -> Nat]
        /\ usdc[VaultAccount] = 0
    BY Domains DEF LedgerInit
  <1>2. cvault \in [Wallets -> Nat] /\ trade \in [Wallets -> Nat]
    BY DEF LedgerInit
  <1>3. /\ nav \in 1 .. MaxU64
        /\ totalDeposits \in 0 .. MaxU64 /\ totalSupply \in 0 .. MaxU64
        /\ cvaultSupply \in Nat /\ tradeSupply \in Nat
    BY Domains DEF LedgerInit
  <1>4. /\ paused \in BOOLEAN /\ secondaryMarket \in BOOLEAN
        /\ minDeposit \in DepositLimits /\ maxDeposit \in DepositLimits
    BY DEF LedgerInit
  <1>5. LedgerTypeOK
    BY <1>1, <1>2, <1>3, <1>4 DEF LedgerTypeOK
  <1>6. BackedDeposits /\ SupplyCovered
    BY <1>1 DEF LedgerInit, BackedDeposits, SupplyCovered, OutstandingShares
  <1>7. QED
    BY <1>5, <1>6 DEF LedgerInv

(* A deposit is a subscription to the pool. *)
LEMMA DepositStep ==
    ASSUME LedgerInv, NEW payer \in Wallets, NEW recipient \in Wallets, NEW a \in Amounts,
           BookDeposit(payer, recipient, a)
    PROVE  LedgerStep
  <1> DEFINE minted == SharesMinted(a, nav)
  <1>1. a \in 0 .. MaxU64 /\ nav \in Nat /\ nav > 0
    BY Domains DEF LedgerInv, LedgerTypeOK
  <1>2. minted \in Nat
    BY <1>1, SharesMintedRoundsDown
  <1>3. /\ usdc' \in [Destinations -> Nat]
        /\ usdc'[VaultAccount] = usdc[VaultAccount] + a
    BY <1>1, VaultReceives DEF LedgerInv, BookDeposit
  <1>4. /\ minted > 0
        /\ cvault' = Credit(cvault, recipient, minted) /\ cvaultSupply' = cvaultSupply + minted
        /\ totalDeposits' = totalDeposits + a /\ totalDeposits' <= MaxU64
        /\ totalSupply' = totalSupply + minted /\ totalSupply' <= MaxU64
        /\ UNCHANGED <<configVars, nav, trade, tradeSupply>>
    BY DEF BookDeposit, MintCvault, FitsU64
  <1>5. minted = Pool!SharesFor(a, nav)
    BY DEF SharesMinted, Pool!SharesFor
  <1> HIDE DEF minted
  <1>6. cvault' \in [Wallets -> Nat]
    BY <1>2, <1>4 DEF Credit, LedgerInv, LedgerTypeOK
  <1>7. LedgerTypeOK'
    BY <1>1, <1>2, <1>3, <1>4, <1>6 DEF LedgerInv, LedgerTypeOK, configVars
  <1>8. OutstandingShares' = OutstandingShares + minted
    BY <1>2, <1>4 DEF LedgerInv, LedgerTypeOK, OutstandingShares
  <1>9. SupplyCovered'
    BY <1>2, <1>4, <1>8 DEF LedgerInv, LedgerTypeOK, SupplyCovered, OutstandingShares
  <1>10. Pool!Subscribe(a)
    BY <1>3, <1>4, <1>5, <1>8 DEF Pool!Subscribe
  <1>11. QED
    BY <1>1, <1>7, <1>9, <1>10 DEF LedgerStep, Pool!PoolNext

(* A redemption in either token pays out of the pool, or back into it. *)
LEMMA PaidRedemption ==
    ASSUME LedgerInv, NEW d \in Destinations, NEW a \in Amounts,
           VaultCanPay(a), a <= OutstandingShares,
           LedgerTypeOK', OutstandingShares' = OutstandingShares - a, nav' = nav,
           usdc' = Move(usdc, VaultAccount, d, Payout(a, nav)), WriteOff(a)
    PROVE  [Pool!PoolNext]_(Pool!poolVars)
  <1> DEFINE paid == Payout(a, nav)
  <1>1. a \in 0 .. MaxU64 /\ nav \in Nat
    BY Domains DEF LedgerInv, LedgerTypeOK
  <1>2. paid \in Nat /\ paid = Pool!MoneyFor(a, nav)
    BY <1>1, PayoutRoundsDown DEF Payout, Pool!MoneyFor
  <1>3. paid <= usdc[VaultAccount] /\ usdc' = Move(usdc, VaultAccount, d, paid)
    BY DEF VaultCanPay
  <1>4. totalDeposits' = IF paid >= totalDeposits THEN 0 ELSE totalDeposits - paid
    BY DEF WriteOff, SaturatingSub
  <1> HIDE DEF paid
  <1>5. usdc'[VaultAccount] = IF d = VaultAccount THEN usdc[VaultAccount]
                              ELSE usdc[VaultAccount] - paid
    BY <1>2, <1>3, VaultPays DEF LedgerInv
  <1>6. CASE d = VaultAccount
    <2>1. Pool!Return(a)
      BY <1>2, <1>4, <1>5, <1>6 DEF Pool!Return, Pool!WriteOff
    <2>2. QED
      BY <1>1, <2>1 DEF Pool!PoolNext
  <1>7. CASE d # VaultAccount
    <2>1. Pool!PayOut(a)
      BY <1>2, <1>3, <1>4, <1>5, <1>7 DEF Pool!PayOut, Pool!WriteOff
    <2>2. QED
      BY <1>1, <2>1 DEF Pool!PoolNext
  <1>8. QED
    BY <1>6, <1>7

(* The types of the balances and of the books after a payment by the vault. *)
LEMMA PaymentTypes ==
    ASSUME LedgerInv, NEW d \in Destinations, NEW a \in Amounts, VaultCanPay(a),
           usdc' = Move(usdc, VaultAccount, d, Payout(a, nav)), WriteOff(a)
    PROVE  usdc' \in [Destinations -> Nat] /\ totalDeposits' \in 0 .. MaxU64
  <1>1. Payout(a, nav) \in Nat /\ Payout(a, nav) <= usdc[VaultAccount]
    BY Domains, PayoutRoundsDown DEF LedgerInv, LedgerTypeOK, VaultCanPay
  <1>2. usdc' \in [Destinations -> Nat]
    BY <1>1, VaultPays DEF LedgerInv
  <1>3. totalDeposits' \in 0 .. MaxU64
    <2>1. totalDeposits \in 0 .. MaxU64 /\ MaxU64 \in Nat
      BY Domains DEF LedgerInv, LedgerTypeOK
    <2>2. totalDeposits' = IF Payout(a, nav) >= totalDeposits THEN 0
                           ELSE totalDeposits - Payout(a, nav)
      BY DEF WriteOff, SaturatingSub
    <2>3. QED
      BY <1>1, <2>1, <2>2
  <1>4. QED
    BY <1>2, <1>3

(* Burning cVAULT that a wallet holds. *)
LEMMA CvaultBurned ==
    ASSUME LedgerInv, NEW w \in Wallets, NEW a \in Amounts, BurnCvault(w, a)
    PROVE  /\ cvault' \in [Wallets -> Nat] /\ cvaultSupply' \in Nat
           /\ cvaultSupply' = cvaultSupply - a /\ a \in Nat /\ a <= cvaultSupply
  BY Domains, DebitKeepsBalances DEF LedgerInv, LedgerTypeOK, BurnCvault

(* Burning cVAULT-TRADE that a wallet holds. *)
LEMMA TradeBurned ==
    ASSUME LedgerInv, NEW w \in Wallets, NEW a \in Amounts, BurnTrade(w, a)
    PROVE  /\ trade' \in [Wallets -> Nat] /\ tradeSupply' \in Nat
           /\ tradeSupply' = tradeSupply - a /\ a \in Nat /\ a <= tradeSupply
  BY Domains, DebitKeepsBalances DEF LedgerInv, LedgerTypeOK, BurnTrade

LEMMA RedeemStep ==
    ASSUME LedgerInv, NEW w \in Wallets, NEW d \in Destinations, NEW a \in Amounts,
           Redeem(w, d, a)
    PROVE  LedgerStep
  <1>1. /\ VaultCanPay(a) /\ BurnCvault(w, a) /\ WriteOff(a)
        /\ usdc' = Move(usdc, VaultAccount, d, Payout(a, nav))
        /\ a <= totalSupply /\ totalSupply' = totalSupply - a
        /\ UNCHANGED <<configVars, nav, trade, tradeSupply>>
    BY DEF Redeem, SupplyAllows
  <1>2. /\ cvault' \in [Wallets -> Nat] /\ cvaultSupply' \in Nat
        /\ cvaultSupply' = cvaultSupply - a /\ a \in Nat /\ a <= cvaultSupply
    BY <1>1, CvaultBurned
  <1>3. usdc' \in [Destinations -> Nat] /\ totalDeposits' \in 0 .. MaxU64
    BY <1>1, PaymentTypes
  <1>4. LedgerTypeOK'
    BY <1>1, <1>2, <1>3, Domains DEF LedgerInv, LedgerTypeOK, configVars
  <1>5. a <= OutstandingShares /\ OutstandingShares' = OutstandingShares - a
    BY <1>1, <1>2 DEF LedgerInv, LedgerTypeOK, OutstandingShares
  <1>6. SupplyCovered'
    BY <1>1, <1>2, <1>5 DEF LedgerInv, LedgerTypeOK, SupplyCovered, OutstandingShares
  <1>7. [Pool!PoolNext]_(Pool!poolVars)
    BY <1>1, <1>4, <1>5, PaidRedemption
  <1>8. QED
    BY <1>4, <1>6, <1>7 DEF LedgerStep

(* The checked subtraction of redeem_tradeable is the saturating one where it is defined. *)
LEMMA RedeemTradeableStep ==
    ASSUME LedgerInv, NEW w \in Wallets, NEW d \in Destinations, NEW a \in Amounts,
           RedeemTradeable(w, d, a)
    PROVE  LedgerStep
  <1>1. /\ VaultCanPay(a) /\ BurnTrade(w, a) /\ Payout(a, nav) <= totalDeposits
        /\ totalDeposits' = totalDeposits - Payout(a, nav)
        /\ usdc' = Move(usdc, VaultAccount, d, Payout(a, nav))
        /\ a <= totalSupply /\ totalSupply' = totalSupply - a
        /\ UNCHANGED <<configVars, nav, cvault, cvaultSupply>>
    BY DEF RedeemTradeable, SupplyAllows
  <1>2. /\ trade' \in [Wallets -> Nat] /\ tradeSupply' \in Nat
        /\ tradeSupply' = tradeSupply - a /\ a \in Nat /\ a <= tradeSupply
    BY <1>1, TradeBurned
  <1>3. WriteOff(a)
    <2>1. a \in Nat /\ nav \in Nat
      BY <1>2 DEF LedgerInv, LedgerTypeOK
    <2>2. Payout(a, nav) \in Nat
      BY <2>1, PayoutRoundsDown
    <2>3. QED
      BY <1>1, <2>2 DEF LedgerInv, LedgerTypeOK, WriteOff, SaturatingSub
  <1>4. usdc' \in [Destinations -> Nat] /\ totalDeposits' \in 0 .. MaxU64
    BY <1>1, <1>3, PaymentTypes
  <1>5. LedgerTypeOK'
    BY <1>1, <1>2, <1>4, Domains DEF LedgerInv, LedgerTypeOK, configVars
  <1>6. a <= OutstandingShares /\ OutstandingShares' = OutstandingShares - a
    BY <1>1, <1>2 DEF LedgerInv, LedgerTypeOK, OutstandingShares
  <1>7. SupplyCovered'
    BY <1>1, <1>2, <1>6 DEF LedgerInv, LedgerTypeOK, SupplyCovered, OutstandingShares
  <1>8. [Pool!PoolNext]_(Pool!poolVars)
    BY <1>1, <1>3, <1>5, <1>6, PaidRedemption
  <1>9. QED
    BY <1>5, <1>7, <1>8 DEF LedgerStep

(* Conversion and re-wrapping leave the shares outstanding, and so the pool, as they are. *)
LEMMA ConvertStep ==
    ASSUME LedgerInv, NEW w \in Wallets, NEW recipient \in Wallets, NEW a \in Amounts,
           ConvertToTradeable(w, recipient, a)
    PROVE  LedgerStep
  <1>1. /\ BurnCvault(w, a)
        /\ trade' = Credit(trade, recipient, a) /\ tradeSupply' = tradeSupply + a
        /\ UNCHANGED <<configVars, nav, totalDeposits, totalSupply, usdc>>
    BY DEF ConvertToTradeable, MintTrade
  <1>2. /\ cvault' \in [Wallets -> Nat] /\ cvaultSupply' \in Nat
        /\ cvaultSupply' = cvaultSupply - a /\ a \in Nat /\ a <= cvaultSupply
    BY <1>1, CvaultBurned
  <1>3. trade' \in [Wallets -> Nat]
    BY <1>1, <1>2 DEF Credit, LedgerInv, LedgerTypeOK
  <1>4. LedgerTypeOK'
    BY <1>1, <1>2, <1>3 DEF LedgerInv, LedgerTypeOK, configVars
  <1>5. OutstandingShares' = OutstandingShares
    BY <1>1, <1>2 DEF LedgerInv, LedgerTypeOK, OutstandingShares
  <1>6. SupplyCovered' /\ UNCHANGED Pool!poolVars
    BY <1>1, <1>5 DEF LedgerInv, SupplyCovered, Pool!poolVars
  <1>7. QED
    BY <1>4, <1>6 DEF LedgerStep

LEMMA RewrapStep ==
    ASSUME LedgerInv, NEW w \in Wallets, NEW recipient \in Wallets, NEW a \in Amounts,
           RewrapTradeable(w, recipient, a)
    PROVE  LedgerStep
  <1>1. /\ BurnTrade(w, a)
        /\ cvault' = Credit(cvault, recipient, a) /\ cvaultSupply' = cvaultSupply + a
        /\ UNCHANGED <<configVars, nav, totalDeposits, totalSupply, usdc>>
    BY DEF RewrapTradeable, MintCvault
  <1>2. /\ trade' \in [Wallets -> Nat] /\ tradeSupply' \in Nat
        /\ tradeSupply' = tradeSupply - a /\ a \in Nat /\ a <= tradeSupply
    BY <1>1, TradeBurned
  <1>3. cvault' \in [Wallets -> Nat]
    BY <1>1, <1>2 DEF Credit, LedgerInv, LedgerTypeOK
  <1>4. LedgerTypeOK'
    BY <1>1, <1>2, <1>3 DEF LedgerInv, LedgerTypeOK, configVars
  <1>5. OutstandingShares' = OutstandingShares
    BY <1>1, <1>2 DEF LedgerInv, LedgerTypeOK, OutstandingShares
  <1>6. SupplyCovered' /\ UNCHANGED Pool!poolVars
    BY <1>1, <1>5 DEF LedgerInv, SupplyCovered, Pool!poolVars
  <1>7. QED
    BY <1>4, <1>6 DEF LedgerStep

(* set_nav reprices the pool. *)
LEMMA SetNavStep ==
    ASSUME LedgerInv, NEW price \in NavPrices, SetNav(price)
    PROVE  LedgerStep
  <1>1. /\ price > 0 /\ nav' = price
        /\ UNCHANGED <<configVars, totalDeposits, totalSupply, usdc, shareVars>>
    BY DEF SetNav
  <1>2. price \in 0 .. MaxU64
    BY Domains
  <1>3. LedgerTypeOK' /\ SupplyCovered'
    BY <1>1, <1>2, Domains
       DEF LedgerInv, LedgerTypeOK, SupplyCovered, OutstandingShares, configVars, shareVars
  <1>4. Pool!Reprice(price)
    BY <1>1 DEF Pool!Reprice, OutstandingShares, shareVars
  <1>5. QED
    BY <1>2, <1>3, <1>4 DEF LedgerStep, Pool!PoolNext

(* set_pause and update_config touch neither money nor shares. *)
LEMMA ConfigurationStep ==
    ASSUME LedgerInv,
           \/ \E pause \in BOOLEAN : SetPause(pause)
           \/ \E min, max \in DepositLimits, enabled \in BOOLEAN :
                 UpdateLimits(min, max, enabled)
    PROVE  LedgerStep
  <1>1. UNCHANGED <<nav, totalDeposits, totalSupply, usdc, shareVars>>
    BY DEF SetPause, UpdateLimits
  <1>2. /\ paused' \in BOOLEAN /\ secondaryMarket' \in BOOLEAN
        /\ minDeposit' \in DepositLimits /\ maxDeposit' \in DepositLimits
    BY DEF SetPause, UpdateLimits, LedgerInv, LedgerTypeOK
  <1>3. LedgerTypeOK'
    BY <1>1, <1>2 DEF LedgerInv, LedgerTypeOK, shareVars
  <1>4. SupplyCovered' /\ UNCHANGED Pool!poolVars
    BY <1>1 DEF LedgerInv, SupplyCovered, OutstandingShares, Pool!poolVars, shareVars
  <1>5. QED
    BY <1>3, <1>4 DEF LedgerStep

(* USDC sent to the vault from outside the program is a donation. *)
LEMMA TransferUsdcStep ==
    ASSUME LedgerInv, NEW from \in Wallets, NEW to \in Destinations, NEW a \in Amounts,
           TransferUsdc(from, to, a)
    PROVE  LedgerStep
  <1>1. /\ a \in 0 .. MaxU64 /\ a \in Nat /\ from \in Destinations /\ from # VaultAccount
        /\ VaultAccount \in Destinations
        /\ usdc \in [Destinations -> Nat]
    BY Domains DEF LedgerInv, LedgerTypeOK
  <1>2. /\ a <= usdc[from] /\ usdc' = Move(usdc, from, to, a)
        /\ UNCHANGED <<configVars, nav, totalDeposits, totalSupply, shareVars>>
    BY DEF TransferUsdc
  <1>3. usdc' \in [Destinations -> Nat]
    BY <1>1, <1>2, MoveKeepsBalances
  <1>4. LedgerTypeOK'
    BY <1>2, <1>3 DEF LedgerInv, LedgerTypeOK, configVars, shareVars
  <1>5. SupplyCovered' /\ UNCHANGED <<totalDeposits, OutstandingShares, nav>>
    BY <1>2 DEF LedgerInv, SupplyCovered, OutstandingShares, shareVars
  <1>6. CASE to = VaultAccount
    <2>1. usdc'[VaultAccount] = usdc[VaultAccount] + a
      BY <1>1, <1>2, <1>6, VaultReceives DEF LedgerInv
    <2>2. Pool!Donate(a)
      BY <1>5, <2>1 DEF Pool!Donate
    <2>3. QED
      BY <1>1, <1>4, <1>5, <2>2 DEF LedgerStep, Pool!PoolNext
  <1>7. CASE to # VaultAccount
    <2>1. usdc'[VaultAccount] = usdc[VaultAccount]
      BY <1>1, <1>2, <1>7, MoveKeepsBalances
    <2>2. UNCHANGED Pool!poolVars
      BY <1>5, <2>1 DEF Pool!poolVars
    <2>3. QED
      BY <1>4, <1>5, <2>2 DEF LedgerStep
  <1>8. QED
    BY <1>6, <1>7

(* Shares that change hands stay outstanding. *)
LEMMA TransferSharesStep ==
    ASSUME LedgerInv, NEW from \in Wallets, NEW to \in Wallets, NEW a \in Amounts,
           TransferCvault(from, to, a) \/ TransferTrade(from, to, a)
    PROVE  LedgerStep
  <1>1. UNCHANGED <<configVars, nav, totalDeposits, totalSupply, usdc, cvaultSupply, tradeSupply>>
    BY DEF TransferCvault, TransferTrade
  <1>2. a \in Nat /\ cvault \in [Wallets -> Nat] /\ trade \in [Wallets -> Nat]
    BY Domains DEF LedgerInv, LedgerTypeOK
  <1>3. cvault' \in [Wallets -> Nat] /\ trade' \in [Wallets -> Nat]
    <2>1. CASE TransferCvault(from, to, a)
      BY <1>2, <2>1, MoveKeepsBalances DEF TransferCvault
    <2>2. CASE TransferTrade(from, to, a)
      BY <1>2, <2>2, MoveKeepsBalances DEF TransferTrade
    <2>3. QED
      BY <2>1, <2>2
  <1>4. LedgerTypeOK'
    BY <1>1, <1>3 DEF LedgerInv, LedgerTypeOK, configVars
  <1>5. SupplyCovered' /\ UNCHANGED Pool!poolVars
    BY <1>1 DEF LedgerInv, SupplyCovered, OutstandingShares, Pool!poolVars
  <1>6. QED
    BY <1>4, <1>5 DEF LedgerStep

(* Shares burnt by their holder are forfeited. *)
LEMMA DiscardStep ==
    ASSUME LedgerInv, NEW w \in Wallets, NEW a \in Amounts,
           DiscardCvault(w, a) \/ DiscardTrade(w, a)
    PROVE  LedgerStep
  <1>1. UNCHANGED <<configVars, nav, totalDeposits, totalSupply, usdc>>
    BY DEF DiscardCvault, DiscardTrade
  <1>2. /\ cvault' \in [Wallets -> Nat] /\ trade' \in [Wallets -> Nat]
        /\ cvaultSupply' \in Nat /\ tradeSupply' \in Nat
        /\ a <= OutstandingShares /\ OutstandingShares' = OutstandingShares - a
    <2>1. CASE DiscardCvault(w, a)
      BY <2>1, CvaultBurned DEF DiscardCvault, LedgerInv, LedgerTypeOK, OutstandingShares
    <2>2. CASE DiscardTrade(w, a)
      BY <2>2, TradeBurned DEF DiscardTrade, LedgerInv, LedgerTypeOK, OutstandingShares
    <2>3. QED
      BY <2>1, <2>2
  <1>3. a \in 0 .. MaxU64 /\ a \in Nat
    BY Domains
  <1>4. LedgerTypeOK'
    BY <1>1, <1>2 DEF LedgerInv, LedgerTypeOK, configVars
  <1>5. SupplyCovered'
    <2>1. OutstandingShares \in Nat /\ totalSupply \in Nat /\ OutstandingShares <= totalSupply
      BY Domains DEF LedgerInv, LedgerTypeOK, SupplyCovered, OutstandingShares
    <2>2. OutstandingShares' <= totalSupply
      BY <1>2, <1>3, <2>1
    <2>3. QED
      BY <1>1, <2>2 DEF SupplyCovered
  <1>6. Pool!Forfeit(a)
    BY <1>1, <1>2 DEF Pool!Forfeit
  <1>7. QED
    BY <1>3, <1>4, <1>5, <1>6 DEF LedgerStep, Pool!PoolNext

(* Every step keeps the types and the supply, and is a step of the pool or none. *)
LEMMA EveryStep ==
    ASSUME LedgerInv, [LedgerNext]_ledgerVars
    PROVE  LedgerStep
  <1>1. CASE Instructions
    BY <1>1, DepositStep, RedeemStep, RedeemTradeableStep, ConvertStep, RewrapStep
       DEF Instructions
  <1>2. CASE Administration
    BY <1>2, SetNavStep, ConfigurationStep DEF Administration
  <1>3. CASE TokenHolders
    BY <1>3, TransferUsdcStep, TransferSharesStep, DiscardStep DEF TokenHolders
  <1>4. CASE UNCHANGED ledgerVars
    <2>1. LedgerTypeOK' /\ SupplyCovered' /\ UNCHANGED Pool!poolVars
      BY <1>4 DEF ledgerVars, configVars, shareVars, LedgerInv, LedgerTypeOK, SupplyCovered,
                  OutstandingShares, Pool!poolVars
    <2>2. QED
      BY <2>1 DEF LedgerStep
  <1>5. QED
    BY <1>1, <1>2, <1>3, <1>4 DEF LedgerNext

-----------------------------------------------------------------------------
(* What the invariant and a pool step make of the money behind the books. *)
LEMMA BackingKept ==
    ASSUME LedgerInv, LedgerStep
    PROVE  BackedDeposits'
  <1>1. /\ usdc[VaultAccount] \in Nat /\ usdc'[VaultAccount] \in Nat
        /\ totalDeposits \in Nat /\ totalDeposits' \in Nat /\ nav \in Nat
        /\ totalDeposits <= usdc[VaultAccount]
    BY Domains DEF LedgerInv, LedgerStep, LedgerTypeOK, BackedDeposits
  <1>2. CASE UNCHANGED Pool!poolVars
    BY <1>1, <1>2 DEF Pool!poolVars, BackedDeposits
  <1>3. ASSUME NEW x \in 0 .. MaxU64,
               Pool!Subscribe(x) \/ Pool!PayOut(x) \/ Pool!Return(x) \/ Pool!Donate(x)
                  \/ Pool!Forfeit(x)
        PROVE  BackedDeposits'
    <2>1. x \in Nat /\ Pool!MoneyFor(x, nav) \in Nat
      BY <1>1, Domains, PayoutRoundsDown DEF Payout, Pool!MoneyFor
    <2>2. QED
      BY <1>1, <1>3, <2>1 DEF Pool!Subscribe, Pool!PayOut, Pool!Return, Pool!Donate,
                              Pool!Forfeit, Pool!WriteOff, BackedDeposits
  <1>4. ASSUME NEW price \in 0 .. MaxU64, Pool!Reprice(price)
        PROVE  BackedDeposits'
    BY <1>1, <1>4 DEF Pool!Reprice, BackedDeposits
  <1>5. QED
    BY <1>2, <1>3, <1>4 DEF LedgerStep, Pool!PoolNext

(* The inductive invariant holds in every reachable state. *)
THEOREM LedgerInvariant == LedgerSpec => []LedgerInv
  <1>1. LedgerInv /\ [LedgerNext]_ledgerVars => LedgerInv'
    BY EveryStep, BackingKept DEF LedgerInv, LedgerStep
  <1>2. QED
    BY LedgerInvInit, <1>1, PTL DEF LedgerSpec

(* The ledger's type invariant, for any wallets, amounts, prices, limits and integer width. *)
THEOREM LedgerTypeCorrect == LedgerSpec => []LedgerTypeOK
  <1>1. LedgerInv => LedgerTypeOK
    BY DEF LedgerInv
  <1>2. QED
    BY LedgerInvariant, <1>1, PTL

(* The deposits on the books of VaultState are always in the vault's token account, although *)
(* one redemption path saturates and the other one checks.                                   *)
THEOREM DepositsAlwaysBacked == LedgerSpec => []BackedDeposits
  <1>1. LedgerInv => BackedDeposits
    BY DEF LedgerInv
  <1>2. QED
    BY LedgerInvariant, <1>1, PTL

(* VaultState.total_supply always covers every share of either kind that exists. *)
THEOREM SupplyAlwaysCovered == LedgerSpec => []SupplyCovered
  <1>1. LedgerInv => SupplyCovered
    BY DEF LedgerInv
  <1>2. QED
    BY LedgerInvariant, <1>1, PTL

(* The ledger of lib.rs implements the NAV-priced pool. *)
THEOREM LedgerImplementsPool == LedgerSpec => ImplementsNavPool
  <1>1. LedgerInit => Pool!PoolInit
    BY Domains DEF LedgerInit, Pool!PoolInit, OutstandingShares
  <1>2. LedgerInv /\ [LedgerNext]_ledgerVars => [Pool!PoolNext]_(Pool!poolVars)
    BY EveryStep DEF LedgerStep
  <1>3. QED
    BY <1>1, <1>2, LedgerInvariant, PTL DEF LedgerSpec, ImplementsNavPool, Pool!PoolSpec

-----------------------------------------------------------------------------
(* The vault's position after a step whose money and shares are exchanged at the NAV or worse. *)
LEMMA PositionAfter ==
    ASSUME NEW h \in Nat, NEW s \in Nat, NEW price \in Nat, NEW den \in Nat,
           NEW moneyIn \in Int, NEW sharesOut \in Int,
           moneyIn * den >= sharesOut * price
    PROVE  (h + moneyIn) * den + s * price >= h * den + (s + sharesOut) * price
  <1>1. /\ (h + moneyIn) * den = h * den + moneyIn * den
        /\ (s + sharesOut) * price = s * price + sharesOut * price
    BY SMT
  <1>2. /\ h * den \in Int /\ moneyIn * den \in Int
        /\ s * price \in Int /\ sharesOut * price \in Int
    BY SMT
  <1>3. QED
    BY <1>1, <1>2

(* The position that RoundingFavoursVault compares. *)
NoWorse ==
    usdc'[VaultAccount] * Denominator + OutstandingShares * nav
       >= usdc[VaultAccount] * Denominator + OutstandingShares' * nav

LEMMA OutstandingIsNatural ==
    /\ LedgerTypeOK => OutstandingShares \in Nat
    /\ LedgerTypeOK' => OutstandingShares' \in Nat
  <1>1. LedgerTypeOK => OutstandingShares \in Nat
    BY DEF LedgerTypeOK, OutstandingShares
  <1>2. LedgerTypeOK' => OutstandingShares' \in Nat
    <2>1. LedgerTypeOK' => cvaultSupply' \in Nat /\ tradeSupply' \in Nat
      BY DEF LedgerTypeOK
    <2>2. OutstandingShares' = cvaultSupply' + tradeSupply'
      BY DEF OutstandingShares
    <2>3. QED
      BY <2>1, <2>2
  <1>3. QED
    BY <1>1, <1>2

LEMMA PoolStepsRoundDown ==
    ASSUME LedgerInv, LedgerStep, nav' = nav
    PROVE  NoWorse
  <1> DEFINE held == usdc[VaultAccount]
  <1>1. /\ held \in Nat /\ OutstandingShares \in Nat /\ nav \in Nat /\ nav > 0
        /\ held' \in Nat /\ OutstandingShares' \in Nat
        /\ Denominator \in Nat
    <2>1. held \in Nat /\ nav \in Nat /\ nav > 0
      BY Domains DEF LedgerInv, LedgerTypeOK
    <2>2. held' \in Nat
      BY Domains DEF LedgerStep, LedgerTypeOK
    <2>3. OutstandingShares \in Nat
      BY OutstandingIsNatural DEF LedgerInv
    <2>4. OutstandingShares' \in Nat
      BY OutstandingIsNatural DEF LedgerStep
    <2>5. QED
      BY <2>1, <2>2, <2>3, <2>4, Domains
  <1>2. ASSUME NEW moneyIn \in Int, NEW sharesOut \in Int,
               held' = held + moneyIn, OutstandingShares' = OutstandingShares + sharesOut,
               moneyIn * Denominator >= sharesOut * nav
        PROVE  NoWorse
    BY <1>1, <1>2, PositionAfter DEF NoWorse
  <1>3. CASE UNCHANGED Pool!poolVars
    BY <1>1, <1>3 DEF Pool!poolVars, NoWorse
  <1>4. ASSUME NEW x \in 0 .. MaxU64, Pool!Subscribe(x)
        PROVE  NoWorse
    <2>1. x \in Nat /\ x \in Int
      BY Domains
    <2>2. /\ SharesMinted(x, nav) \in Nat
          /\ SharesMinted(x, nav) * nav <= x * Denominator
      BY <1>1, <2>1, SharesMintedRoundsDown
    <2>3. /\ held' = held + x
          /\ OutstandingShares' = OutstandingShares + SharesMinted(x, nav)
      BY <1>4 DEF Pool!Subscribe, Pool!SharesFor, SharesMinted
    <2>4. x * Denominator >= SharesMinted(x, nav) * nav
      BY <1>1, <2>1, <2>2
    <2>5. QED
      BY <1>2, <2>1, <2>2, <2>3, <2>4
  <1>5. ASSUME NEW x \in 0 .. MaxU64,
               Pool!PayOut(x) \/ Pool!Return(x) \/ Pool!Forfeit(x) \/ Pool!Donate(x)
        PROVE  NoWorse
    <2>1. x \in Nat /\ 0 - x \in Int
      BY Domains
    <2>2. Payout(x, nav) \in Nat /\ Payout(x, nav) * Denominator <= x * nav
      BY <1>1, <2>1, PayoutRoundsDown
    <2>3. /\ (0 - Payout(x, nav)) * Denominator >= (0 - x) * nav
          /\ 0 * Denominator >= (0 - x) * nav
          /\ x * Denominator >= 0 * nav
      BY <1>1, <2>1, <2>2
    <2>4. CASE Pool!PayOut(x)
      <3>1. /\ held' = held + (0 - Payout(x, nav))
            /\ OutstandingShares' = OutstandingShares + (0 - x)
        BY <1>1, <2>1, <2>2, <2>4 DEF Pool!PayOut, Pool!MoneyFor, Payout
      <3>2. QED
        BY <1>2, <2>1, <2>2, <2>3, <3>1
    <2>5. CASE Pool!Return(x) \/ Pool!Forfeit(x)
      <3>1. held' = held + 0 /\ OutstandingShares' = OutstandingShares + (0 - x)
        BY <1>1, <2>1, <2>5 DEF Pool!Return, Pool!Forfeit
      <3>2. QED
        BY <1>2, <2>1, <2>3, <3>1
    <2>6. CASE Pool!Donate(x)
      <3>1. held' = held + x /\ OutstandingShares' = OutstandingShares + 0
        BY <1>1, <2>6 DEF Pool!Donate
      <3>2. QED
        BY <1>2, <2>1, <2>3, <3>1
    <2>7. QED
      BY <1>5, <2>4, <2>5, <2>6
  <1>6. ASSUME NEW price \in 0 .. MaxU64, Pool!Reprice(price)
        PROVE  NoWorse
    BY <1>1, <1>6 DEF Pool!Reprice, NoWorse
  <1>7. QED
    BY <1>3, <1>4, <1>5, <1>6 DEF LedgerStep, Pool!PoolNext

(* At a constant NAV no step of the program or of a token holder worsens the vault's position. *)
THEOREM RoundingAlwaysFavoursVault == LedgerSpec => RoundingFavoursVault
  <1>1. LedgerInv /\ [LedgerNext]_ledgerVars => (nav' = nav => NoWorse)
    BY EveryStep, PoolStepsRoundDown
  <1>2. LedgerInv /\ [LedgerNext]_ledgerVars
          => [nav' = nav =>
                usdc'[VaultAccount] * Denominator + OutstandingShares * nav
                   >= usdc[VaultAccount] * Denominator + OutstandingShares' * nav]_ledgerVars
    BY <1>1 DEF NoWorse
  <1>3. QED
    BY <1>2, LedgerInvariant, PTL DEF LedgerSpec, RoundingFavoursVault

-----------------------------------------------------------------------------
LEMMA LowerPriceOwesLess ==
    ASSUME NEW s \in Nat, NEW p \in Nat, NEW q \in Nat, q <= p
    PROVE  s * q <= s * p
  <1>1. PICK d \in Nat : p = q + d
    <2>1. p - q \in Nat /\ p = q + (p - q)
      OBVIOUS
    <2>2. QED
      BY <2>1
  <1>2. s * (q + d) = s * q + s * d
    BY SMT
  <1>3. s * q \in Nat /\ s * d \in Nat
    BY SMT
  <1>4. QED
    BY <1>1, <1>2, <1>3

(* A vault's solvency outlasts any step that does not raise the NAV: a step at a constant NAV does not, and a step that *)
(* lowers the NAV moves nothing else.                                                          *)
LEMMA SolvencyKept ==
    ASSUME LedgerInv, LedgerStep, Solvent, nav' <= nav
    PROVE  Solvent'
  <1>1. /\ usdc[VaultAccount] \in Nat /\ usdc'[VaultAccount] \in Nat
        /\ nav \in Nat /\ nav' \in Nat /\ Denominator \in Nat
    BY Domains DEF LedgerInv, LedgerStep, LedgerTypeOK
  <1>2. OutstandingShares \in Nat /\ OutstandingShares' \in Nat
    BY OutstandingIsNatural DEF LedgerInv, LedgerStep
  <1>3. CASE nav' = nav
    <2>1. NoWorse
      BY <1>3, PoolStepsRoundDown
    <2> DEFINE before == usdc[VaultAccount] * Denominator   after == usdc'[VaultAccount] * Denominator
               owed == OutstandingShares * nav              owing == OutstandingShares' * nav
    <2>2. before \in Int /\ after \in Int /\ owed \in Int /\ owing \in Int
      BY <1>1, <1>2
    <2>3. after + owed >= before + owing /\ owed <= before
      BY <2>1 DEF NoWorse, Solvent
    <2>4. owing <= after
      <3> HIDE DEF before, after, owed, owing
      <3> QED BY <2>2, <2>3
    <2>5. QED
      BY <1>3, <2>4 DEF Solvent
  <1>4. CASE nav' < nav
    <2>1. UNCHANGED <<usdc[VaultAccount], OutstandingShares>>
      BY <1>1, <1>4 DEF LedgerStep, Pool!PoolNext, Pool!poolVars, Pool!Subscribe, Pool!PayOut,
         Pool!Return, Pool!Donate, Pool!Forfeit, Pool!Reprice
    <2>2. OutstandingShares * nav' <= OutstandingShares * nav
      BY <1>1, <1>2, <1>4, LowerPriceOwesLess
    <2>3. /\ OutstandingShares * nav' \in Int /\ OutstandingShares * nav \in Int
          /\ usdc[VaultAccount] * Denominator \in Int
      BY <1>1, <1>2
    <2>4. QED
      BY <2>1, <2>2, <2>3 DEF Solvent
  <1>5. QED
    BY <1>1, <1>3, <1>4

(* Only a rise of the NAV may leave the vault unable to pay all its holders. *)
THEOREM OnlyRisesEverCostSolvency == LedgerSpec => OnlyRisesCostSolvency
  <1>1. LedgerInv /\ [LedgerNext]_ledgerVars => (Solvent /\ nav' <= nav => Solvent')
    BY EveryStep, SolvencyKept
  <1>2. QED
    BY <1>1, LedgerInvariant, PTL DEF LedgerSpec, OnlyRisesCostSolvency
=============================================================================
