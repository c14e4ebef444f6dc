---------------------------- MODULE ShareLedger ----------------------------
(***************************************************************************)
(* The money of the oragami-vault program: the NAV, the deposit limits and *)
(* the counters of VaultState, the USDC in the vault's token account, and  *)
(* the two share tokens, cVAULT and its tradeable form cVAULT-TRADE.  Who  *)
(* may deposit is the business of Compliance; here every depositor is      *)
(* taken to be admitted.  The SPL token accounts are part of the state,    *)
(* and so is what their owners can do with them without the program.       *)
(***************************************************************************)
EXTENDS SolanaAccounts

CONSTANTS
    VaultAccount,   \* the vault's USDC token account
    Denominator,    \* NAV_BPS_DENOMINATOR
    Amounts,        \* the token amounts that instructions may name
    NavPrices,      \* the prices that set_nav may be called with
    DepositLimits,  \* the values of min_deposit and max_deposit
    InitialUsdc     \* the USDC each wallet starts with

ASSUME VaultAccountAssumption == VaultAccount \notin Wallets
ASSUME DenominatorIsPositive  == Denominator \in Nat \ {0} /\ FitsU64(Denominator)
ASSUME LedgerInputsAssumption ==  \* they are all u64
    /\ Amounts \subseteq 0 .. MaxU64
    /\ NavPrices \subseteq 0 .. MaxU64
    /\ DepositLimits \subseteq 0 .. MaxU64
ASSUME InitialUsdcAssumption  == InitialUsdc \in Nat

VARIABLES
    paused, secondaryMarket, minDeposit, maxDeposit, nav,
    totalDeposits, totalSupply,  \* VaultState.total_deposits and .total_supply
    usdc,                        \* USDC of each wallet and of the vault
    cvault, trade,               \* the share tokens in each wallet
    cvaultSupply, tradeSupply    \* Mint.supply of the two share mints

configVars == <<paused, secondaryMarket, minDeposit, maxDeposit>>
shareVars  == <<cvault, trade, cvaultSupply, tradeSupply>>
ledgerVars == <<configVars, nav, totalDeposits, totalSupply, usdc, shareVars>>

Destinations == Wallets \cup {VaultAccount}

(* initialize_vault refuses limits that are out of order *)
LedgerInit ==
    /\ paused = FALSE
    /\ secondaryMarket \in BOOLEAN
    /\ minDeposit \in DepositLimits
    /\ maxDeposit \in DepositLimits
    /\ minDeposit <= maxDeposit
    /\ nav = Denominator
    /\ totalDeposits = 0
    /\ totalSupply = 0
    /\ usdc = [a \in Destinations |-> IF a = VaultAccount THEN 0 ELSE InitialUsdc]
    /\ cvault = [w \in Wallets |-> 0]
    /\ trade = [w \in Wallets |-> 0]
    /\ cvaultSupply = 0
    /\ tradeSupply = 0

-----------------------------------------------------------------------------
(* Mutant: a share price rounded up. *)
SharesMintedRoundedUp(amount, price) == (amount * Denominator + price - 1) \div price

(* cvault = usdc * 10000 / nav, rounded down *)
SharesMinted(amount, price) == (amount * Denominator) \div price

(* Mutant: a payout rounded up. *)
PayoutRoundedUp(shares, price) == (shares * price + Denominator - 1) \div Denominator

(* usdc = cvault * nav / 10000, rounded down *)
Payout(shares, price) == (shares * price) \div Denominator

BurnCvault(holder, amount) ==
    /\ amount <= cvault[holder]
    /\ amount <= cvaultSupply
    /\ cvault' = Debit(cvault, holder, amount)
    /\ cvaultSupply' = cvaultSupply - amount

MintCvault(recipient, amount) ==
    /\ cvault' = Credit(cvault, recipient, amount)
    /\ cvaultSupply' = cvaultSupply + amount

BurnTrade(holder, amount) ==
    /\ amount <= trade[holder]
    /\ amount <= tradeSupply
    /\ trade' = Debit(trade, holder, amount)
    /\ tradeSupply' = tradeSupply - amount

MintTrade(recipient, amount) ==
    /\ trade' = Credit(trade, recipient, amount)
    /\ tradeSupply' = tradeSupply + amount

(* The ledger part of `deposit`.  The account that receives the shares is the caller's choice. *)
BookDeposit(payer, recipient, amount) ==
    /\ ~paused
    /\ amount >= minDeposit
    /\ amount <= maxDeposit
    /\ amount <= usdc[payer]
    /\ FitsU64(amount * Denominator)
    /\ LET minted == SharesMinted(amount, nav) IN
          /\ minted > 0
          /\ FitsU64(totalDeposits + amount)
          /\ FitsU64(totalSupply + minted)
          /\ usdc' = Move(usdc, payer, VaultAccount, amount)
          /\ MintCvault(recipient, minted)
          /\ totalDeposits' = totalDeposits + amount
          /\ totalSupply' = totalSupply + minted
    /\ UNCHANGED <<configVars, nav, trade, tradeSupply>>

(* What `redeem` asks of the vault, whoever holds the shares. *)
VaultCanPay(shares) ==
    /\ ~paused
    /\ FitsU64(shares * nav)
    /\ Payout(shares, nav) <= usdc[VaultAccount]

(* total_supply is reduced with checked_sub *)
SupplyAllows(shares) == shares <= totalSupply

(* Mutant: the books reduced by the shares, as if they were still worth par. *)
WriteOffAtPar(shares) == totalDeposits' = SaturatingSub(totalDeposits, shares)

(* Mutant: the payout not taken off the books. *)
KeepOnBooks(shares) == UNCHANGED totalDeposits

(* total_deposits is reduced by the payout, with saturating_sub *)
WriteOff(shares) == totalDeposits' = SaturatingSub(totalDeposits, Payout(shares, nav))

(* The destination is the redeemer's choice, the vault's own account included. *)
Redeem(redeemer, destination, shares) ==
    /\ VaultCanPay(shares)
    /\ BurnCvault(redeemer, shares)
    /\ usdc' = Move(usdc, VaultAccount, destination, Payout(shares, nav))
    /\ WriteOff(shares)
    /\ SupplyAllows(shares)
    /\ totalSupply' = totalSupply - shares
    /\ UNCHANGED <<configVars, nav, trade, tradeSupply>>

(* Mutant: the cVAULT that conversion burns taken off total_supply, as redemption does. *)
ConvertAsRedemption(user, recipient, amount) ==
    /\ ~paused
    /\ secondaryMarket
    /\ BurnCvault(user, amount)
    /\ MintTrade(recipient, amount)
    /\ SupplyAllows(amount)
    /\ totalSupply' = totalSupply - amount
    /\ UNCHANGED <<configVars, nav, totalDeposits, usdc>>

ConvertToTradeable(user, recipient, amount) ==
    /\ ~paused
    /\ secondaryMarket
    /\ BurnCvault(user, amount)
    /\ MintTrade(recipient, amount)
    /\ UNCHANGED <<configVars, nav, totalDeposits, totalSupply, usdc>>

(* redeem_tradeable with redeem_to_cvault: back to cVAULT, one to one *)
RewrapTradeable(user, recipient, amount) ==
    /\ ~paused
    /\ BurnTrade(user, amount)
    /\ MintCvault(recipient, amount)
    /\ UNCHANGED <<configVars, nav, totalDeposits, totalSupply, usdc>>

(* redeem_tradeable for USDC: total_deposits is reduced with checked_sub, where redeem saturates *)
RedeemTradeable(user, destination, amount) ==
    /\ VaultCanPay(amount)
    /\ BurnTrade(user, amount)
    /\ Payout(amount, nav) <= totalDeposits
    /\ SupplyAllows(amount)
    /\ usdc' = Move(usdc, VaultAccount, destination, Payout(amount, nav))
    /\ totalDeposits' = totalDeposits - Payout(amount, nav)
    /\ totalSupply' = totalSupply - amount
    /\ UNCHANGED <<configVars, nav, cvault, cvaultSupply>>

(* A price moves by at most half the current one; the upper bound is computed with a plain `+`. *)
SetNav(price) ==
    LET maxChange == nav \div 2 IN
    /\ price > 0
    /\ price >= SaturatingSub(nav, maxChange)
    /\ FitsU64(nav + maxChange)
    /\ price <= nav + maxChange
    /\ nav' = price
    /\ UNCHANGED <<configVars, totalDeposits, totalSupply, usdc, shareVars>>

SetPause(pause) ==
    /\ paused' = pause
    /\ UNCHANGED <<secondaryMarket, minDeposit, maxDeposit, nav,
                   totalDeposits, totalSupply, usdc, shareVars>>

(* update_config: an option that is not given leaves its field alone *)
UpdateLimits(min, max, enabled) ==
    /\ minDeposit' = min
    /\ maxDeposit' = max
    /\ secondaryMarket' = enabled
    /\ UNCHANGED <<paused, nav, totalDeposits, totalSupply, usdc, shareVars>>

-----------------------------------------------------------------------------
(* What token holders do with the SPL token program alone. *)
TransferUsdc(from, to, amount) ==
    /\ amount <= usdc[from]
    /\ usdc' = Move(usdc, from, to, amount)
    /\ UNCHANGED <<configVars, nav, totalDeposits, totalSupply, shareVars>>

TransferCvault(from, to, amount) ==
    /\ amount <= cvault[from]
    /\ cvault' = Move(cvault, from, to, amount)
    /\ UNCHANGED <<configVars, nav, totalDeposits, totalSupply, usdc,
                   trade, cvaultSupply, tradeSupply>>

TransferTrade(from, to, amount) ==
    /\ amount <= trade[from]
    /\ trade' = Move(trade, from, to, amount)
    /\ UNCHANGED <<configVars, nav, totalDeposits, totalSupply, usdc,
                   cvault, cvaultSupply, tradeSupply>>

DiscardCvault(holder, amount) ==
    /\ BurnCvault(holder, amount)
    /\ UNCHANGED <<configVars, nav, totalDeposits, totalSupply, usdc, trade, tradeSupply>>

DiscardTrade(holder, amount) ==
    /\ BurnTrade(holder, amount)
    /\ UNCHANGED <<configVars, nav, totalDeposits, totalSupply, usdc, cvault, cvaultSupply>>

-----------------------------------------------------------------------------
Instructions ==
    \/ \E payer, recipient \in Wallets, a \in Amounts : BookDeposit(payer, recipient, a)
    \/ \E w \in Wallets, d \in Destinations, a \in Amounts :
          Redeem(w, d, a) \/ RedeemTradeable(w, d, a)
    \/ \E w, recipient \in Wallets, a \in Amounts :
          ConvertToTradeable(w, recipient, a) \/ RewrapTradeable(w, recipient, a)

Administration ==
    \/ \E price \in NavPrices : SetNav(price)
    \/ \E pause \in BOOLEAN : SetPause(pause)
    \/ \E min, max \in DepositLimits, enabled \in BOOLEAN : UpdateLimits(min, max, enabled)

TokenHolders ==
    \/ \E from \in Wallets, to \in Destinations, a \in Amounts : TransferUsdc(from, to, a)
    \/ \E from, to \in Wallets, a \in Amounts :
          TransferCvault(from, to, a) \/ TransferTrade(from, to, a)
    \/ \E w \in Wallets, a \in Amounts : DiscardCvault(w, a) \/ DiscardTrade(w, a)

LedgerNext == Instructions \/ Administration \/ TokenHolders

LedgerSpec == LedgerInit /\ [][LedgerNext]_ledgerVars

-----------------------------------------------------------------------------
(* Type invariant of the ledger and of the token accounts. *)
LedgerTypeOK ==
    /\ paused \in BOOLEAN /\ secondaryMarket \in BOOLEAN
    /\ minDeposit \in DepositLimits /\ maxDeposit \in DepositLimits
    /\ nav \in 1 .. MaxU64
    /\ totalDeposits \in 0 .. MaxU64
    /\ totalSupply \in 0 .. MaxU64
    /\ usdc \in [Destinations -> Nat]
    /\ cvault \in [Wallets -> Nat] /\ trade \in [Wallets -> Nat]
    /\ cvaultSupply \in Nat /\ tradeSupply \in Nat

(* The deposits that VaultState still has on its books are in the vault's token account.  A    *)
(* redemption at a NAV above par takes out more USDC than its shares brought in; redeem books  *)
(* that with saturating_sub and redeem_tradeable with checked_sub, and the two must not let    *)
(* the books run ahead of the money, which verify_proof_of_reserve compares.                   *)
BackedDeposits == totalDeposits <= usdc[VaultAccount]

OutstandingShares == cvaultSupply + tradeSupply

(* Every share that exists, as cVAULT or as cVAULT-TRADE, is counted in total_supply, however  *)
(* often it was converted, re-wrapped or passed on.  So the checked_sub on total_supply never  *)
(* refuses the redemption of a share that somebody holds.                                      *)
SupplyCovered == OutstandingShares <= totalSupply

(* As long as the NAV does not move, no step worsens the vault's position (USDC held against   *)
(* shares outstanding at the NAV): whatever deposits, redemptions, conversions and re-wraps    *)
(* are combined, the rounding of both divisions is in the vault's favour, so a round trip      *)
(* gains nothing and a vault that could pay every share still can.                             *)
RoundingFavoursVault ==
    [][nav' = nav =>
          usdc'[VaultAccount] * Denominator + OutstandingShares * nav
             >= usdc[VaultAccount] * Denominator + OutstandingShares' * nav]_ledgerVars

(* The USDC held pays every share there is at the current NAV. *)
Solvent == OutstandingShares * nav <= usdc[VaultAccount] * Denominator

(* Redemptions are paid from the vault's USDC only.  A vault that could pay all its holders can *)
(* still do so after any step but one, a rise of the NAV: no order of deposits, redemptions by *)
(* either route, conversions and transfers leaves the last holder with shares that the first   *)
(* ones were paid for, and a NAV that falls does not either.                                   *)
OnlyRisesCostSolvency == [][Solvent /\ nav' <= nav => Solvent']_ledgerVars

(* The ledger implements the abstract NAV-priced pool.                                         *)
Pool == INSTANCE NavPool WITH
    Quantities <- 0 .. MaxU64,
    held       <- usdc[VaultAccount],
    booked     <- totalDeposits,
    shares     <- OutstandingShares

(* Every instruction and every token transfer is one step of the pool or none: a deposit buys  *)
(* shares at the NAV, a redemption in either token cancels them at the NAV and writes the      *)
(* payout off the books, converting between the two tokens changes nothing, and no             *)
(* administrative step touches money or shares.                                                *)
ImplementsNavPool == Pool!PoolSpec

-----------------------------------------------------------------------------
(* lib.rs says of redeem: "institutions may exit any time".  Unless the vault is paused, a     *)
(* holder of cVAULT should then find enough USDC in the vault to pay for the whole holding.    *)
ExitAnyTime ==
    \A w \in Wallets : ~paused => Payout(cvault[w], nav) <= usdc[VaultAccount]
=============================================================================
