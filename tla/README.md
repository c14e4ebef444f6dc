# Oragami: specifications, model checking and proofs

This directory is a TLA+ development of the Oragami repository: what its programs and services
do, written as state machines, model-checked with TLC on small instances and, where it matters
most, proved with TLAPS for every value of the constants. All definitions are translated from the
code under `src/`; `PROJECT.json` maps each of them to the lines it stands for.

Short names of source files used below:

| name | file |
| --- | --- |
| `lib.rs` | `src/oragami-vault/programs/oragami-vault/src/lib.rs` |
| `mav/` | `src/oragami-vault/programs/multi-asset-vault/src/` |
| `hook` | `src/programs/cvault-transfer-hook/programs/cvault-transfer-hook/src/lib.rs` |
| `backend/` | `src/oragami-backend/src/` |
| `app/` | `src/oragami-frontend/` |

## 1. Inventory

Oragami is an institutional vault on Solana. Three on-chain programs keep the money and the
compliance records, a NestJS backend prices the vault and runs the compliance office, and a web
front end builds the transactions that investors sign.

```
 SIX, Solstice ──prices──▶ NAV crank ──set_nav, attestation, yield──▶ oragami-vault ◀──signed tx── front end
                              │                                           ▲  │ credential account      │
                              ▼                                  issue,   │  ▼ (read)                  │
                           database ◀── credentials, deposits, ── revoke ─┘ multi-asset-vault          │
                                        travel-rule services ◀──────────── preflight, index ───────────┘
```

### 1.1 oragami-vault (`lib.rs`), the yield vault

One Anchor program. A Solana instruction is atomic: when one of its checks fails, all its changes
are undone. Instructions of different callers interleave in any order, and each reads the state the
previous ones left. The program's accounts fall into four parts, which share `VaultState`.

| part | state | operations |
| --- | --- | --- |
| compliance gate | `ComplianceCredential` per wallet, `TravelRuleData` per payer and nonce | `issue_credential`, `revoke_credential`, `init_travel_rule`, the gates of `deposit` |
| share ledger | pause flag, limits, `nav_price_bps`, `total_deposits`, `total_supply`; the vault's USDC; the mints of cVAULT and cVAULT-TRADE | `initialize_vault`, `deposit`, `redeem`, `convert_to_tradeable`, `redeem_tradeable`, `set_nav`, `set_pause`, `update_config` |
| yield accounting | `usx_allocation_bps`, `apy_bps`, `pending_yield`, `last_yield_claim` | `process_yield`, `distribute_yield`, `sync_yield`, the rates of `update_config` |
| reserve | `RwaAssetRegistry`, `VaultMandate`, `ReserveAttestation`, registered USX accounts | their `initialize_*`, `update_*`, `set_mandate_liquidity_enforcement`, `post_reserve_attestation`, `register_usx_accounts`; the read-only `verify_proof_of_reserve` and `assert_liquidity_allocation` |

Interactions: `deposit` passes the gate and moves the ledger in one step; `set_nav` writes the price
and stamps the registry; `update_config` writes limits and rates under the mandate's cap; yield is
computed from the ledger's `total_deposits`; the proof of reserve compares the ledger's books with
the token account. Outside the program, anyone may move SPL tokens: USDC can be sent to the vault's
account, cVAULT can be passed on or burned.

What is hard: records filed in one transaction and used in a later one; credentials that lapse
between the two; two share tokens against one `total_supply`; integer division in both directions
at a price that moves; `saturating_sub` on one path and `checked_sub` on the other; a crank that
calls late, twice, or in another order; accounts opened with `init` that are never closed.

What makes it correct: no large deposit without a record of its own; no way back in for a lapsed
wallet; the books never ahead of the money; every share counted; rounding never in the user's
favour; no day of yield credited twice, early or in excess; no part disturbing another.

### 1.2 multi-asset-vault (`mav/`), the custody vault

State: a factory with at most 16 (`MAX_ASSETS`) registered assets, a vault per asset (NAV, limits,
pause flag, `total_deposits`, `total_supply`, whether the travel rule applies), token accounts.
Operations: initialise the factory, register an asset, deposit, redeem, transfer shares, set the NAV,
pause, travel-rule and credential instructions. `deposit` and `transfer_shares` read the credentials
that the oragami-vault program issues; the travel-rule records are its own. Hard: credentials owned by
another program; records that name no asset; NAV steps of up to 50 %; `redeem`, which ignores the pause
flag; a registry that only grows; a preflight in TypeScript that repeats the guards. Correct when each
asset's vault is a NAV-priced pool that the others do not disturb, and when one record serves one large
deposit in all of them. The preflight would be correct if it were kept; it is not (section 6).

### 1.3 cvault-transfer-hook (`hook`) and oragami-asset

The hook is a Token-2022 transfer hook with a configuration and whitelist entries (KYC, AML, travel
rule, expiry). It validates source and destination of each transfer. Hard: entries that expire
between two transfers, exceptions for the mint and for default keys. `oragami-asset` is an Anchor
template with one instruction that logs; it keeps no state.

### 1.4 Backend

* **NAV crank** (`backend/crank/nav-crank.service.ts`). In memory: baselines, last prices, time of
  the last on-chain update. Every two minutes: fetch prices, read the vault, compute a NAV, guards,
  `set_nav`, attestation, yield tick, snapshot and audit rows. Hard: runs that overlap, a restart
  that loses the baselines, guards that skip for ever, a chain call that succeeds before a later one
  fails. Correct when the on-chain NAV follows the prices within the guard, and the database tells
  what happened on chain.
* **Credentials** (`backend/credentials/`). `issue` and `revoke` change the chain, then the
  institution's row, then the audit trail; `verify` reads the chain and falls back to the row. No state
  in memory. Hard: requests for one wallet that overlap, a transaction that lands after its request
  gave up, a failure between two of the three writes. Correct when the register never runs ahead of
  the chain, nothing is audited twice, and a denied wallet is not called active again.
* **Deposits** (`backend/deposits/`) and **travel rule** (`backend/travel-rule/`). `submit` stores a row
  and returns a transaction for the wallet to sign; `index` looks up a transaction, reads the NAV, looks
  up a travel-rule row, writes a row and the audit trail; `preflight` says whether a deposit would pass.
  `index` asks for no key and compares nothing of what it is told with the transaction. Hard: rows for
  transactions that are never sent, an index asked for twice, a NAV read late. Correct, as far as the
  services go, when a signature is entered and audited once at most, of a transaction that was executed,
  at a NAV of since then, with a link to a row that is there; the table is a journal of signatures, not of
  deposits.
* **Multi-asset service** (`backend/multi-asset-vault/`): set the NAV, the faucet of the demo assets, a
  preflight. **Vault, health and audit endpoints; Solstice, SIX and Anchor clients**: wrappers and I/O,
  whose failures are inputs of the services above.

### 1.5 Front end (`app/`)

* **Onboarding** (`app/app/onboard/`, `app/middleware.ts`, the wallet store): connect a wallet, check the
  credential, register, wait for it by polling, enter the app through a gate that judges by a cookie.
  Hard: lost answers and second submissions, a polling that ends, a store that a reload forgets beside
  a cookie that it does not. Correct when an institution whose credential does not lapse gets in.
* **Vault panel** (`app/features/vault/`): three tabs with a form each; handlers go on after their tab was
  left, polls overlap. Correct when a result belongs to the form that shows it, every form comes back
  and a lasting pause is seen.
* **Multi-vault page, admin and landing pages, UI components**: build transactions or display.

`PROJECT.json` lists every component with its status, and every hazard at its line.

## 2. How the development is built

In the order in which it was built, each line resting on those above it:

1. `SolanaAccounts`, `SolanaClock`: what the programs take from the runtime.
2. `Compliance`, `ShareLedger`, `VaultYield`, `Reserve`, the four parts of oragami-vault, and
   `NavPool`, the abstract pool that the ledger implements. `ComplianceProofs`, `ShareLedgerProofs`,
   `YieldReserveProofs`.
3. `OragamiVault`: the parts composed into the program's real instructions. `OragamiVaultProofs`: the
   program refines its components and has the properties that relate them.
4. `AssetVaults`: the factory and its vaults, credentials as oragami-vault has them, the preflight as the
   service's interface description has it; each vault refines `NavPool` by the same mapping. In `CredentialProofs`.
5. `NavCrank`: overlapping runs cut at their awaits, failures, a restart, the guard; "the NAV follows
   the market" as its liveness property. `NavCrankProofs`.
6. `CredentialDesk`: chain, register and audit trail as three stores, composed with `Compliance`;
   `CredentialRecord`, the abstract specification of all three. `Onboarding` composes the desk with the
   browser, with liveness. Both in `CredentialProofs`.
7. `DepositDesk`: deposits and travel-rule services, asked by anybody for anything, composed with
   `Compliance`; `DepositBook`, the abstract journal of signatures. `DepositDeskProofs`.
8. `VaultPanel`: the page's handlers and polls, composed with `ShareLedger`. `VaultPanelProofs`.

Not done, and where a continuation would start: the transfer hook (whitelist, expiry and the checks
around a Token-2022 transfer), and the crank composed with `SetNav`, `PostAttestation` and
`ProcessYield` of the program, which here meets it only through its `chainNav`.

## 3. Modules and the code

**SolanaAccounts / SolanaClock.** Wallets, `NoAccount` for an account that was never opened, the
width `MaxU64` of amounts, `FitsU64` for `checked_*`, `SaturatingSub`, token credits, debits and
transfers (a transfer to oneself keeps the balance), and a clock that only moves forward. A failing
instruction changes nothing and is therefore no step; that is also how signer and account checks are
modelled: an instruction signed by the wrong key fails. Any authorised call may come at any time.

**Compliance.** `credential[w]` and `travelRecord[<<payer, nonce>>]` are the accounts at those
addresses. `IssueCredential` needs an empty address (`init`), `RevokeCredential` keeps the account,
`AdmitDeposit` is the part of `deposit` before the transfer: `CredentialPasses`, then either a small
amount or a record that covers it and is consumed. `largeDeposits` is a history variable: it counts
large deposits and guards nothing. Names, jurisdictions, tiers, scores and hashes are left out: no
guard of the program reads them. Status values `PENDING` and `RESTRICTED` are left out: no
instruction sets them.

**ShareLedger.** The counters of `VaultState`, the token balances and the mints' supplies. One action
per instruction, with the caller's freedom in naming accounts: the recipient of minted shares and
the destination of a payout are parameters, because the code does not tie them to the signer.
`redeem_tradeable` is two actions, one per value of `redeem_to_cvault`. `SetNav` has the ±50 % bound
with its integer division. `TokenHolders` is what owners do through the SPL token program alone.

**NavPool** is the abstract specification: money in for shares, shares cancelled for money, at one
price, rounded down; gifts and forfeits; repricing. Its state is four numbers. `ShareLedger` maps to
it by `held = usdc[VaultAccount]`, `booked = total_deposits`, `shares =` both mints' supplies.

**VaultYield.** Two rates, the accrual date and `pending_yield`, with every division and every
checked product. `totalDeposits` moves freely in the module's own specification (`BooksMove`), and
by the ledger in `OragamiVault`. `creditedDays` and `pendingEarnings` are history variables: the days
ever credited, and what `pending_yield` would be without any rounding.

**Reserve.** The three accounts and the registered USX accounts. The two checks change nothing and
are the predicates `ProofOfReserveHolds` and `LiquidityAssertionHolds`. The proof has all its reasons to
fail: stale attestation, other hash, a registered yield account that the caller does not pass, products
that do not fit u64 (`ProofFits`), too little money. The balances of the yield accounts
(`YieldBalances`) and the accounts that are passed are parameters of the proof: no instruction of the
repository moves money into those accounts. `usdc_value_bps` is left out: it is stored and never read.

**BasisPoints** declares `BpsWhole`, the 10000 basis points by which yield and reserve both divide, so
that there is one such constant in the program that extends them.

**OragamiVault.** The four components as instances over shared variables. `Deposit` is
`Gate!AdmitDeposit /\ Ledger!BookDeposit`; `SetNav` is the ledger's and `StampRegistry`; `UpdateConfig`
is `UpdateLimits /\ UpdateRates` with the mandate as an optional account; the other instructions are
a component's own. Since an instance does not bring the assumptions of its module along, the module
states them again for the program's constants, grouped by component (`MoneyAssumption`, `GateAssumption`,
`YieldAssumption`, `ReserveAssumption`, `AccountsAssumption`). `SharesAreAllocations` is the one that it
adds: a mandate's shares are among the allocations, since both are u16.

**NavCrank.** One run of `updateNav` per element of `Runs`, cut where the code awaits: `Start` (the
cron), `FetchQuote` or `FetchFails` (SIX, with the cached price), `ReadVault` or `ReadFails` together
with everything up to the next await (baseline, `computeNavBps`, the three guards in their order:
`Decision`), `Land` (the chain executes `set_nav`) and `Confirm` (its answer arrives), or `SendFails`
(refused, or executed and the answer lost), `Record` or `RecordFails` (the snapshot). `Restart` loses
`lastPrice`, `baseline` and `sinceUpdate`, ends all runs, and turns what was sent into an *orphan*
that may still land or expire. The field `overtaken` is history. Abstracted: the quotes of gold and
CHF/USD are one quote with the sum of their weights, eUSX stands at the fallback of 1.0, time is
counted in minutes and 90 seconds are two of them, and the answer of `readVaultState` is as fresh as
the moment it is used. The attestation, the yield tick, the audit row and the health record after a
successful update catch their own failures and change nothing that the crank reads; they are left
out. What the chain makes of the transaction is open (`Land` or `SendFails`): the IDL checked in with
the backend gives `set_nav` two accounts, while `lib.rs` (`SetNav`) also asks for the registry and the
operator, so whether the calls succeed depends on which program is deployed.

**AssetVaults.** One `AssetVault` account, one row of token accounts and one share mint per asset, over
the `Compliance` state: `credential` is the account of oragami-vault (that program's `issue_credential`
and `revoke_credential`), `travelRecord` holds this program's records, which `init_travel_rule` files
as the other's does. `PassOptedInRule` is the travel rule of a vault that opted in; a record names
payer and amount, no asset. `TransferShares` asks both parties for a credential; the share token itself
does not (`SendShares`). `Faucet` is the backend's mint authority. `Preflight` is the service's answer on
one reading of the chain, decoded as the service decodes it: by a checked-in interface description
(`multi_asset_vault.idl.json`) whose `AssetVault` (872-955) lacks `travel_rule_required`, so that `paused`
is that byte, and whose `ComplianceCredential` (958-1034) lacks the attestation hash, so that dates and
status come from hash bytes (`HashAsCredential`, whatever they are). Left out: `initialize_factory`, which
comes before all else, and the program's own credential instructions, whose accounts no other instruction
reads.

**CredentialDesk.** A request is cut at its awaits: `checking` (the read of an existing credential, of
which any error counts as "not found"), `sending`, `landed` (executed, not yet confirmed), `storing` (the
row), `auditing`, and for `verify` `reading` and `falling back`. Every await may fail (`SendFails`,
`ReadFails`, `DatabaseFails`); `GiveUp` is a confirmation that times out while the transaction may
still `LateLands` or `LateExpires`. What the chain makes of a transaction is decided by `Compliance`. The
service keeps nothing in memory, so a crash of its process is each request failing where it stands. A
transaction takes its `issuedAt` from the request and may land later. `denied` and `afterDenial` are
history.

**CredentialRecord** is what the three stores promise together, without any request: per wallet an issue
and then a revocation happen on the chain, once each; what happened may be told to the register and
after it to the audit trail, or be lost on the way. The desk maps to it by `chain =` the credential's
status (or "none") and `untold =` how far the one request that carries the news of an operation has got
(`CarriedAt`). A transaction that lands after its request gave up happens with nobody to tell of it.

**Onboarding** extends the desk by one browser: `page`, the store's `connected`, the `cookie`, and the
request it waits for. `AnswerLost` ends a wait but not the request. The pages' own redirects are folded
into the action that causes them; "held" is a connect page on which nothing happens any more. The gate
(`AskGate`, `GateAnswered`, `AnswerLost`) fails open, as `app/middleware.ts` does. Polls are counted by
`PollsEnd` only. An operator may revoke the credential at any time.

**DepositDesk.** No client is modelled, since the services rely on none. On the chain, anybody executes
anything under a signature of its own: a deposit that the gate admits (`SendDeposit`), a travel-rule
record, filed with the service or without it (`SendRecord`: `init_travel_rule` is open to any payer), or
something else (`SendOther`). A request to the index endpoint (`Request`) has any signature, wallet,
amount, reference and hash, and is cut at its awaits: `confirming` (the transaction exists and did not
fail; what it did is not asked), `valuing` (the institution, then the NAV), `linking` (the row under the
hash, if there is one), `creating`, `auditing`. Every await may fail (`IndexFails`), and `Workers` requests
are served at a time. `FileRow` is the travel-rule service's one write. Limits, pause and money may refuse a
deposit too; what is refused is no step. The NAV is counted, not valued: `navUpdate` is the number of the
current one. `depositOf` is history, for the definitions of section 6 that compare a row with its deposit.

**DepositBook** is the journal that a reader of the `Deposit` table and of its audit events may rely on,
whoever indexes what: an entry is of a transaction that the chain has executed, under a signature and a
reference of its own, for a known institution, at a NAV that the vault has had since the execution, linked
to a filed travel-rule row or to none; it may be audited, once; nothing entered is changed. It does not say
that an entry is of a deposit, or of that wallet and amount. `DepositDesk` implements it with the same
variables: what is hidden is the requests between their awaits, the gate, and what was executed.

**VaultPanel.** The mounted `tab`, the handler its form waits for, its `banner`; each submission and
each poll has a state of its own, since neither is stopped when its tab is left. The handlers' chain
calls are the actions of `ShareLedger`. `ScreenFails` is a compliance check that fails or throws.
`PollReads` turns a vault that cannot be read into "not paused". `ownDone` is history. The preflight that
the form displays is left out (section 6).

**OragamiVault, `Preflight`** is the deposits service's answer on one reading of the vault, stated beside
the program because it is judged by the program's own `Deposit`. When the credential cannot be read,
because the node does not answer or there is no account, the institution's row stands in for it
(`CredentialStatus`; `deposits.service.spec.ts:55-73` tests this branch), whatever it says.

The definitions marked *Mutant* in the modules are plausible bugs. Nothing uses them; replacing the
definition that follows by one of them must make TLC report the property that `PROJECT.json` pairs
with it, which shows that the property can fail.

## 4. Runs

| run | states | what it asks |
| --- | --- | --- |
| `compliance` | 20,016 | `TravelRuleCovered`, `LapseIsFinal`: two wallets, two nonces, amounts below, at and above the threshold, three instants |
| `share_ledger` | 111,384 | `BackedDeposits`, `SupplyCovered`, `RoundingFavoursVault`, `OnlyRisesCostSolvency`, and `ImplementsNavPool` |
| `vault_yield` | 39,834 | `NoDoubleAccrual`, `YieldWithinEarnings`: five full days and a remainder, three allocations, two rates |
| `reserve` | 11,648 | `MismatchMeansRefresh`: two reports, four seconds |
| `oragami_vault` | 222,912 | `RefinesComponents`, `BooksRunDown`, `NoProofFailsForMoney`, `PreflightHonest` |
| `nav_crank` | 290,300 | `WritesWithinGuard`, `FollowsWithinGuard`: two runs, two moves of the market, one restart, every failure |
| `credential_desk` | 1.07 million | `RegisterBehindChain`, `DenialIsFinal`, and `ImplementsRecord`: two overlapping requests at a time, two late transactions |
| `onboarding` | 45,836 | `OnboardingCompletes`: the browser, lost answers, a late transaction, reloads, the cookie's end |
| `deposit_desk` | 1.46 million | `ImplementsBook`: two transactions, two references, two index requests at a time |
| `vault_panel` | 158,784 | `BannerIsOwn`, `FormComesBack`, `PauseIsSeen`: two handlers, two polls |
| `asset_vaults` | 224,422 | `BooksCovered`, `RecordsSpentAcrossVaults`, `ImplementsNavPools`, `RoundingFavoursVaults`: three assets, room for two, deposits in both |
| `onboarded_row` | — | `OnboardedIsRegistered`, the words of a message that the code does not keep (section 6) |

Each module's type invariant is checked by a run of it too; `oragami_vault` has its components' types by
refinement.

### What the properties mean

* `TravelRuleCovered` counts: for each payer and amount, large deposits made = records consumed. It
  breaks when a record is used twice, by another payer, for another amount, or reset.
* `LapseIsFinal` is an action property: after a revocation or an expiry the gate stays shut, and no
  record filed earlier lets a large deposit through.
* `BackedDeposits`: `total_deposits` is at most the USDC held. It needs the interplay of the
  payout, `saturating_sub` in `redeem`, `checked_sub` in `redeem_tradeable` and a NAV that moves.
* `SupplyCovered`: the supplies of both tokens together are at most `total_supply` (less, when a
  holder burns tokens directly), so `checked_sub` traps nobody.
* `RoundingFavoursVault`: at a constant NAV, `usdc * 10000 - shares * nav` never falls.
* `OnlyRisesCostSolvency`: redemptions are paid from the vault's USDC alone, so a rise of the NAV may leave
  the last holders unpaid (`ExitAnyTime`, section 6). Nothing else may: a vault that could pay every share
  still can after any step that does not raise the NAV.
* `ImplementsNavPool` is refinement; the properties above concern what the mapping hides or bounds.
* `NoDoubleAccrual`: days credited so far fit into the time up to `last_yield_claim`, itself not in
  the future. `YieldWithinEarnings`: compares with the exact, unrounded earnings.
* `MismatchMeansRefresh`: a hash mismatch in the proof of reserve is always a stale attestation.
* `RefinesComponents`: the composed program, projected to each component's variables, satisfies
  that component's specification. All results about the components therefore hold of the program.
* `BooksRunDown` relates the gate and the ledger; `NoProofFailsForMoney` relates all four accounts that
  the proof of reserve reads: at a ratio of at most 100 % it fails for a stale or outdated attestation, a
  registered account left out or assets beyond u64 once multiplied by 10000, whatever the yield accounts
  hold, and never for want of money.
* `PreflightHonest` compares the TypeScript answer with the program's `Deposit` (by `ENABLED`) both ways, for
  a node that answers and one that does not, and for any row. No record and no choice of accounts gets
  through whom the preflight refused on the chain's word (a credential that it read, or the pause). And
  nothing but what it leaves out (expiry, limits, money, the credential itself when a row stood in for it)
  stops whom it admitted. A refusal on a row's word is worth nothing: `ReasonIsOnChain`, section 6.
* `WritesWithinGuard`: an update moves the NAV by at most the guard, unless another run wrote the NAV
  between this run's read and its write. `GuardPerUpdate`, without the exception, fails.
* `FollowsWithinGuard` is liveness: if the NAV that the crank would compute stays within the guard of
  the chain's, then chain and display come to show exactly that NAV. The premise leaves out the market
  that runs away from the guard, after which every later run is skipped: `FollowsMarket`, without the
  premise, fails (section 6).
* `RegisterBehindChain`: a row exists only for a wallet that was issued a credential, and says "revoked"
  only once the chain does. The preflights believe the row when the chain cannot be read.
* `DenialIsFinal` holds although a slow `issue` may write "active" after a `revoke` wrote "revoked": it
  needs `verify` not to believe a row that says "active".
* `ImplementsRecord` looks at all three stores over time: what is told has happened, in the order of its
  happening, first the row, then the event, each once. So, of requests that race for one wallet at most one
  reaches the audit trail (`AuditedOnce`, proved on its own), as the program executes one issue and one
  revocation per wallet.
* `OnboardingCompletes` is liveness: through dropped, late and unanswered transactions the institution
  gets in. It rests on the conflict of a second submission leading on.
* `ImplementsBook`: chain, tables and audit events over time are a journal that only grows. Two requests
  for one signature, or under one reference, may overlap at every await, fail half-way and be asked again:
  one row comes out at most, one audit event of it at most and none without a row, only of an executed
  transaction, never at a NAV from before it, and its link leads to a row.
* `BannerIsOwn`: a success shown was this form's own submission, whatever handlers of left tabs still
  report. `FormComesBack` and `PauseIsSeen` are liveness: no form stays disabled, and a lasting pause
  (or its end) is seen although an old poll may replace a newer one.
* `BooksCovered`: in every vault `total_deposits` is in custody and `total_supply` counts every share.
  The last deposit or redemption at a risen price asks for more than the books hold: there the saturating
  write-off comes in. `RecordsSpentAcrossVaults` is `TravelRuleCovered` for a factory whose vaults share the
  records, `RoundingFavoursVaults` the ledger's `RoundingFavoursVault` for each of them.

### Bounds, and why they are enough

* `NAV_BPS_DENOMINATOR` 10000 becomes 2, prices 0 to 5, amounts 0 to 2: below, at and above par every
  division still rounds, and at price 5 the permitted deposit buys no share (`minted > 0` fires).
  NAV 1 has a maximal change of 0 and shows the frozen price.
* `MaxU64` is 6 in `share_ledger`, so that `shares * nav`, `nav + max_change` and `amount *
  Denominator` each overflow in some state. In `vault_yield` (12) the products and the sum overflow.
* Two wallets (plus the vault's account) give a payer, another recipient and another payer's record;
  wallets and nonces are symmetric. No action compares three wallets.
* Days of two seconds and eleven seconds allow a remainder to be carried over several accruals;
  a credential may outlast the clock (`ExpiryDates`), so that the latest instant has deposits too.
* `oragami_vault` has one wallet, one nonce and amounts 1 and 2, because its properties relate
  components rather than wallets, and one yield account, registered or not, passed or not, with any balance
  up to twice `MaxU64`; the components' own runs have two of each. At limits of 2 and with one record it sees one deposit; sequences of deposits are
  the matter of `compliance`, `share_ledger` and `asset_vaults`. The two hashes are symmetric.
* `nav_crank` counts the NAV in tenths: the guard is one tenth, the clamp 9 to 11, the quotes 10 and 12.
  A move of the market is worth one tenth from a baseline of 10 (clamped) or of 12, so that updates
  at the edge of the guard, beyond it (from 9 to 11, after a restart or an orphan) and none at all
  occur. Two runs overlap; a third could only overtake once more. When the next run is due and both
  are busy, time waits for one of them.
* `credential_desk` has one wallet, since rows, accounts and audit counts of two wallets never meet, two
  slots and two late transactions, so that an issue, a revocation and a verification race in pairs with
  two more transactions under way; any number of requests follow each other.
* `onboarding` has one slot (the browser waits for one answer at a time; what it gave up holds the
  slot until it ends), one late transaction and one reload of a page that is not stuck; reloads of a
  stuck page are not bounded.
* `deposit_desk` has two signatures and two references, so that requests meet on either, on both or on
  none, two requests at a time, one hash, filed before or after the request or never, one institution and
  one amount, which the services do not look at; one NAV update lies before, between or after. Its clock
  does not move: expiry is the gate's matter and checked there.
* `vault_panel` has one amount and par as the only price, since nothing on the page depends on either;
  a handler of a left tab overlaps with one of the mounted form, and two polls may cross.
* `asset_vaults` has three assets for a factory of two, prices 2 and 3 over a denominator of 2 (rounding
  both ways), one wallet, four tokens and one record. Two tokens in each of two vaults make both take a
  deposit, with the one record tried in both; four in one vault, two of them by deposit and two sent to it,
  let two shares redeem three tokens of the two on the books. Limits are 2; deposits of 1 are refused. What
  two holders do to each other has the form it has in `share_ledger`, and the theorems of section 5 hold for
  any number of wallets.
* Unbounded in the code and bounded here: the clock (`MaxTime`), the amounts wallets start with
  (`InitialUsdc`), the numbers of nonces and reports, the runs that overlap (`Runs`), the moves of the
  market (`MaxMoves`), the restarts (`MaxRestarts`), the late transactions (`MaxLate`), the reloads
  (`MaxReloads`), the NAV updates of the deposit desk (`MaxNav`), the requests,
  handlers and polls at a time (`Slots`, `Workers`, `Handlers`, `Polls`) and the faucet (`MaxMinted`). Nothing else is cut off by a guard.

### Fairness and deadlock

The specifications of the programs have no fairness condition and no liveness property: nothing on
chain forces anyone to call an instruction. The crank does promise something. Its fairness is: time
passes and the cron starts a due run (the scheduler of the process); every run takes its next step,
since every await settles, with an answer or an error (weak fairness per run); and, as an assumption
on the environment, neither SIX, nor the RPC node's reads and sends, nor the database fails for ever
(strong fairness of `FetchQuote`, `ReadVault`, `Land`, `Record`, each over all runs together). The
market and restarts are not fair: they are bounded, hence end.

The onboarding's fairness (`UserGoesOn`, `BackendWorks`): the user takes the step that the page offers
and reloads one that stays stuck; every request of the backend goes on, as its awaits settle; and of the
issue transactions, reads and answers that keep coming up, one gets through (strong fairness). The
database may fail every time, and nothing is assumed of revocation. The panel's: every await of a handler
and of a poll settles (weak fairness per handler and poll), the interval keeps polling and the node
answers again and again (strong fairness of a successful read); nobody has to click. The credential and
deposit desks have safety properties only.

Deadlock is checked except where the system may stop: in `compliance`, `credential_desk`, `onboarding`,
`deposit_desk`, `vault_panel` and `asset_vaults` the clock, the tokens or the transactions are bounded, and
once they are used up a program or service that only waits for its next caller has no step left.

## 5. Proofs

| module | theorems | from |
| --- | --- | --- |
| `ComplianceProofs` | `ComplianceTypeCorrect`, `RecordsAlwaysFiledByPayer`, `TravelRuleAlwaysCovered`, `LapseIsAlwaysFinal`, `GateTakenOver` | finitely many nonces, the threshold positive |
| `ShareLedgerProofs` | `LedgerTypeCorrect`, `DepositsAlwaysBacked`, `SupplyAlwaysCovered`, `LedgerImplementsPool`, `RoundingAlwaysFavoursVault`, `OnlyRisesEverCostSolvency` | parameters are u64, denominator positive |
| `YieldReserveProofs` | `YieldTypeCorrect`, `NoDayCreditedTwice`, `YieldNeverExceedsEarnings`, `ReserveTypeCorrect`, `MismatchAlwaysMeansRefresh` | units positive, the reserve's accounts differ from `NoAccount` |
| `OragamiVaultProofs` | `ComponentsRefined`; from it `RecordsCoverDeposits`, `LapseFinalInProgram`, `BooksBackedInProgram`, `ProgramImplementsPool`, `SolvencyLostByRisesOnly`, `YieldEarnedInProgram`, `MismatchInProgram`; `ProofNeverFailsForMoney`, `BooksOnlyRunDown`; `DepositsArePreflighted`, `PromisedDepositGoesThrough` | those of the components |
| `VaultPanelProofs` | `PanelKeepsLedger`, `PanelTypeCorrect`, `BannerAlwaysOwn` | those of the ledger, the marker is no handler, the wallet is one |
| `NavCrankProofs` | `CrankTypeCorrect`, `WritesAlwaysWithinGuard`, `UpdatesAcceptedUnlessOvertaken` | prices positive, par within the clamp; for the last, the guard at most half the lowest NAV (1000 of 5000) |
| `CredentialProofs`, on `AssetVaults` | `AssetVaultsKeepGate`, `AssetTypeCorrect`, `RecordsAlwaysSpentAcrossVaults`, `BooksAlwaysCovered`, `VaultsImplementPools`, `RoundingAlwaysFavoursVaults`, `LapseFinalAcrossVaults` | finitely many assets, amounts are u64, denominator positive, and those of the gate |
| on `CredentialDesk` | `DeskTypeCorrect`, `RegisterAlwaysBehindChain`, `AlwaysAuditedOnce`, `DenialAlwaysFinal`, `DeskKeepsGate`, `LapseFinalAtDesk`, `DeskImplementsRecord` | those of the gate |
| on `Onboarding` | `OnboardTypeCorrect`, `DeskKeptInOnboarding`, `CompleteOnlyWithCredential`, `OnboardingKeepsGate`, `OnboardingImplementsRecord` | those of the gate, and that the browser's wallet is one |
| `DepositDeskProofs` | `DepositTypeCorrect`, `RowsAlwaysSound`, `AuditsAlwaysOfRows`, `DepositsKeepGate`, `DepositsImplementBook` | those of the gate, and `NoAccount` is no NAV update, row, deposit or nonce |

The assumptions are the named `ASSUME`s of the modules; TLC evaluates them in each run.
`CredentialProofs` extends three modules that share the gate's variables and nothing else; its theorems
about one of them use no fact of the others but that, and the desk's in `Onboarding`.

* **Compliance.** `TravelRuleCovered` is not inductive: a deposit consumes the record at the address
  the caller chose, and the count moves for the payer *named in* the record. `RecordsFiledByPayer`
  ties the two: a record names the wallet its address is derived from. The step that consumes a
  record then adds exactly one nonce to `ConsumedNonces`, and the cardinality lemma of the library
  adds one to the count. `LapseIsFinal` follows from the types, and from time moving forward only.
  `GateTakenOver` says the same of a gate that is not opened empty, but taken over in any state whose
  records are in order; the deposit desk, whose wallets start with credentials, needs it in this form.
* **Ledger.** `LedgerInv` is types, `BackedDeposits` and `SupplyCovered` together. They need each
  other's typing facts; `BackedDeposits` is what makes a payout an integer step of the pool's books,
  and `SupplyCovered` lets the pool cancel the shares that a burn takes away. One lemma per
  instruction proves types, supply and the pool's step; `BackingKept` derives backing from the pool's
  step alone, which is why the abstract pool is worth having: `RoundingFavoursVault` too is proved
  from the pool's steps and two lemmas on division. `OnlyRisesCostSolvency` follows from it when the NAV
  stays, and when it falls from the pool's `Reprice`, which moves nothing else.
* **Yield.** `YieldInv` joins types with both properties: `NoDoubleAccrual` bounds the date and
  makes the elapsed time natural. `DailyYieldRoundsDown` is the chain of the three divisions.
* **Reserve.** `MismatchMeansRefresh` needs that no attestation is dated ahead, since a refresh
  stamps the registry with the present.
* **Crank.** `WritesWithinGuard` looks at the chain when a transaction lands, the guard at the NAV
  read earlier. `SenderWithinGuard` carries it across: a run about to write that nobody overtook is
  within the guard of the chain's NAV. `DecisionIsGuarded` establishes it (only a run that really
  read the vault goes on to send), `LocalStep` keeps it, and `WriteStep` shows that a write overtakes
  everyone else it could break it for. The same invariant shows that the program's own bound of one half
  never gets in the way of the crank's of a tenth: an update that the program refuses for its size was
  overtaken.
* **Credential desk.** `DeskInv` is inductive where none of the three properties is. The chain admits one
  issue and one revocation per wallet; `ExecutedUnaudited` and `ExecutedForOne` say that a request which
  got past the chain is alone in doing so and not yet in the audit trail, which is what makes
  `AuditedOnce` inductive. `IssueStored` and `AuditBorneOut` tie the later steps of a request to what its
  earlier ones wrote. `DeniedByChain` says that a denied wallet's credential is revoked or past its date,
  hence that no chain verdict "active" follows; `DenialRemembered` carries it through a request that was
  asked after the denial. One lemma per action. The desk is a client of the gate like any other
  (`DeskKeepsGate`), so that a lapse is final through it. `DeskImplementsRecord` is a step simulation:
  executions are the record's `Happen` (`ExecutionHappens`), the steps of a request past the chain tell or
  lose its news (`CarrierSteps`), all others are stutters (`QuietSteps`). It rests on `ExecutedForOne`, by
  which one request carries the news of an operation at most: only then does moving that request move the
  news (`NewsMoves`), and `AnswerEndsNews` really ends it.
* **Asset vaults.** `GateStep` shows that every step of the factory is a step of `Compliance` or a
  stutter; `AssetVaultsKeepGate` makes it a refinement, from which `RecordsAlwaysSpentAcrossVaults` is the
  gate's theorem again. Per operation one lemma proves types, the counting of shares, and a step of the
  abstract pool for every asset (the untouched ones stutter: `OneVault`). `BooksCovered` then follows, as
  in the ledger, from the pool's step and the counting alone, and `RoundingFavoursVaults` (the ledger's
  `RoundingFavoursVault` for each vault) from the pool's steps and the two divisions.
* **Preflight.** What `PreflightHonest` says with `ENABLED` is proved in two halves that do without it.
  Whoever deposits while his credential can be read was let through by the preflight, and whoever deposits at
  all, a row's word notwithstanding, found no pause, had the record it asked for and is minted what it
  estimated (`DepositsArePreflighted`, an action property). And whoever is let through deposits, within what
  the preflight did not see: `PromisedDepositGoesThrough` names the next state (`DepositOutcome`: a value for
  every variable, no condition) and proves that the step to it is a `Deposit`. They go further than the run,
  to any recipient and any valid record. The multi-asset service's preflight has no theorem: it promises what
  the program does not keep.
* **Program.** `ComponentsRefined` is four step simulations. The step lemmas of the component modules are
  cited from instances of their proof modules (`GateP`, `LedgerP`, `AccountsP`); the prover takes
  `Ledger!Redeem` and `LedgerP!Redeem` for two operators, so `SameGate`, `SameLedger`, `SameYield` and
  `SameReserve` show first, action by action, that they are one. Only instructions that touch several
  components need more: a deposit projects to the gate and to the ledger, `set_nav` to the ledger and the
  registry, and each of them leaves the rest to stutter. The yield component assumes `totalDeposits` to
  move freely within u64, which the ledger's types justify after every step. With the refinement, each
  component's theorem is a theorem of the program. `ProofNeverFailsForMoney` puts two of them
  together: at a collateral ratio of at most the whole the money asked for is no more than the books,
  hence by `BackedDeposits` no more than the vault holds, so that the second product fits u64 whenever the
  first does; `MismatchMeansRefresh` settles the hash. `BooksOnlyRunDown`
  takes `LapseIsFinal` as its step: while every credential stays lapsed no deposit passes, and all other
  instructions leave `total_deposits` or lower it.
* **Vault panel.** `BannerIsOwn` speaks of the form on the screen only. `OwnLanded` adds the handlers that
  are about to report: one past its confirmation that belongs to the mounted form has landed, and
  `ownDone` knows it. The chain calls of the page are steps of the ledger (`PanelKeepsLedger`), whose
  theorems hold behind the page therefore, its types first of all.
* **Deposit desk.** `DepositInv` says what a request that is past an await still knows (`SoundState`): its
  transaction was executed, before the NAV that it read; the institution, and the row it links to, are
  there. That stays so while others work, because chain and tables only grow (`Grows`, `SoundStays`): one
  lemma (`GrowthKeeps`) serves every step that is not the request's own, another (`WorkerMoveKeeps`) every
  step of a request that writes nothing. `RowsOnce` comes from the unique indexes; `AuditsPending`, that who
  is about to write an audit event is the only one and that there is none yet, follows from a row being
  new when it is created, and makes `AuditsOfRows` inductive. `DepositsImplementBook` reads the same facts
  as a refinement: every execution is a `Happen`, the write of a row an `Enter`, of an event an `Audit`,
  all else of a request a stutter. The gate's theorems come over since each step of the chain is a step of
  the gate (`DepositGateStep`), with records that no service filed among them.
* **Onboarding.** Every step of the browser and of the backend that serves it is a step of the desk or
  leaves the desk alone (`OnboardStepOfDesk`), but for one: the operator's own revocation, of which the
  desk knows nothing and of which `OperatorRevocationKeeps` shows that it keeps `DeskInv`. That carries
  the desk's theorems over. `OnboardInv` says that the browser's verifications are of its own wallet, that
  a verdict "active" comes from a credential issued to it, and that the page "complete" does too; its
  proof is that an answer for which the browser waits stays as it is until it is taken. The gate and the
  record come over too: an operator's revocation is a `RevokeCredential` and a `Happen` of which no request
  tells.

With TLC alone remain the four liveness properties (`FollowsWithinGuard`, `OnboardingCompletes`,
`FormComesBack`, `PauseIsSeen`), since the prover does not do fairness, and the `ENABLED` form of
`PreflightHonest`, whose content is proved as said above but for the existence of a next
state, which the prover cannot conclude. No theorem here needs induction over data.

## 6. Where the code and its words differ

`onboarded_row` ends in a counterexample: the travel-rule service tells a wallet without a row to
"complete credential onboarding first", yet a credential that was issued with its answer lost leads,
through the conflict of the second submission, to the end of the onboarding without a row, and no later
request writes one (`backend/credentials/credentials.service.ts:112`).

The definitions of the next table are kept at the end of their modules with the words they come from.
TLC refutes each of them when it is added, as an invariant or a property, to the run of its module
(`EnforcedDepositsWithinBand` with limits of 1 and 2, since it takes a second deposit).

| definition | the words | the code |
| --- | --- | --- |
| `RevokedCanBeReissued` (`Compliance`) | the backend (`credentials.service.ts:95`): "Revoke it before re-issuing." | revocation keeps the account and issuing opens it with `init` (`lib.rs:1311`), so it fails for ever |
| `ExitAnyTime` (`ShareLedger`) | "institutions may exit any time" (`lib.rs:448`) | redemptions are paid from the USDC held only (`lib.rs:461`), which a rise of the NAV outgrows |
| `DistributionSkipsNoDay` (`VaultYield`) | the date advances "by exactly the days processed" (`lib.rs:693`) | `distribute_yield` moves it to now and drops the days still due (`lib.rs:754`) |
| `EnforcedDepositsWithinBand` (`OragamiVault`) | enforcement "on `deposit`" of the USDC band | `deposit` never looks at the mandate |
| `ReasonIsOnChain` (`OragamiVault`) | "Credential is not active on-chain" (`deposits.service.ts:54`) | said on the word of a row when the chain cannot be read: a wallet without a row (the end of `onboarded_row`), or with an old one, is turned away with an active credential |
| `GuardPerUpdate` (`NavCrank`) | "max ±10% change per crank run" (`src/README.md:36`) | the guard compares with the NAV read before the awaits; an overlapping run or an orphan may have moved it |
| `FollowsMarket` (`NavCrank`) | appreciation "reflected in NAV every 2 minutes" (`src/README.md:32`) | a change beyond the guard is skipped, and so is every later run |
| `RowsAreDeposits` (`DepositDesk`) | "Index a confirmed deposit tx" (`src/README.md:278`) | any transaction that did not fail is indexed, with the caller's wallet and amounts (`deposits.service.ts:74-91`) |
| `LargeRowsAreLinked` (`DepositDesk`) | "`POST /api/deposits/index` with `travelRuleNonceHash`" (`src/docs/FRONTEND_FLOW.md:94`) | the hash is optional and compared with nothing (97-104); the panel sends a UUID as nonce and no hash (`app/features/vault/VaultPanel.tsx:178-184`), so its rows have no link |
| `PausedAsSaid` (`AssetVaults`) | "Vault is paused" (`backend/multi-asset-vault/multi-asset-vault.service.ts:360`) | the interface description that the service decodes by lacks `travel_rule_required`, which `mav/state.rs:55` puts before `paused`: it calls a vault paused that opted in to the travel rule, promises deposits into a paused one that did not, and never says `travelRuleRequired` (line 140). Its credential lacks `attestation_hash` (`mav/state.rs:118`), so that status and expiry are read from bytes of that hash |
| `RowsValuedAtDeposit` (`DepositDesk`) | `navAtDeposit` (`src/docs/ISSUE.md:173`) | the NAV at the indexing, after two other awaits |
| `FailedIsNotExecuted` (`VaultPanel`) | the nonce as "replay protection" (`app/services/vault-operations.ts:675`) | the program only logs the nonce (`lib.rs:1712`); a submission whose answer was lost is shown as failed |

Seen in the code, without a run, since no state of a model is needed to see them:

* Program: `verify_proof_of_reserve` reads the date and the hash of an attestation but not the gold it
  attests; `deposit` mints to any token account of the plain SPL mint cVAULT, where `docs/SPEC.md` speaks
  of an allowlist; `update_config` does not check the order of the deposit limits as `initialize_vault`
  does; a NAV of 1 can never move again (`lib.rs:215`).
* Multi-asset vault: `deposit.rs` and `transfer_shares.rs` ask for the credential account of
  oragami-vault, but the multi-vault page (`app/app/app/vaults/page.tsx:43-46`) derives the address from
  the multi-asset program, so that deposits and transfers from that page are refused whatever the
  preflight says; the service's `issueCredential` has it the other way round and is refused
  too. The page neither files nor passes a travel-rule record, and sends the deposit without waiting for
  the transaction that creates the token account (176-196). Shares are plain SPL tokens: they move without
  the two credentials that `transfer_shares.rs:9-21` calls for.
* Credentials: `verify` calls a credential active at the very second at which the program has it lapse
  (`expiresAt < now` against `> now`).
* Deposits: the preflight checks neither expiry nor limits, though `src/PITCH.md:73` says so, and believes
  an "active" row when the chain cannot be read, as a test has it (`deposits.service.spec.ts:55-73`); wallet
  and amounts of a row are the caller's word; `init_travel_rule` is open to any payer (`lib.rs:409-441`), so
  that the chain may have records that the database never saw.
* Front end: debounced preflights may answer out of order (`app/features/vault/VaultPanel.tsx:128-148`, and
  the multi-vault page); the panel's deposit passes no travel-rule account, so large ones are refused; the
  gate lets everybody in while the backend is out of reach (`app/middleware.ts:32-35`).

## 7. Not modelled

* The transfer hook; the crank's aftermath (attestation, yield tick, audit row), which belongs to its
  composition with the program. Both are left open (section 2).
* `initialize_factory` and the multi-asset program's own credential instructions (see `AssetVaults`);
  `oragami-asset` (no state).
* The SIX, Solstice and Anchor clients: I/O, whose failures are inputs of the crank and the desks. Of the
  leads and research endpoints, health, audit and vault endpoints nothing but reads and single writes
  would be left.
* The multi-vault page, the admin and landing pages, the display of preflights and figures, and the UI
  components: layout, formatting, and calls whose order no other part depends on.
* Vendored and generated code (`.pnp.cjs`, `.pnp.loader.mjs`, IDLs), which is the larger part of the
  JavaScript in the repository. Most of the rest is pages and components; the programs that carry the
  logic are in Rust.
