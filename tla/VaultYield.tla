----------------------------- MODULE VaultYield -----------------------------
(***************************************************************************)
(* The yield accounting of the oragami-vault program: process_yield adds   *)
(* to pending_yield what the deposits on the books earn in whole days,     *)
(* distribute_yield empties it, sync_yield only moves the date, and        *)
(* update_config sets the two rates.  The books themselves change by       *)
(* deposits and redemptions, which are an environment step here.           *)
(***************************************************************************)
EXTENDS SolanaClock, BasisPoints

CONSTANTS
    SecondsInDay,  \* SECONDS_IN_DAY
    DaysPerYear,   \* 365
    Allocations,   \* the values of usx_allocation_bps, a u16 that may exceed the whole
    Rates,         \* the values of apy_bps
    Books          \* the values of total_deposits

ASSUME YieldUnitsAssumption ==
    SecondsInDay \in Nat \ {0} /\ DaysPerYear \in Nat \ {0}
ASSUME YieldInputsAssumption ==
    Allocations \subseteq Nat /\ Rates \subseteq Nat /\ Books \subseteq Nat
ASSUME BooksStartEmpty == 0 \in Books

VARIABLES
    totalDeposits,   \* VaultState.total_deposits, as the ledger leaves it
    usxAllocation, apy, lastYieldClaim, pendingYield,
    creditedDays,    \* history: the days for which yield was ever credited
    pendingEarnings  \* history: what pending_yield would be without rounding, unscaled

rateVars    == <<usxAllocation, apy>>
accrualVars == <<lastYieldClaim, pendingYield, creditedDays, pendingEarnings>>
yieldVars   == <<now, totalDeposits, rateVars, accrualVars>>

(* initialize_vault does not check the allocation *)
YieldInit ==
    /\ now = 0
    /\ totalDeposits = 0
    /\ usxAllocation \in Allocations
    /\ apy \in Rates
    /\ lastYieldClaim = 0
    /\ pendingYield = 0
    /\ creditedDays = 0
    /\ pendingEarnings = 0

DaysElapsed ==
    IF now > lastYieldClaim THEN (now - lastYieldClaim) \div SecondsInDay ELSE 0

Allocated == (totalDeposits * usxAllocation) \div BpsWhole

(* Mutant: the last division rounded up. *)
DailyYieldRoundedUp == ((Allocated * apy) \div BpsWhole + DaysPerYear - 1) \div DaysPerYear

(* total_deposits * usx_alloc/10000 * apy/10000 / 365, each division rounded down *)
DailyYield == ((Allocated * apy) \div BpsWhole) \div DaysPerYear

(* Mutant: the last addition left to wrap. *)
YieldFitsUnchecked ==
    /\ FitsU64(totalDeposits * usxAllocation)
    /\ FitsU64(Allocated * apy)
    /\ FitsU64(DailyYield * DaysElapsed)

(* every product and the sum are checked *)
YieldFits ==
    /\ FitsU64(totalDeposits * usxAllocation)
    /\ FitsU64(Allocated * apy)
    /\ FitsU64(DailyYield * DaysElapsed)
    /\ FitsU64(pendingYield + DailyYield * DaysElapsed)

(* Mutant: the date moved one day, whatever number of days was credited. *)
AdvanceOneDay == lastYieldClaim' = lastYieldClaim + SecondsInDay

(* The date moves by the days credited; the remainder of a day carries forward. *)
AdvanceClaim == lastYieldClaim' = lastYieldClaim + DaysElapsed * SecondsInDay

(* Before a full day has elapsed process_yield succeeds and does nothing. *)
ProcessYield ==
    /\ DaysElapsed > 0
    /\ YieldFits
    /\ pendingYield' = pendingYield + DailyYield * DaysElapsed
    /\ AdvanceClaim
    /\ creditedDays' = creditedDays + DaysElapsed
    /\ pendingEarnings' = pendingEarnings + totalDeposits * usxAllocation * apy * DaysElapsed
    /\ UNCHANGED rateVars

(* With nothing pending distribute_yield succeeds and does nothing, not even to the date. *)
DistributeYield ==
    /\ pendingYield > 0
    /\ pendingYield' = 0
    /\ lastYieldClaim' = now
    /\ pendingEarnings' = 0
    /\ UNCHANGED <<creditedDays, rateVars>>

SyncYield ==
    /\ lastYieldClaim' = now
    /\ UNCHANGED <<pendingYield, creditedDays, pendingEarnings, rateVars>>

(* update_config; `cap` is the mandate's ceiling, or NoAccount when the caller omits the mandate. *)
UpdateRates(allocation, rate, cap) ==
    /\ allocation # usxAllocation =>
          /\ allocation <= BpsWhole
          /\ cap # NoAccount => allocation <= cap
    /\ usxAllocation' = allocation
    /\ apy' = rate
    /\ UNCHANGED accrualVars

-----------------------------------------------------------------------------
(* Deposits and redemptions. *)
BooksMove ==
    /\ totalDeposits' \in Books
    /\ UNCHANGED <<now, rateVars, accrualVars>>

YieldInstruction ==
    \/ ProcessYield
    \/ DistributeYield
    \/ SyncYield
    \/ \E a \in Allocations, r \in Rates, cap \in Allocations \cup {NoAccount} :
          UpdateRates(a, r, cap)

YieldNext ==
    \/ YieldInstruction /\ UNCHANGED <<now, totalDeposits>>
    \/ Tick /\ UNCHANGED <<totalDeposits, rateVars, accrualVars>>
    \/ BooksMove

YieldSpec == YieldInit /\ [][YieldNext]_yieldVars

-----------------------------------------------------------------------------
(* Type invariant of the yield accounts. *)
YieldTypeOK ==
    /\ now \in Times
    /\ totalDeposits \in Books
    /\ usxAllocation \in Allocations /\ apy \in Rates
    /\ lastYieldClaim \in Times
    /\ pendingYield \in 0 .. MaxU64
    /\ creditedDays \in Nat /\ pendingEarnings \in Nat

(* No day is credited twice, and none before it is over: the days credited since the vault was *)
(* initialised fit into the time up to last_yield_claim, which is never in the future, however *)
(* process_yield, distribute_yield and sync_yield alternate and however late they come.        *)
NoDoubleAccrual ==
    /\ creditedDays * SecondsInDay <= lastYieldClaim
    /\ lastYieldClaim <= now

(* pending_yield never exceeds what the books really earned, at the rates in force when the    *)
(* days were processed: three roundings a day, over any number of days, changes of the rates   *)
(* and of the books, never add up to yield that was not earned.                                *)
YieldWithinEarnings ==
    pendingYield * (BpsWhole * BpsWhole * DaysPerYear) <= pendingEarnings

(* lib.rs says that the date moves "by exactly the days processed so sub-day remainder carries *)
(* forward": when a distribution then empties pending_yield, no full day that process_yield    *)
(* has not credited yet should be lost with it.                                                *)
DistributionSkipsNoDay == [][pendingYield' < pendingYield => DaysElapsed = 0]_yieldVars
=============================================================================
