------------------------------ MODULE NavCrank ------------------------------
(***************************************************************************)
(* The NAV crank of the backend.  Every two minutes a run fetches a quote, *)
(* reads the vault, computes a NAV, and, unless a guard stops it, sends    *)
(* set_nav and records a snapshot.  A run is cut at its awaits: between    *)
(* two of them other runs, the chain and the market move.  Nothing stops a *)
(* run from outlasting the period, so runs overlap; and the process may    *)
(* restart at any await, losing what it keeps in memory but not the        *)
(* transactions it has sent.                                               *)
(*                                                                         *)
(* The two SIX quotes are taken as one, and eUSX stands at its fallback    *)
(* price of 1.0.  Time is counted in minutes.                              *)
(***************************************************************************)
EXTENDS Integers

CONSTANTS
    Runs,               \* the runs that may overlap
    Quotes,             \* the prices that SIX may quote
    NoPrice,            \* `null`
    Denominator,        \* NAV_BPS_DENOMINATOR
    WeightSix,          \* WEIGHT_GOLD_BPS + WEIGHT_CHF_BPS
    MinNav, MaxNav,     \* 5000 and 20000, the clamp of computeNavBps
    MaxNavChange,       \* MAX_NAV_CHANGE_BPS
    CronPeriod,         \* two minutes
    MinUpdateInterval,  \* MIN_UPDATE_INTERVAL_MS, 90 seconds, in whole minutes rounded up
    MaxMoves,           \* bound: how often the market moves
    MaxRestarts         \* bound: how often the process restarts

ASSUME QuotesAssumption == Quotes \subseteq Nat \ {0} /\ NoPrice \notin Quotes
ASSUME NavBoundsAssumption ==
    /\ Denominator \in Nat \ {0} /\ WeightSix \in 0 .. Denominator
    /\ MinNav \in 1 .. Denominator /\ MaxNav \in Nat /\ Denominator <= MaxNav
    /\ MaxNavChange \in Nat
ASSUME CronAssumption == CronPeriod \in Nat \ {0} /\ MinUpdateInterval \in Nat
ASSUME BoundsAssumption == MaxMoves \in Nat /\ MaxRestarts \in Nat

VARIABLES
    market, moves,  \* what SIX would quote now; how often it has moved
    chainNav,       \* VaultState.nav_price_bps
    lastPrice, baseline, sinceUpdate,  \* in memory; sinceUpdate stops at MinUpdateInterval
    untilCron,      \* minutes until the next run
    run,            \* the runs under way
    snapshot,       \* the NavSnapshot recorded last
    restarts

memory    == <<lastPrice, baseline, sinceUpdate>>
crankVars == <<market, moves, chainNav, memory, untilCron, run, snapshot, restarts>>

Idle == [pc |-> "idle"]

(* A run between two awaits.  `overtaken` is history: whether the chain's NAV was written by    *)
(* another run since this one read it.                                                         *)
Run ==
    {Idle}
    \cup [pc : {"fetching"}]
    \cup [pc : {"reading"}, price : Quotes \cup {NoPrice}]
    \cup [pc : {"sending", "orphaned", "landed"}, nav : MinNav .. MaxNav, overtaken : BOOLEAN]
    \cup [pc : {"recording"}, nav : MinNav .. MaxNav, signed : BOOLEAN]

Snapshot == [nav : MinNav .. MaxNav, signed : BOOLEAN]

CrankInit ==
    /\ market \in Quotes /\ moves = 0
    /\ chainNav = Denominator
    /\ lastPrice = NoPrice /\ baseline = NoPrice /\ sinceUpdate = MinUpdateInterval
    /\ untilCron \in 0 .. CronPeriod
    /\ run = [r \in Runs |-> Idle]
    /\ snapshot = [nav |-> Denominator, signed |-> FALSE]
    /\ restarts = 0

-----------------------------------------------------------------------------
Distance(a, b) == IF a >= b THEN a - b ELSE b - a

(* Mutant: the clamp left out. *)
ClampedNot(nav) == nav

Clamped(nav) == IF nav < MinNav THEN MinNav ELSE IF nav > MaxNav THEN MaxNav ELSE nav

(* computeNavBps: weighted price over baseline, rounded to the nearest; without either, par. *)
NavFor(price, base) ==
    IF price = NoPrice \/ base = NoPrice
    THEN Clamped(Denominator)
    ELSE Clamped((2 * WeightSix * price + base) \div (2 * base) + (Denominator - WeightSix))

(* The check of the set_nav instruction. *)
ChainAccepts(nav) ==
    /\ nav >= chainNav - chainNav \div 2
    /\ nav <= chainNav + chainNav \div 2

(* The chain's NAV is written; every other run that has read it is overtaken. *)
WriteNav(r, after) ==
    /\ ChainAccepts(run[r].nav)
    /\ chainNav' = run[r].nav
    /\ run' = [q \in Runs |->
                 IF q = r THEN after
                 ELSE IF run[q].pc \in {"sending", "orphaned"}
                      THEN [run[q] EXCEPT !.overtaken = TRUE]
                      ELSE run[q]]

-----------------------------------------------------------------------------
Start(r) ==
    /\ untilCron = 0
    /\ run[r].pc = "idle"
    /\ run' = [run EXCEPT ![r] = [pc |-> "fetching"]]
    /\ untilCron' = CronPeriod
    /\ UNCHANGED <<market, moves, chainNav, memory, snapshot, restarts>>

(* Mutant: a price that is cached once and then preferred to the quote. *)
FetchQuoteOnce(r) ==
    /\ run[r].pc = "fetching"
    /\ lastPrice' = IF lastPrice = NoPrice THEN market ELSE lastPrice
    /\ run' = [run EXCEPT ![r] = [pc |-> "reading", price |-> lastPrice']]
    /\ UNCHANGED <<market, moves, chainNav, baseline, sinceUpdate, untilCron, snapshot, restarts>>

FetchQuote(r) ==
    /\ run[r].pc = "fetching"
    /\ lastPrice' = market
    /\ run' = [run EXCEPT ![r] = [pc |-> "reading", price |-> market]]
    /\ UNCHANGED <<market, moves, chainNav, baseline, sinceUpdate, untilCron, snapshot, restarts>>

(* SIX does not answer: the cached price, or none. *)
FetchFails(r) ==
    /\ run[r].pc = "fetching"
    /\ run' = [run EXCEPT ![r] = [pc |-> "reading", price |-> lastPrice]]
    /\ UNCHANGED <<market, moves, chainNav, memory, untilCron, snapshot, restarts>>

(* From the answer of readVaultState to the next await: the baseline is set, the NAV computed,  *)
(* and the guards decide, in this order.                                                       *)
Decision(nav, current, initialized) ==
    IF Distance(nav, current) > MaxNavChange
    THEN [pc |-> "recording", nav |-> nav, signed |-> FALSE]
    ELSE IF sinceUpdate < MinUpdateInterval
    THEN Idle
    ELSE IF ~initialized
    THEN [pc |-> "recording", nav |-> nav, signed |-> FALSE]
    ELSE [pc |-> "sending", nav |-> nav, overtaken |-> FALSE]

Decide(r, current, initialized) ==
    /\ run[r].pc = "reading"
    /\ baseline' = IF baseline = NoPrice THEN run[r].price ELSE baseline
    /\ run' = [run EXCEPT ![r] =
                 Decision(NavFor(run[r].price, baseline'), current, initialized)]
    /\ UNCHANGED <<market, moves, chainNav, lastPrice, sinceUpdate, untilCron, snapshot, restarts>>

ReadVault(r) == Decide(r, chainNav, TRUE)

(* Mutant: the run goes on with the default NAV as if it had been read. *)
ReadDefaults(r) == Decide(r, Denominator, TRUE)

(* The read fails: par is assumed, and nothing is sent. *)
ReadFails(r) == Decide(r, Denominator, FALSE)

(* set_nav is executed; the run does not know it yet. *)
Land(r) ==
    /\ run[r].pc = "sending"
    /\ WriteNav(r, [run[r] EXCEPT !.pc = "landed"])
    /\ UNCHANGED <<market, moves, memory, untilCron, snapshot, restarts>>

(* The answer arrives.  The attestation and the yield tick that follow are best effort and      *)
(* leave no trace in the state of the crank.                                                   *)
Confirm(r) ==
    /\ run[r].pc = "landed"
    /\ sinceUpdate' = 0
    /\ run' = [run EXCEPT ![r] = [pc |-> "recording", nav |-> run[r].nav, signed |-> TRUE]]
    /\ UNCHANGED <<market, moves, chainNav, lastPrice, baseline, untilCron, snapshot, restarts>>

(* The transaction fails, or its answer is lost although it was executed: the run reports a     *)
(* failure in both cases.                                                                      *)
SendFails(r) ==
    /\ run[r].pc \in {"sending", "landed"}
    /\ run' = [run EXCEPT ![r] = [pc |-> "recording", nav |-> run[r].nav, signed |-> FALSE]]
    /\ UNCHANGED <<market, moves, chainNav, memory, untilCron, snapshot, restarts>>

Record(r) ==
    /\ run[r].pc = "recording"
    /\ snapshot' = [nav |-> run[r].nav, signed |-> run[r].signed]
    /\ run' = [run EXCEPT ![r] = Idle]
    /\ UNCHANGED <<market, moves, chainNav, memory, untilCron, restarts>>

(* The database does not answer; recordSnapshot only logs that. *)
RecordFails(r) ==
    /\ run[r].pc = "recording"
    /\ run' = [run EXCEPT ![r] = Idle]
    /\ UNCHANGED <<market, moves, chainNav, memory, untilCron, snapshot, restarts>>

-----------------------------------------------------------------------------
(* The process restarts: its memory is lost, its runs end, but what was sent may still land. *)
Restart ==
    /\ restarts < MaxRestarts
    /\ restarts' = restarts + 1
    /\ lastPrice' = NoPrice /\ baseline' = NoPrice /\ sinceUpdate' = MinUpdateInterval
    /\ run' = [r \in Runs |->
                 IF run[r].pc \in {"sending", "orphaned"}
                 THEN [run[r] EXCEPT !.pc = "orphaned"]
                 ELSE Idle]
    /\ UNCHANGED <<market, moves, chainNav, untilCron, snapshot>>

OrphanLands(r) ==
    /\ run[r].pc = "orphaned"
    /\ WriteNav(r, Idle)
    /\ UNCHANGED <<market, moves, memory, untilCron, snapshot, restarts>>

OrphanExpires(r) ==
    /\ run[r].pc = "orphaned"
    /\ run' = [run EXCEPT ![r] = Idle]
    /\ UNCHANGED <<market, moves, chainNav, memory, untilCron, snapshot, restarts>>

(* A minute passes; a run that is due starts first, which bounds the overlap to Runs. *)
Minute ==
    /\ untilCron > 0
    /\ untilCron' = untilCron - 1
    /\ sinceUpdate' = IF sinceUpdate < MinUpdateInterval THEN sinceUpdate + 1 ELSE sinceUpdate
    /\ UNCHANGED <<market, moves, chainNav, lastPrice, baseline, run, snapshot, restarts>>

MarketMoves ==
    /\ moves < MaxMoves
    /\ moves' = moves + 1
    /\ market' \in Quotes \ {market}
    /\ UNCHANGED <<chainNav, memory, untilCron, run, snapshot, restarts>>

RunStep(r) ==
    \/ FetchQuote(r) \/ FetchFails(r)
    \/ ReadVault(r) \/ ReadFails(r)
    \/ Land(r) \/ Confirm(r) \/ SendFails(r)
    \/ Record(r) \/ RecordFails(r)
    \/ OrphanLands(r) \/ OrphanExpires(r)

CrankNext ==
    \/ \E r \in Runs : Start(r) \/ RunStep(r)
    \/ Restart \/ Minute \/ MarketMoves

(* Time passes and due runs start; every await is settled, one way or the other; and neither    *)
(* SIX, nor the RPC node, nor the database fails for ever.                                     *)
Fairness ==
    /\ WF_crankVars(Minute)
    /\ WF_crankVars(\E r \in Runs : Start(r))
    /\ \A r \in Runs : WF_crankVars(RunStep(r))
    /\ SF_crankVars(\E r \in Runs : FetchQuote(r))
    /\ SF_crankVars(\E r \in Runs : ReadVault(r))
    /\ SF_crankVars(\E r \in Runs : Land(r))
    /\ SF_crankVars(\E r \in Runs : Record(r))

CrankSafetySpec == CrankInit /\ [][CrankNext]_crankVars
CrankSpec == CrankSafetySpec /\ Fairness

-----------------------------------------------------------------------------
(* Type invariant of the crank; a NAV, on chain or recorded, is within the clamp. *)
CrankTypeOK ==
    /\ market \in Quotes /\ moves \in 0 .. MaxMoves /\ restarts \in 0 .. MaxRestarts
    /\ chainNav \in MinNav .. MaxNav
    /\ lastPrice \in Quotes \cup {NoPrice} /\ baseline \in Quotes \cup {NoPrice}
    /\ sinceUpdate \in 0 .. MinUpdateInterval /\ untilCron \in 0 .. CronPeriod
    /\ run \in [Runs -> Run]
    /\ snapshot \in Snapshot

(* A step that writes the chain's NAV. *)
Overtaken(nav) ==
    \E r \in Runs : run[r].pc \in {"sending", "orphaned"} /\ run[r].nav = nav /\ run[r].overtaken

(* Each update of the chain's NAV keeps within MAX_NAV_CHANGE_BPS of the NAV it replaces,       *)
(* whatever the failures of SIX and of the node and whatever restarts, with one exception:     *)
(* another run has written the NAV since the run that sent the update read it.                 *)
WritesWithinGuard ==
    [][Distance(chainNav', chainNav) > MaxNavChange => Overtaken(chainNav')]_crankVars

(* The NAV that a run will compute while the market and the process stay as they are. *)
TargetNav == NavFor(market, IF baseline = NoPrice THEN market ELSE baseline)

(* The chain's NAV, and the one on display, come to follow the market whenever the market ends  *)
(* up within the guard: no overlap, cached price, lost answer, late orphan, restart or          *)
(* too-recent update keeps the crank from it.                                                  *)
FollowsWithinGuard ==
    <>[](Distance(TargetNav, chainNav) <= MaxNavChange)
      => <>[](chainNav = TargetNav /\ snapshot.nav = TargetNav)

(* README.md says of the crank: "Hard guard: max ±10% change per crank run". *)
GuardPerUpdate == [][Distance(chainNav', chainNav) <= MaxNavChange]_crankVars

(* README.md says: "Gold price appreciation reflected in NAV every 2 minutes".  Once the market *)
(* stops moving the chain's NAV should therefore come to be the one it implies.                *)
FollowsMarket == <>[](chainNav = TargetNav)
=============================================================================
