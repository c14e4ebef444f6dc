------------------------- MODULE YieldReserveProofs -------------------------
(***************************************************************************)
(* Theorems about VaultYield and Reserve, the two parts of oragami-vault   *)
(* that count in basis points: for any length of a day and of a year, any  *)
(* rates, books, reports, mandates, times and width of the integers.       *)
(***************************************************************************)
EXTENDS VaultYield, Reserve, TLAPS

(* The yield.                                                                                  *)
(* The domains of the parameters. *)
LEMMA Units ==
    /\ SecondsInDay \in Nat /\ SecondsInDay > 0
    /\ DaysPerYear \in Nat /\ DaysPerYear > 0
    /\ BpsWhole \in Nat /\ BpsWhole > 0
    /\ Allocations \subseteq Nat /\ Rates \subseteq Nat /\ Books \subseteq Nat
    /\ MaxU64 \in Nat /\ MaxTime \in Nat /\ Times \subseteq Nat
  BY YieldUnitsAssumption, BpsWholeAssumption, YieldInputsAssumption, MaxU64Assumption, MaxTimeAssumption DEF Times

(* Integer division of naturals rounds down. *)
LEMMA FloorDivision ==
    ASSUME NEW a \in Nat, NEW b \in Nat, b > 0
    PROVE  a \div b \in Nat /\ (a \div b) * b <= a
  BY SMT

LEMMA ProductIsNatural ==
    ASSUME NEW a \in Nat, NEW b \in Nat
    PROVE  a * b \in Nat
  BY SMT

LEMMA ProductIsMonotone ==
    ASSUME NEW a \in Nat, NEW b \in Nat, NEW c \in Nat, a <= b
    PROVE  a * c <= b * c
  BY SMT

LEMMA ProductIsAssociative ==
    ASSUME NEW a \in Nat, NEW b \in Nat, NEW c \in Nat
    PROVE  (a * b) * c = a * (b * c) /\ (a * b) * c = (a * c) * b
  BY SMT

LEMMA ProductDistributes ==
    ASSUME NEW a \in Nat, NEW b \in Nat, NEW c \in Nat
    PROVE  (a + b) * c = a * c + b * c
  BY SMT

(* process_yield never counts more days than the time since last_yield_claim holds. *)
LEMMA DaysElapsedRoundDown ==
    ASSUME now \in Nat, lastYieldClaim \in Nat, lastYieldClaim <= now
    PROVE  DaysElapsed \in Nat /\ lastYieldClaim + DaysElapsed * SecondsInDay <= now
<1>1. CASE now > lastYieldClaim
  <2>1. now - lastYieldClaim \in Nat
    BY <1>1
  <2>2. DaysElapsed \in Nat /\ DaysElapsed * SecondsInDay <= now - lastYieldClaim
    BY <1>1, <2>1, FloorDivision, Units DEF DaysElapsed
  <2>3. DaysElapsed * SecondsInDay \in Nat
    BY <2>2, ProductIsNatural, Units
  <2>4. QED
    BY <2>2, <2>3
<1>2. CASE ~(now > lastYieldClaim)
  BY <1>2, Units DEF DaysElapsed
<1>3. QED
  BY <1>1, <1>2

(* What one unit of pending_yield is in the unscaled units of pendingEarnings. *)
YieldScale == BpsWhole * BpsWhole * DaysPerYear

LEMMA ScaleIsNatural == YieldScale \in Nat
  BY ProductIsNatural, Units DEF YieldScale

(* The daily yield, rounded three times, is at most the product of books and rates.            *)
LEMMA DailyYieldRoundsDown ==
    ASSUME totalDeposits \in Nat, usxAllocation \in Nat, apy \in Nat
    PROVE  /\ DailyYield \in Nat
           /\ DailyYield * YieldScale <= totalDeposits * usxAllocation * apy
<1> DEFINE deployed == totalDeposits * usxAllocation
           yearly   == (Allocated * apy) \div BpsWhole
<1>1. deployed \in Nat
  BY ProductIsNatural
<1>2. Allocated \in Nat /\ Allocated * BpsWhole <= deployed
  BY <1>1, FloorDivision, Units DEF Allocated
<1>3. Allocated * apy \in Nat
  BY <1>2, ProductIsNatural
<1>4. yearly \in Nat /\ yearly * BpsWhole <= Allocated * apy
  BY <1>3, FloorDivision, Units
<1>5. DailyYield \in Nat /\ DailyYield * DaysPerYear <= yearly
  BY <1>4, FloorDivision, Units DEF DailyYield
<1>6. DailyYield * YieldScale <= deployed * apy
  <2> HIDE DEF deployed, yearly
  <2>1. DailyYield * DaysPerYear \in Nat /\ BpsWhole * BpsWhole \in Nat
    BY <1>5, ProductIsNatural, Units
  <2>2. DailyYield * YieldScale = (DailyYield * DaysPerYear) * (BpsWhole * BpsWhole)
    <3>1. DailyYield * YieldScale = (DailyYield * (BpsWhole * BpsWhole)) * DaysPerYear
      BY <1>5, <2>1, ProductIsAssociative, Units DEF YieldScale
    <3>2. QED
      BY <3>1, <1>5, <2>1, ProductIsAssociative, Units
  <2>3. (DailyYield * DaysPerYear) * (BpsWhole * BpsWhole) <= yearly * (BpsWhole * BpsWhole)
    BY <1>4, <1>5, <2>1, ProductIsMonotone
  <2>4. yearly * (BpsWhole * BpsWhole) = (yearly * BpsWhole) * BpsWhole
    BY <1>4, ProductIsAssociative, Units
  <2>5. (yearly * BpsWhole) * BpsWhole <= (Allocated * apy) * BpsWhole
    BY <1>3, <1>4, ProductIsNatural, ProductIsMonotone, Units
  <2>6. (Allocated * apy) * BpsWhole = (Allocated * BpsWhole) * apy
    BY <1>2, ProductIsAssociative, Units
  <2>7. (Allocated * BpsWhole) * apy <= deployed * apy
    BY <1>1, <1>2, ProductIsNatural, ProductIsMonotone, Units
  <2>8. /\ DailyYield * YieldScale \in Nat /\ yearly * (BpsWhole * BpsWhole) \in Nat
        /\ (Allocated * apy) * BpsWhole \in Nat /\ deployed * apy \in Nat
    BY <1>1, <1>3, <1>4, <1>5, <2>1, ScaleIsNatural, ProductIsNatural, Units
  <2>9. QED
    BY <2>2, <2>3, <2>4, <2>5, <2>6, <2>7, <2>8
<1>7. QED
  BY <1>5, <1>6

-----------------------------------------------------------------------------
(* The inductive invariant: the three invariants of the run need each other's types. *)
YieldInv == YieldTypeOK /\ NoDoubleAccrual /\ YieldWithinEarnings

LEMMA YieldInvInit == YieldInit => YieldInv
<1> SUFFICES ASSUME YieldInit PROVE YieldInv
  OBVIOUS
<1>1. YieldTypeOK
  BY Units, BooksStartEmpty DEF YieldInit, YieldTypeOK, Times
<1>2. NoDoubleAccrual
  BY Units DEF YieldInit, NoDoubleAccrual
<1>3. YieldWithinEarnings
  BY ScaleIsNatural DEF YieldInit, YieldWithinEarnings, YieldScale
<1>4. QED
  BY <1>1, <1>2, <1>3 DEF YieldInv

(* The types of the variables as plain facts about numbers. *)
LEMMA YieldDomains ==
    ASSUME YieldInv
    PROVE  /\ now \in Nat /\ lastYieldClaim \in Nat /\ lastYieldClaim <= now /\ now <= MaxTime
           /\ totalDeposits \in Nat /\ usxAllocation \in Nat /\ apy \in Nat
           /\ pendingYield \in Nat /\ creditedDays \in Nat /\ pendingEarnings \in Nat
  BY Units DEF YieldInv, YieldTypeOK, NoDoubleAccrual, Times

LEMMA ProcessYieldStep ==
    ASSUME YieldInv, ProcessYield, UNCHANGED <<now, totalDeposits>>
    PROVE  YieldInv'
<1> DEFINE earned == totalDeposits * usxAllocation * apy
<1>1. DaysElapsed \in Nat /\ lastYieldClaim + DaysElapsed * SecondsInDay <= now
  BY YieldDomains, DaysElapsedRoundDown
<1>2. DailyYield \in Nat /\ DailyYield * YieldScale <= earned
  BY YieldDomains, DailyYieldRoundsDown
<1>3. earned \in Nat
  BY YieldDomains, ProductIsNatural
<1> HIDE DEF earned
<1>4. /\ DaysElapsed * SecondsInDay \in Nat /\ DailyYield * DaysElapsed \in Nat
      /\ earned * DaysElapsed \in Nat
  BY <1>1, <1>2, <1>3, ProductIsNatural, Units
<1>5. /\ lastYieldClaim' = lastYieldClaim + DaysElapsed * SecondsInDay
      /\ creditedDays' = creditedDays + DaysElapsed
      /\ pendingYield' = pendingYield + DailyYield * DaysElapsed
      /\ pendingEarnings' = pendingEarnings + earned * DaysElapsed
  BY DEF ProcessYield, AdvanceClaim, earned
<1>6. YieldTypeOK'
  <2>1. lastYieldClaim' \in Times
    BY <1>1, <1>4, <1>5, YieldDomains, Units DEF Times
  <2>2. pendingYield' \in 0 .. MaxU64
    BY <1>4, <1>5, YieldDomains, Units DEF ProcessYield, YieldFits, FitsU64
  <2>3. creditedDays' \in Nat /\ pendingEarnings' \in Nat
    BY <1>1, <1>4, <1>5, YieldDomains
  <2>4. QED
    BY <2>1, <2>2, <2>3 DEF YieldInv, YieldTypeOK, ProcessYield, rateVars
<1>7. NoDoubleAccrual'
  <2>1. (creditedDays + DaysElapsed) * SecondsInDay
           = creditedDays * SecondsInDay + DaysElapsed * SecondsInDay
    BY <1>1, YieldDomains, ProductDistributes, Units
  <2>2. creditedDays * SecondsInDay <= lastYieldClaim /\ creditedDays * SecondsInDay \in Nat
    BY YieldDomains, ProductIsNatural, Units DEF YieldInv, NoDoubleAccrual
  <2>3. QED
    BY <1>1, <1>4, <1>5, <2>1, <2>2, YieldDomains DEF NoDoubleAccrual
<1>8. YieldWithinEarnings'
  <2>1. (pendingYield + DailyYield * DaysElapsed) * YieldScale
           = pendingYield * YieldScale + (DailyYield * DaysElapsed) * YieldScale
    BY <1>4, YieldDomains, ScaleIsNatural, ProductDistributes
  <2>2. (DailyYield * DaysElapsed) * YieldScale = (DailyYield * YieldScale) * DaysElapsed
    BY <1>1, <1>2, ScaleIsNatural, ProductIsAssociative
  <2>3. (DailyYield * YieldScale) * DaysElapsed <= earned * DaysElapsed
    BY <1>1, <1>2, <1>3, ScaleIsNatural, ProductIsNatural, ProductIsMonotone
  <2>4. pendingYield * YieldScale <= pendingEarnings
    BY DEF YieldInv, YieldWithinEarnings, YieldScale
  <2>5. /\ pendingYield * YieldScale \in Nat
        /\ (DailyYield * DaysElapsed) * YieldScale \in Nat
    BY <1>4, YieldDomains, ScaleIsNatural, ProductIsNatural
  <2>6. pendingYield' * YieldScale <= pendingEarnings'
    BY <1>4, <1>5, <2>1, <2>2, <2>3, <2>4, <2>5, YieldDomains
  <2>7. QED
    BY <2>6 DEF YieldWithinEarnings, YieldScale
<1>9. QED
  BY <1>6, <1>7, <1>8 DEF YieldInv

LEMMA DistributeYieldStep ==
    ASSUME YieldInv, DistributeYield, UNCHANGED <<now, totalDeposits>>
    PROVE  YieldInv'
<1>1. YieldTypeOK'
  BY Units DEF YieldInv, YieldTypeOK, DistributeYield, rateVars
<1>2. NoDoubleAccrual'
  <2>1. creditedDays * SecondsInDay \in Nat /\ creditedDays * SecondsInDay <= lastYieldClaim
    BY YieldDomains, ProductIsNatural, Units DEF YieldInv, NoDoubleAccrual
  <2>2. QED
    BY <2>1, YieldDomains DEF DistributeYield, NoDoubleAccrual
<1>3. YieldWithinEarnings'
  <2>1. 0 * YieldScale = 0
    BY ScaleIsNatural
  <2>2. QED
    BY <2>1 DEF DistributeYield, YieldWithinEarnings, YieldScale
<1>4. QED
  BY <1>1, <1>2, <1>3 DEF YieldInv

LEMMA SyncYieldStep ==
    ASSUME YieldInv, SyncYield, UNCHANGED <<now, totalDeposits>>
    PROVE  YieldInv'
<1>1. YieldTypeOK'
  BY DEF YieldInv, YieldTypeOK, SyncYield, rateVars
<1>2. NoDoubleAccrual'
  <2>1. creditedDays * SecondsInDay \in Nat /\ creditedDays * SecondsInDay <= lastYieldClaim
    BY YieldDomains, ProductIsNatural, Units DEF YieldInv, NoDoubleAccrual
  <2>2. QED
    BY <2>1, YieldDomains DEF SyncYield, NoDoubleAccrual
<1>3. YieldWithinEarnings'
  BY DEF YieldInv, SyncYield, YieldWithinEarnings
<1>4. QED
  BY <1>1, <1>2, <1>3 DEF YieldInv

(* Neither a change of the rates, nor time, nor deposits and redemptions touch the accrual. *)
LEMMA OtherSteps ==
    ASSUME YieldInv,
           UNCHANGED accrualVars,
           now' \in Times, now <= now',
           totalDeposits' \in Books, usxAllocation' \in Allocations, apy' \in Rates
    PROVE  YieldInv'
<1>1. YieldTypeOK'
  BY DEF YieldInv, YieldTypeOK, accrualVars
<1>2. NoDoubleAccrual'
  <2>1. lastYieldClaim <= now'
    BY YieldDomains, Units
  <2>2. QED
    BY <2>1 DEF YieldInv, NoDoubleAccrual, accrualVars
<1>3. YieldWithinEarnings'
  BY DEF YieldInv, YieldWithinEarnings, accrualVars
<1>4. QED
  BY <1>1, <1>2, <1>3 DEF YieldInv

(* No day is credited twice or early, and rounding adds no yield that was not earned, whatever *)
(* the order and the delay of process_yield, distribute_yield, sync_yield and update_config.   *)
THEOREM YieldInvariant == YieldSpec => []YieldInv
<1>1. YieldInv /\ [YieldNext]_yieldVars => YieldInv'
  <2> SUFFICES ASSUME YieldInv, [YieldNext]_yieldVars PROVE YieldInv'
    OBVIOUS
  <2>1. /\ now \in Times /\ now \in Nat /\ totalDeposits \in Books
        /\ usxAllocation \in Allocations /\ apy \in Rates
    BY YieldDomains DEF YieldInv, YieldTypeOK
  <2>2. CASE ProcessYield /\ UNCHANGED <<now, totalDeposits>>
    BY <2>2, ProcessYieldStep
  <2>3. CASE DistributeYield /\ UNCHANGED <<now, totalDeposits>>
    BY <2>3, DistributeYieldStep
  <2>4. CASE SyncYield /\ UNCHANGED <<now, totalDeposits>>
    BY <2>4, SyncYieldStep
  <2>5. ASSUME NEW a \in Allocations, NEW r \in Rates, NEW cap \in Allocations \cup {NoAccount},
               UpdateRates(a, r, cap), UNCHANGED <<now, totalDeposits>>
        PROVE  YieldInv'
    BY <2>1, <2>5, OtherSteps DEF UpdateRates
  <2>6. CASE Tick /\ UNCHANGED <<totalDeposits, rateVars, accrualVars>>
    <3>1. now' \in Times /\ now <= now'
      BY <2>1, <2>6, Units DEF Tick, Times
    <3>2. QED
      BY <2>1, <2>6, <3>1, OtherSteps DEF rateVars
  <2>7. CASE BooksMove
    BY <2>1, <2>7, OtherSteps DEF BooksMove, rateVars
  <2>8. CASE UNCHANGED yieldVars
    BY <2>1, <2>8, OtherSteps DEF yieldVars, rateVars
  <2>9. QED
    BY <2>2, <2>3, <2>4, <2>5, <2>6, <2>7, <2>8 DEF YieldNext, YieldInstruction
<1>2. QED
  BY <1>1, YieldInvInit, PTL DEF YieldSpec

(* The yield accounts keep their types, and pending_yield its width. *)
THEOREM YieldTypeCorrect == YieldSpec => []YieldTypeOK
<1>1. YieldInv => YieldTypeOK
  BY DEF YieldInv
<1>2. QED
  BY <1>1, YieldInvariant, PTL

(* The days credited fit into the time up to last_yield_claim, which is never in the future. *)
THEOREM NoDayCreditedTwice == YieldSpec => []NoDoubleAccrual
<1>1. YieldInv => NoDoubleAccrual
  BY DEF YieldInv
<1>2. QED
  BY <1>1, YieldInvariant, PTL

(* pending_yield never exceeds what the books earned at the rates in force. *)
THEOREM YieldNeverExceedsEarnings == YieldSpec => []YieldWithinEarnings
<1>1. YieldInv => YieldWithinEarnings
  BY DEF YieldInv
<1>2. QED
  BY <1>1, YieldInvariant, PTL

-----------------------------------------------------------------------------
(* The reserve.                                                                                *)
LEMMA ReserveDomains ==
    /\ MaxTime \in Nat /\ Times \subseteq Nat /\ 0 \in Times
    /\ NoAccount \notin RwaAssetRegistry /\ NoAccount \notin VaultMandate
    /\ NoAccount \notin ReserveAttestation
  BY MaxTimeAssumption, NoReserveAccountAssumption DEF Times

(* No attestation is dated in the future. *)
AttestationNotAhead == attestation # NoAccount => attestation.attestedAt <= now

(* The inductive invariant.  A refresh stamps the registry with `now`, so that an attestation  *)
(* it leaves behind is no younger only because attestations are not dated ahead.               *)
ReserveInv == ReserveTypeOK /\ AttestationNotAhead /\ MismatchMeansRefresh

LEMMA ReserveInvInit == ReserveInit => ReserveInv
  BY ReserveDomains
     DEF ReserveInit, ReserveInv, ReserveTypeOK, AttestationNotAhead, MismatchMeansRefresh

(* Each instruction that writes the registry stamps it, or opens it. *)
LEMMA RegistryStep ==
    ASSUME ReserveInv, UNCHANGED <<now, mandate, attestation, usxAccounts>>,
           registry' \in RwaAssetRegistry,
           registry'.lastVerifiedAt = now
    PROVE  ReserveInv'
<1>1. ReserveTypeOK'
  BY DEF ReserveInv, ReserveTypeOK
<1>2. AttestationNotAhead'
  BY DEF ReserveInv, AttestationNotAhead
<1>3. MismatchMeansRefresh'
  BY <1>1, ReserveDomains
     DEF ReserveInv, ReserveTypeOK, AttestationNotAhead, MismatchMeansRefresh
<1>4. QED
  BY <1>1, <1>2, <1>3 DEF ReserveInv

LEMMA PostAttestationStep ==
    ASSUME ReserveInv, NEW h \in LinkHashes, NEW g \in GoldUnits, PostAttestation(h, g),
           UNCHANGED now
    PROVE  ReserveInv'
<1>1. now \in Times /\ now \in Nat
  BY ReserveDomains DEF ReserveInv, ReserveTypeOK
<1>2. /\ attestation' \in ReserveAttestation
      /\ attestation'.hash = registry.linkHash /\ attestation'.attestedAt = now
  BY <1>1 DEF PostAttestation, ReserveAttestation
<1>3. ReserveTypeOK'
  BY <1>2 DEF PostAttestation, ReserveInv, ReserveTypeOK
<1>4. AttestationNotAhead'
  BY <1>1, <1>2 DEF AttestationNotAhead
<1>5. MismatchMeansRefresh'
  BY <1>2 DEF PostAttestation, MismatchMeansRefresh
<1>6. QED
  BY <1>3, <1>4, <1>5 DEF ReserveInv

(* The mandate and the yield accounts play no part in it. *)
LEMMA MandateStep ==
    ASSUME ReserveInv, UNCHANGED <<now, registry, attestation>>,
           mandate' \in VaultMandate \cup {NoAccount}, usxAccounts' \subseteq YieldAccounts
    PROVE  ReserveInv'
<1>1. ReserveTypeOK'
  BY DEF ReserveInv, ReserveTypeOK
<1>2. QED
  BY <1>1 DEF ReserveInv, AttestationNotAhead, MismatchMeansRefresh

LEMMA TickStep ==
    ASSUME ReserveInv, Tick, UNCHANGED reserveVars
    PROVE  ReserveInv'
<1>1. now \in Nat /\ now' \in Times /\ now' = now + 1
  BY ReserveDomains DEF ReserveInv, ReserveTypeOK, Tick, Times
<1>2. ReserveTypeOK'
  BY <1>1 DEF ReserveInv, ReserveTypeOK, reserveVars
<1>3. AttestationNotAhead'
  <2>1. attestation # NoAccount => attestation.attestedAt \in Nat
    BY ReserveDomains DEF ReserveInv, ReserveTypeOK, ReserveAttestation
  <2>2. QED
    BY <1>1, <2>1 DEF ReserveInv, AttestationNotAhead, reserveVars
<1>4. MismatchMeansRefresh'
  BY DEF ReserveInv, MismatchMeansRefresh, reserveVars
<1>5. QED
  BY <1>2, <1>3, <1>4 DEF ReserveInv

THEOREM ReserveInvariant == ReserveSpec => []ReserveInv
<1>1. ReserveInv /\ [ReserveNext]_<<now, reserveVars>> => ReserveInv'
  <2> SUFFICES ASSUME ReserveInv, [ReserveNext]_<<now, reserveVars>> PROVE ReserveInv'
    OBVIOUS
  <2>1. /\ now \in Times
        /\ registry # NoAccount => registry \in RwaAssetRegistry
        /\ mandate # NoAccount => mandate \in VaultMandate
        /\ mandate \in VaultMandate \cup {NoAccount} /\ usxAccounts \subseteq YieldAccounts
    BY DEF ReserveInv, ReserveTypeOK
  <2>2. ASSUME NEW h \in LinkHashes, InitRegistry(h) \/ UpdateRegistry(h), UNCHANGED now
        PROVE  ReserveInv'
    <3>1. registry' = [linkHash |-> h, lastVerifiedAt |-> now]
      BY <2>2 DEF InitRegistry, UpdateRegistry
    <3>2. registry' \in RwaAssetRegistry /\ registry'.lastVerifiedAt = now
      BY <2>1, <3>1 DEF RwaAssetRegistry
    <3>3. QED
      BY <2>2, <3>2, RegistryStep DEF InitRegistry, UpdateRegistry
  <2>3. ASSUME StampRegistry, UNCHANGED now
        PROVE  ReserveInv'
    <3>1. registry' \in RwaAssetRegistry /\ registry'.lastVerifiedAt = now
      BY <2>1, <2>3 DEF StampRegistry, RwaAssetRegistry
    <3>2. QED
      BY <2>3, <3>1, RegistryStep DEF StampRegistry
  <2>4. ASSUME NEW b \in MandateShares, NEW c \in MandateShares, NEW r \in CollateralRatios,
               NEW e \in BOOLEAN, InitMandate(b, c, r, e), UNCHANGED now
        PROVE  ReserveInv'
    <3>1. mandate' \in VaultMandate
      BY <2>4 DEF InitMandate, VaultMandate
    <3>2. QED
      BY <2>1, <2>4, <3>1, MandateStep DEF InitMandate
  <2>5. ASSUME NEW e \in BOOLEAN, SetEnforcement(e), UNCHANGED now
        PROVE  ReserveInv'
    <3>1. mandate' \in VaultMandate
      BY <2>1, <2>5 DEF SetEnforcement, VaultMandate
    <3>2. QED
      BY <2>1, <2>5, <3>1, MandateStep DEF SetEnforcement
  <2>6. ASSUME NEW h \in LinkHashes, NEW g \in GoldUnits, PostAttestation(h, g), UNCHANGED now
        PROVE  ReserveInv'
    BY <2>6, PostAttestationStep
  <2>7. ASSUME NEW accounts \in SUBSET YieldAccounts, RegisterUsxAccounts(accounts), UNCHANGED now
        PROVE  ReserveInv'
    BY <2>1, <2>7, MandateStep DEF RegisterUsxAccounts
  <2>8. CASE Tick /\ UNCHANGED reserveVars
    BY <2>8, TickStep
  <2>9. CASE UNCHANGED <<now, reserveVars>>
    BY <2>1, <2>9, MandateStep DEF reserveVars
  <2>10. QED
    BY <2>2, <2>3, <2>4, <2>5, <2>6, <2>7, <2>8, <2>9 DEF ReserveNext, ReserveInstruction
<1>2. QED
  BY <1>1, ReserveInvInit, PTL DEF ReserveSpec

(* The registry, mandate, attestation and yield accounts keep their types. *)
THEOREM ReserveTypeCorrect == ReserveSpec => []ReserveTypeOK
<1>1. ReserveInv => ReserveTypeOK
  BY DEF ReserveInv
<1>2. QED
  BY <1>1, ReserveInvariant, PTL

(* An attestation whose hash is not the registered one is older than the last refresh. *)
THEOREM MismatchAlwaysMeansRefresh == ReserveSpec => []MismatchMeansRefresh
<1>1. ReserveInv => MismatchMeansRefresh
  BY DEF ReserveInv
<1>2. QED
  BY <1>1, ReserveInvariant, PTL
=============================================================================
