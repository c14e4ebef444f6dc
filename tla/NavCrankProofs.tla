--------------------------- MODULE NavCrankProofs ---------------------------
(***************************************************************************)
(* Proofs about NavCrank: its types, and the guard on the updates of the   *)
(* NAV, for any number of overlapping runs, any quotes and restarts.       *)
(***************************************************************************)
EXTENDS NavCrank, TLAPS

(* A run that is about to write, and that nobody has overtaken, knows the chain's NAV: its own  *)
(* is within the guard of it.  WritesWithinGuard rests on this.                                *)
SenderWithinGuard ==
    \A r \in Runs :
        run[r].pc \in {"sending", "orphaned"} /\ ~run[r].overtaken
          => Distance(run[r].nav, chainNav) <= MaxNavChange

CrankInv == CrankTypeOK /\ SenderWithinGuard

-----------------------------------------------------------------------------
(* The clamp of computeNavBps keeps every integer within its bounds. *)
LEMMA ClampedInRange ==
    ASSUME NEW n \in Int PROVE Clamped(n) \in MinNav .. MaxNav
  BY NavBoundsAssumption DEF Clamped

(* computeNavBps yields a NAV within the clamp, with or without a price and a baseline. *)
LEMMA NavForInRange ==
    ASSUME NEW p \in Quotes \cup {NoPrice}, NEW b \in Quotes \cup {NoPrice}
    PROVE  NavFor(p, b) \in MinNav .. MaxNav
<1>1. CASE p = NoPrice \/ b = NoPrice
  <2>1. Denominator \in Int
    BY NavBoundsAssumption
  <2> QED BY <1>1, <2>1, ClampedInRange DEF NavFor
<1>2. CASE ~(p = NoPrice \/ b = NoPrice)
  <2>1. p \in Nat /\ b \in Nat \ {0} /\ WeightSix \in Nat /\ Denominator \in Nat
    BY <1>2, QuotesAssumption, NavBoundsAssumption
  <2> DEFINE weighted == 2 * WeightSix * p + b
  <2>2. weighted \in Int /\ 2 * b \in Nat \ {0}
    BY <2>1
  <2>3. weighted \div (2 * b) \in Int
    BY <2>2
  <2>4. weighted \div (2 * b) + (Denominator - WeightSix) \in Int
    BY <2>1, <2>3
  <2> QED BY <1>2, <2>4, ClampedInRange DEF NavFor
<1> QED BY <1>1, <1>2

(* A run with a NAV to write has one within the clamp, and stays a run whatever happens to it. *)
LEMMA SenderFields ==
    ASSUME NEW x \in Run, x.pc \in {"sending", "orphaned", "landed"}
    PROVE  /\ x \in [pc : {"sending", "orphaned", "landed"}, nav : MinNav .. MaxNav,
                     overtaken : BOOLEAN]
           /\ x.nav \in MinNav .. MaxNav
           /\ x.overtaken \in BOOLEAN
           /\ [x EXCEPT !.overtaken = TRUE] \in Run
           /\ \A pc \in {"sending", "orphaned", "landed"} : [x EXCEPT !.pc = pc] \in Run
<1>1. x \in [pc : {"sending", "orphaned", "landed"}, nav : MinNav .. MaxNav, overtaken : BOOLEAN]
  BY DEF Run, Idle
<1> QED BY <1>1 DEF Run

(* What the guards of a run decide is a run, and one that will write is within the guard of the *)
(* NAV it read.                                                                                *)
LEMMA DecisionIsGuarded ==
    ASSUME NEW n \in MinNav .. MaxNav, NEW c, NEW i \in BOOLEAN
    PROVE  LET d == Decision(n, c, i) IN
             /\ d \in Run
             /\ d.pc \in {"idle", "recording", "sending"}
             /\ d.pc = "sending" => i /\ d.nav = n /\ ~(Distance(n, c) > MaxNavChange)
  BY DEF Decision, Run, Idle

-----------------------------------------------------------------------------
LEMMA InitEstablishes == CrankInit => CrankInv
<1> SUFFICES ASSUME CrankInit PROVE CrankInv
  OBVIOUS
<1>1. CrankTypeOK
  BY QuotesAssumption, NavBoundsAssumption, CronAssumption, BoundsAssumption
     DEF CrankInit, CrankTypeOK, Run, Idle, Snapshot
<1>2. SenderWithinGuard
  BY DEF CrankInit, SenderWithinGuard, Idle
<1> QED BY <1>1, <1>2 DEF CrankInv

-----------------------------------------------------------------------------
(* A step of one run that leaves the chain alone. *)
LEMMA LocalStep ==
    ASSUME CrankInv, NEW r \in Runs, NEW a \in Run,
           run' = [run EXCEPT ![r] = a], chainNav' = chainNav,
           a.pc \in {"sending", "orphaned"} /\ ~a.overtaken
             => Distance(a.nav, chainNav) <= MaxNavChange
    PROVE  run' \in [Runs -> Run] /\ SenderWithinGuard'
<1>1. run \in [Runs -> Run]
  BY DEF CrankInv, CrankTypeOK
<1>2. run' \in [Runs -> Run]
  BY <1>1
<1>3. ASSUME NEW q \in Runs, run'[q].pc \in {"sending", "orphaned"}, ~run'[q].overtaken
      PROVE  Distance(run'[q].nav, chainNav') <= MaxNavChange
  <2>1. CASE q = r
    <3>1. run'[q] = a
      BY <1>1, <2>1
    <3> QED BY <1>3, <3>1 DEF Distance
  <2>2. CASE q # r
    <3>1. run'[q] = run[q]
      BY <1>1, <2>2
    <3> QED BY <1>3, <3>1 DEF CrankInv, SenderWithinGuard, Distance
  <2> QED BY <2>1, <2>2
<1> QED BY <1>2, <1>3 DEF SenderWithinGuard

(* A write of the chain's NAV: it overtakes every run that has read the NAV before, so that the *)
(* invariant asks nothing of them any more; and the writer, unless overtaken itself, keeps      *)
(* within the guard.                                                                           *)
LEMMA WriteStep ==
    ASSUME CrankInv, NEW r \in Runs, run[r].pc \in {"sending", "orphaned"},
           NEW a \in Run, a.pc \in {"idle", "landed"}, WriteNav(r, a)
    PROVE  /\ chainNav' \in MinNav .. MaxNav
           /\ run' \in [Runs -> Run]
           /\ SenderWithinGuard'
           /\ Distance(chainNav', chainNav) > MaxNavChange => Overtaken(chainNav')
<1>1. run \in [Runs -> Run] /\ chainNav \in MinNav .. MaxNav
  BY DEF CrankInv, CrankTypeOK
<1>2. chainNav' = run[r].nav
  BY DEF WriteNav
<1>3. run[r].nav \in MinNav .. MaxNav /\ run[r].overtaken \in BOOLEAN
  BY <1>1, SenderFields
<1>4. run' = [q \in Runs |-> IF q = r THEN a
                            ELSE IF run[q].pc \in {"sending", "orphaned"}
                                 THEN [run[q] EXCEPT !.overtaken = TRUE]
                                 ELSE run[q]]
  BY DEF WriteNav
<1>5. ASSUME NEW q \in Runs
      PROVE  /\ run'[q] \in Run
             /\ run'[q].pc \in {"sending", "orphaned"} => run'[q].overtaken
  <2>1. CASE q = r
    <3>1. run'[q] = a
      BY <1>4, <2>1
    <3> QED BY <3>1
  <2>2. CASE q # r /\ run[q].pc \in {"sending", "orphaned"}
    <3>1. run'[q] = [run[q] EXCEPT !.overtaken = TRUE]
      BY <1>4, <2>2
    <3>2. /\ run[q] \in [pc : {"sending", "orphaned", "landed"}, nav : MinNav .. MaxNav,
                          overtaken : BOOLEAN]
          /\ [run[q] EXCEPT !.overtaken = TRUE] \in Run
      <4>1. run[q] \in Run /\ run[q].pc \in {"sending", "orphaned", "landed"}
        BY <1>1, <2>2
      <4> QED BY ONLY <4>1, SenderFields
    <3>3. run'[q].overtaken
      BY <3>1, <3>2
    <3> QED BY <3>1, <3>2, <3>3
  <2>3. CASE q # r /\ run[q].pc \notin {"sending", "orphaned"}
    <3>1. run'[q] = run[q]
      BY <1>4, <2>3
    <3> QED BY <1>1, <2>3, <3>1
  <2> QED BY <2>1, <2>2, <2>3
<1>6. run' \in [Runs -> Run]
  BY <1>4, <1>5
<1>7. SenderWithinGuard'
  BY <1>5 DEF SenderWithinGuard
<1>8. ASSUME Distance(chainNav', chainNav) > MaxNavChange PROVE Overtaken(chainNav')
  <2>1. Distance(run[r].nav, chainNav) > MaxNavChange
    BY <1>2, <1>8
  <2>2. Distance(run[r].nav, chainNav) \in Int
    BY <1>1, <1>3, NavBoundsAssumption DEF Distance
  <2>3. run[r].overtaken
    BY <2>1, <2>2, NavBoundsAssumption DEF CrankInv, SenderWithinGuard
  <2> QED BY <1>2, <2>3 DEF Overtaken
<1> QED BY <1>2, <1>3, <1>6, <1>7, <1>8

(* From the answer of readVaultState to the next await: only a run that has read the NAV itself *)
(* goes on to write.                                                                           *)
LEMMA DecideKeepsInv ==
    ASSUME CrankInv, NEW r \in Runs, NEW c, NEW i \in BOOLEAN, Decide(r, c, i), i => c = chainNav
    PROVE  CrankInv'
<1>1. run \in [Runs -> Run] /\ chainNav \in MinNav .. MaxNav /\ baseline \in Quotes \cup {NoPrice}
  BY DEF CrankInv, CrankTypeOK
<1>2. run[r].price \in Quotes \cup {NoPrice}
  BY <1>1 DEF Decide, Run, Idle
<1>3. baseline' \in Quotes \cup {NoPrice}
  BY <1>1, <1>2 DEF Decide
<1> DEFINE n == NavFor(run[r].price, baseline')
           d == Decision(n, c, i)
<1>4. n \in MinNav .. MaxNav
  BY <1>2, <1>3, NavForInRange
<1> HIDE DEF n
<1>5. d \in Run /\ d.pc \in {"idle", "recording", "sending"}
      /\ (d.pc = "sending" => i /\ d.nav = n /\ ~(Distance(n, c) > MaxNavChange))
  BY <1>4, DecisionIsGuarded
<1> HIDE DEF d
<1>6. run' = [run EXCEPT ![r] = d] /\ chainNav' = chainNav
  BY DEF Decide, n, d
<1>7. d.pc \in {"sending", "orphaned"} => Distance(d.nav, chainNav) <= MaxNavChange
  <2>1. Distance(n, chainNav) \in Int /\ MaxNavChange \in Int
    BY <1>1, <1>4, NavBoundsAssumption DEF Distance
  <2> QED BY <1>5, <2>1
<1>8. run' \in [Runs -> Run] /\ SenderWithinGuard'
  BY <1>5, <1>6, <1>7, LocalStep
<1>9. CrankTypeOK'
  BY <1>3, <1>6, <1>8 DEF CrankInv, CrankTypeOK, Decide
<1> QED BY <1>8, <1>9 DEF CrankInv

-----------------------------------------------------------------------------
LEMMA StepKeepsInv ==
    ASSUME CrankInv, [CrankNext]_crankVars
    PROVE  /\ CrankInv'
           /\ Distance(chainNav', chainNav) > MaxNavChange => Overtaken(chainNav')
<1>1. run \in [Runs -> Run] /\ chainNav \in MinNav .. MaxNav
  BY DEF CrankInv, CrankTypeOK
<1>2. Idle \in Run /\ Idle.pc = "idle"
  BY DEF Run, Idle
<1>3. ASSUME chainNav' = chainNav PROVE ~(Distance(chainNav', chainNav) > MaxNavChange)
  BY <1>1, <1>3, NavBoundsAssumption DEF Distance
<1>4. ASSUME NEW r \in Runs, Start(r) PROVE CrankInv' /\ chainNav' = chainNav
  <2> DEFINE a == [pc |-> "fetching"]
  <2>1. a \in Run /\ a.pc \notin {"sending", "orphaned"}
    BY DEF Run
  <2>2. run' = [run EXCEPT ![r] = a] /\ chainNav' = chainNav
    BY <1>4 DEF Start
  <2>3. run' \in [Runs -> Run] /\ SenderWithinGuard'
    BY <2>1, <2>2, LocalStep
  <2>4. CrankTypeOK'
    BY <1>4, <2>3, CronAssumption DEF Start, CrankInv, CrankTypeOK, memory
  <2> QED BY <2>2, <2>3, <2>4 DEF CrankInv
<1>5. ASSUME NEW r \in Runs, FetchQuote(r) PROVE CrankInv' /\ chainNav' = chainNav
  <2> DEFINE a == [pc |-> "reading", price |-> market]
  <2>1. a \in Run /\ a.pc \notin {"sending", "orphaned"}
    BY DEF CrankInv, CrankTypeOK, Run
  <2>2. run' = [run EXCEPT ![r] = a] /\ chainNav' = chainNav
    BY <1>5 DEF FetchQuote
  <2>3. run' \in [Runs -> Run] /\ SenderWithinGuard'
    BY <2>1, <2>2, LocalStep
  <2>4. CrankTypeOK'
    BY <1>5, <2>3 DEF FetchQuote, CrankInv, CrankTypeOK
  <2> QED BY <2>2, <2>3, <2>4 DEF CrankInv
<1>6. ASSUME NEW r \in Runs, FetchFails(r) PROVE CrankInv' /\ chainNav' = chainNav
  <2> DEFINE a == [pc |-> "reading", price |-> lastPrice]
  <2>1. a \in Run /\ a.pc \notin {"sending", "orphaned"}
    BY DEF CrankInv, CrankTypeOK, Run
  <2>2. run' = [run EXCEPT ![r] = a] /\ chainNav' = chainNav
    BY <1>6 DEF FetchFails
  <2>3. run' \in [Runs -> Run] /\ SenderWithinGuard'
    BY <2>1, <2>2, LocalStep
  <2>4. CrankTypeOK'
    BY <1>6, <2>3 DEF FetchFails, CrankInv, CrankTypeOK, memory
  <2> QED BY <2>2, <2>3, <2>4 DEF CrankInv
<1>7. ASSUME NEW r \in Runs, ReadVault(r) PROVE CrankInv' /\ chainNav' = chainNav
  <2>1. CrankInv'
    BY <1>7, DecideKeepsInv DEF ReadVault
  <2> QED BY <1>7, <2>1 DEF ReadVault, Decide
<1>8. ASSUME NEW r \in Runs, ReadFails(r) PROVE CrankInv' /\ chainNav' = chainNav
  <2>1. CrankInv'
    BY <1>8, DecideKeepsInv DEF ReadFails
  <2> QED BY <1>8, <2>1 DEF ReadFails, Decide
<1>9. ASSUME NEW r \in Runs, Land(r)
      PROVE  CrankInv' /\ (Distance(chainNav', chainNav) > MaxNavChange => Overtaken(chainNav'))
  <2> DEFINE a == [run[r] EXCEPT !.pc = "landed"]
  <2>1. run[r].pc = "sending" /\ WriteNav(r, a)
    BY <1>9 DEF Land
  <2>2. a \in Run /\ a.pc = "landed"
    <3>1. run[r] \in Run /\ run[r].pc \in {"sending", "orphaned", "landed"}
      BY <1>1, <2>1
    <3>2. a \in Run
      BY ONLY <3>1, SenderFields
    <3>3. run[r] \in [pc : {"sending", "orphaned", "landed"}, nav : MinNav .. MaxNav,
                      overtaken : BOOLEAN]
      BY ONLY <3>1, SenderFields
    <3> QED BY <3>2, <3>3
  <2> HIDE DEF a
  <2>3. /\ chainNav' \in MinNav .. MaxNav /\ run' \in [Runs -> Run] /\ SenderWithinGuard'
        /\ Distance(chainNav', chainNav) > MaxNavChange => Overtaken(chainNav')
    BY <2>1, <2>2, WriteStep
  <2>4. CrankTypeOK'
    BY <1>9, <2>3 DEF Land, CrankInv, CrankTypeOK, memory
  <2> QED BY <2>3, <2>4 DEF CrankInv
<1>10. ASSUME NEW r \in Runs, Confirm(r) \/ SendFails(r) PROVE CrankInv' /\ chainNav' = chainNav
  <2>1. PICK s \in BOOLEAN :
          run' = [run EXCEPT ![r] = [pc |-> "recording", nav |-> run[r].nav, signed |-> s]]
    BY <1>10 DEF Confirm, SendFails
  <2> DEFINE a == [pc |-> "recording", nav |-> run[r].nav, signed |-> s]
  <2>2. run[r].nav \in MinNav .. MaxNav
    BY <1>1, <1>10, SenderFields DEF Confirm, SendFails
  <2>3. a \in Run /\ a.pc \notin {"sending", "orphaned"}
    BY <2>2 DEF Run
  <2>4. run' = [run EXCEPT ![r] = a] /\ chainNav' = chainNav
    BY <1>10, <2>1 DEF Confirm, SendFails
  <2>5. run' \in [Runs -> Run] /\ SenderWithinGuard'
    BY <2>3, <2>4, LocalStep
  <2>6. CrankTypeOK'
    BY <1>10, <2>5, CronAssumption DEF Confirm, SendFails, CrankInv, CrankTypeOK, memory
  <2> QED BY <2>4, <2>5, <2>6 DEF CrankInv
<1>11. ASSUME NEW r \in Runs, Record(r) \/ RecordFails(r) \/ OrphanExpires(r)
       PROVE  CrankInv' /\ chainNav' = chainNav
  <2>1. run' = [run EXCEPT ![r] = Idle] /\ chainNav' = chainNav
    BY <1>11 DEF Record, RecordFails, OrphanExpires
  <2>2. run' \in [Runs -> Run] /\ SenderWithinGuard'
    BY <1>2, <2>1, LocalStep
  <2>3. snapshot' \in Snapshot
    <3>1. CASE Record(r)
      <4>1. run[r] \in [pc : {"recording"}, nav : MinNav .. MaxNav, signed : BOOLEAN]
        BY <1>1, <3>1 DEF Record, Run, Idle
      <4> QED BY <3>1, <4>1 DEF Record, Snapshot
    <3>2. CASE ~Record(r)
      BY <1>11, <3>2 DEF RecordFails, OrphanExpires, CrankInv, CrankTypeOK
    <3> QED BY <3>1, <3>2
  <2>4. CrankTypeOK'
    BY <1>11, <2>2, <2>3 DEF Record, RecordFails, OrphanExpires, CrankInv, CrankTypeOK, memory
  <2> QED BY <2>1, <2>2, <2>4 DEF CrankInv
<1>12. ASSUME NEW r \in Runs, OrphanLands(r)
       PROVE  CrankInv' /\ (Distance(chainNav', chainNav) > MaxNavChange => Overtaken(chainNav'))
  <2>1. /\ chainNav' \in MinNav .. MaxNav /\ run' \in [Runs -> Run] /\ SenderWithinGuard'
        /\ Distance(chainNav', chainNav) > MaxNavChange => Overtaken(chainNav')
    BY <1>2, <1>12, WriteStep DEF OrphanLands
  <2>2. CrankTypeOK'
    BY <1>12, <2>1 DEF OrphanLands, CrankInv, CrankTypeOK, memory
  <2> QED BY <2>1, <2>2 DEF CrankInv
<1>13. ASSUME Restart PROVE CrankInv' /\ chainNav' = chainNav
  <2>1. ASSUME NEW q \in Runs
        PROVE  /\ run'[q] \in Run
               /\ run'[q].pc \in {"sending", "orphaned"} =>
                    /\ run[q].pc \in {"sending", "orphaned"}
                    /\ run'[q].nav = run[q].nav /\ run'[q].overtaken = run[q].overtaken
    <3>1. CASE run[q].pc \in {"sending", "orphaned"}
      <4>1. run'[q] = [run[q] EXCEPT !.pc = "orphaned"]
        BY <1>13, <3>1 DEF Restart
      <4>2. run[q] \in Run /\ run[q].pc \in {"sending", "orphaned", "landed"}
        BY <1>1, <3>1
      <4>3. [run[q] EXCEPT !.pc = "orphaned"] \in Run
        BY ONLY <4>2, SenderFields
      <4>4. run[q] \in [pc : {"sending", "orphaned", "landed"}, nav : MinNav .. MaxNav,
                        overtaken : BOOLEAN]
        BY ONLY <4>2, SenderFields
      <4> QED BY <3>1, <4>1, <4>3, <4>4
    <3>2. CASE run[q].pc \notin {"sending", "orphaned"}
      <4>1. run'[q] = Idle
        BY <1>13, <3>2 DEF Restart
      <4> QED BY <1>2, <4>1
    <3> QED BY <3>1, <3>2
  <2>2. chainNav' = chainNav
    BY <1>13 DEF Restart
  <2>3. SenderWithinGuard'
    BY <2>1, <2>2 DEF CrankInv, SenderWithinGuard, Distance
  <2>4. run' \in [Runs -> Run]
    BY <1>13, <2>1 DEF Restart
  <2>5. CrankTypeOK'
    BY <1>13, <2>2, <2>4, BoundsAssumption, CronAssumption DEF Restart, CrankInv, CrankTypeOK
  <2> QED BY <2>2, <2>3, <2>5 DEF CrankInv
<1>14. ASSUME Minute \/ MarketMoves \/ UNCHANGED crankVars
       PROVE  CrankInv' /\ chainNav' = chainNav
  <2>1. run' = run /\ chainNav' = chainNav
    BY <1>14 DEF Minute, MarketMoves, crankVars
  <2>2. SenderWithinGuard'
    BY <2>1 DEF CrankInv, SenderWithinGuard, Distance
  <2>3. CASE Minute
    <3>1. CrankTypeOK'
      BY <2>3, CronAssumption DEF Minute, CrankInv, CrankTypeOK
    <3> QED BY <2>1, <2>2, <3>1 DEF CrankInv
  <2>4. CASE MarketMoves
    <3>1. CrankTypeOK'
      BY <2>4, BoundsAssumption DEF MarketMoves, CrankInv, CrankTypeOK, memory
    <3> QED BY <2>1, <2>2, <3>1 DEF CrankInv
  <2>5. CASE UNCHANGED crankVars
    <3>1. CrankTypeOK'
      BY <2>5 DEF crankVars, CrankInv, CrankTypeOK, memory
    <3> QED BY <2>1, <2>2, <3>1 DEF CrankInv
  <2> QED BY <1>14, <2>3, <2>4, <2>5
<1> QED
  BY <1>3, <1>4, <1>5, <1>6, <1>7, <1>8, <1>9, <1>10, <1>11, <1>12, <1>13, <1>14
     DEF CrankNext, RunStep

-----------------------------------------------------------------------------
LEMMA CrankInvariant == CrankSafetySpec => []CrankInv
<1>1. CrankInv /\ [CrankNext]_crankVars => CrankInv'
  BY StepKeepsInv
<1> QED BY InitEstablishes, <1>1, PTL DEF CrankSafetySpec

(* The crank keeps its types: whatever the quotes, the weights and the clamp, a NAV that is     *)
(* recorded or written on chain is within the clamp of computeNavBps.                          *)
THEOREM CrankTypeCorrect == CrankSpec => []CrankTypeOK
<1>1. CrankInv => CrankTypeOK
  BY DEF CrankInv
<1> QED BY CrankInvariant, <1>1, PTL DEF CrankSpec

(* However many runs overlap and however often prices, reads, answers and the process fail, an  *)
(* update of the NAV breaks the guard only if another run wrote the NAV since its own read it.  *)
THEOREM WritesAlwaysWithinGuard == CrankSpec => WritesWithinGuard
<1>1. CrankInv /\ [CrankNext]_crankVars
        => [Distance(chainNav', chainNav) > MaxNavChange => Overtaken(chainNav')]_crankVars
  BY StepKeepsInv
<1> QED BY CrankInvariant, <1>1, PTL DEF CrankSpec, CrankSafetySpec, WritesWithinGuard

-----------------------------------------------------------------------------
(* An update within the guard of the crank passes the program's, when the crank's is at most half *)
(* of the lowest NAV: 1000 of 5000 in the code.                                                *)
LEMMA GuardedIsAccepted ==
    ASSUME MaxNavChange <= MinNav \div 2, chainNav \in MinNav .. MaxNav,
           NEW n \in MinNav .. MaxNav, Distance(n, chainNav) <= MaxNavChange
    PROVE  ChainAccepts(n)
<1>1. /\ n \in Nat /\ chainNav \in Nat /\ MinNav \in Nat /\ MaxNavChange \in Nat
      /\ MinNav <= chainNav
  BY NavBoundsAssumption
<1>2. MaxNavChange <= chainNav \div 2
  BY <1>1
<1>3. n <= chainNav + MaxNavChange /\ chainNav <= n + MaxNavChange
  BY <1>1 DEF Distance
<1>4. chainNav \div 2 \in Nat /\ chainNav \div 2 <= chainNav
  BY <1>1
<1> QED BY <1>1, <1>2, <1>3, <1>4 DEF ChainAccepts

(* The program's own bound of one half refuses no update that was sent, or orphaned by a restart, *)
(* and that no other run has overtaken: such an update fails for want of the chain only.       *)
THEOREM UpdatesAcceptedUnlessOvertaken ==
    ASSUME MaxNavChange <= MinNav \div 2
    PROVE  CrankSpec => [](\A r \in Runs :
              run[r].pc \in {"sending", "orphaned"} /\ ~run[r].overtaken
                 => ChainAccepts(run[r].nav))
<1>1. CrankInv => \A r \in Runs : run[r].pc \in {"sending", "orphaned"} /\ ~run[r].overtaken
                                    => ChainAccepts(run[r].nav)
  <2> SUFFICES ASSUME CrankInv, NEW r \in Runs,
                      run[r].pc \in {"sending", "orphaned"}, ~run[r].overtaken
               PROVE  ChainAccepts(run[r].nav)
    OBVIOUS
  <2>1. run[r] \in Run /\ chainNav \in MinNav .. MaxNav
    BY DEF CrankInv, CrankTypeOK
  <2>2. run[r].nav \in MinNav .. MaxNav
    BY <2>1, SenderFields
  <2>3. Distance(run[r].nav, chainNav) <= MaxNavChange
    BY DEF CrankInv, SenderWithinGuard
  <2> QED BY <2>1, <2>2, <2>3, GuardedIsAccepted
<1> QED BY CrankInvariant, <1>1, PTL DEF CrankSpec
=============================================================================
