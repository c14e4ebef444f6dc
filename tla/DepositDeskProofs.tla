------------------------- MODULE DepositDeskProofs -------------------------
(***************************************************************************)
(* Theorems about DepositDesk, for any wallets, nonces, amounts, requests  *)
(* and signatures, any number of index requests at a time and of NAV       *)
(* updates.  The inductive invariant says what a request that is past an   *)
(* await still knows: that its transaction was executed, before the NAV    *)
(* that it read, and that what it found in the tables is still there.      *)
(***************************************************************************)
EXTENDS DepositDesk, ComplianceProofs, SequenceTheorems

(* A row as it may be entered, and may stay: nothing that it rests on is ever taken back. *)
SoundRow(row) ==
    /\ executedAt[row.tx] # NoAccount
    /\ executedAt[row.tx] <= row.navUpdate /\ row.navUpdate <= navUpdate
    /\ row.wallet \in registered
    /\ row.link # NoAccount => travelRow[row.link] # NoAccount

(* What an index request knows in each of its states. *)
SoundState(s) ==
    /\ s.pc \in {"valuing", "linking"} => executedAt[s.asked.tx] # NoAccount
    /\ s.pc = "linking" =>
          /\ executedAt[s.asked.tx] <= s.navUpdate /\ s.navUpdate <= navUpdate
          /\ s.asked.wallet \in registered
    /\ s.pc = "creating" => SoundRow(s.row)

ExecutionsDated ==
    \A tx \in Signatures : executedAt[tx] # NoAccount => executedAt[tx] <= navUpdate

WorkersSound == \A b \in Workers : SoundState(worker[b])

(* Each row is of an executed transaction, of a known institution, at a NAV that the vault has  *)
(* had since the execution, and linked to a filed travel-rule row or to none.                  *)
RowsSound == \A i \in DOMAIN depositRows : SoundRow(depositRows[i])

(* No two rows have one signature, or one reference. *)
RowsOnce ==
    \A i, j \in DOMAIN depositRows :
        \/ depositRows[i].tx = depositRows[j].tx
        \/ depositRows[i].reference = depositRows[j].reference
        => i = j

EnteredTxs == {depositRows[i].tx : i \in DOMAIN depositRows}

(* An audit event is of a row, and the only one of it. *)
AuditsOfRows ==
    \A tx \in Signatures : audited[tx] \in {0, 1} /\ (audited[tx] = 1 => tx \in EnteredTxs)

(* Who is about to write one is the only one, and there is none yet. *)
AuditsPending ==
    /\ \A b \in Workers : worker[b].pc = "auditing" =>
          audited[worker[b].tx] = 0 /\ worker[b].tx \in EnteredTxs
    /\ \A b1, b2 \in Workers :
          worker[b1].pc = "auditing" /\ worker[b2].pc = "auditing"
             /\ worker[b1].tx = worker[b2].tx => b1 = b2

DepositInv ==
    /\ ExecutionsDated
    /\ WorkersSound
    /\ RowsSound
    /\ RowsOnce
    /\ AuditsOfRows
    /\ AuditsPending

DepositReady == DepositTypeOK /\ DepositInv

-----------------------------------------------------------------------------
(* The domains of the parameters. *)
LEMMA DeskDomains ==
    /\ MaxNav \in Nat /\ NavUpdates \subseteq Nat /\ 0 \in NavUpdates
    /\ NoAccount \notin NavUpdates
    /\ LargeAmounts \subseteq DepositAmounts
    /\ \A w \in Wallets, a \in LargeAmounts : [wallet |-> w, amount |-> a] # NoAccount
  BY DeskBoundsAssumption, NoUpdateAssumption, NoRowAssumption
     DEF LargeAmounts, NavUpdates, TravelRow

(* What an index request holds in each of its states. *)
LEMMA StateShape ==
    ASSUME NEW s \in WorkerStates
    PROVE  /\ s.pc \in {"confirming", "valuing"} =>
                 /\ s.asked \in Request
                 /\ \A p : [s EXCEPT !.pc = p] = [pc |-> p, asked |-> s.asked]
           /\ s.pc = "linking" => s.asked \in Request /\ s.navUpdate \in NavUpdates
           /\ s.pc = "creating" => s.row \in DepositRow
           /\ s.pc = "auditing" => s.tx \in Signatures
<1>1. CASE s = Idle
  BY <1>1 DEF Idle
<1>2. CASE s \in [pc : {"confirming", "valuing"}, asked : Request]
  BY <1>2
<1>3. CASE s \in [pc : {"linking"}, asked : Request, navUpdate : NavUpdates]
  BY <1>3
<1>4. CASE s \in [pc : {"creating"}, row : DepositRow]
  BY <1>4
<1>5. CASE s \in [pc : {"auditing"}, tx : Signatures]
  BY <1>5
<1>6. QED
  BY <1>1, <1>2, <1>3, <1>4, <1>5 DEF WorkerStates

LEMMA WorkerShape ==
    ASSUME worker \in [Workers -> WorkerStates], NEW b \in Workers
    PROVE  /\ worker[b].pc \in {"confirming", "valuing"} =>
                 /\ worker[b].asked \in Request
                 /\ \A p : [worker[b] EXCEPT !.pc = p] = [pc |-> p, asked |-> worker[b].asked]
           /\ worker[b].pc = "linking" =>
                 worker[b].asked \in Request /\ worker[b].navUpdate \in NavUpdates
           /\ worker[b].pc = "creating" => worker[b].row \in DepositRow
           /\ worker[b].pc = "auditing" => worker[b].tx \in Signatures
<1>1. worker[b] \in WorkerStates
  OBVIOUS
<1>2. QED
  BY <1>1, StateShape

(* The states that the actions put an index request into. *)
LEMMA StatesAreTyped ==
    /\ Idle \in WorkerStates
    /\ \A p \in {"confirming", "valuing"}, asked \in Request :
          [pc |-> p, asked |-> asked] \in WorkerStates
    /\ \A asked \in Request, n \in NavUpdates :
          [pc |-> "linking", asked |-> asked, navUpdate |-> n] \in WorkerStates
    /\ \A row \in DepositRow : [pc |-> "creating", row |-> row] \in WorkerStates
    /\ \A tx \in Signatures : [pc |-> "auditing", tx |-> tx] \in WorkerStates
  BY DEF WorkerStates

LEMMA WorkerMoves ==
    ASSUME worker \in [Workers -> WorkerStates], NEW b \in Workers,
           NEW s \in WorkerStates, Works(b, s)
    PROVE  /\ worker' \in [Workers -> WorkerStates]
           /\ worker'[b] = s
           /\ \A x \in Workers : x # b => worker'[x] = worker[x]
  BY DEF Works

-----------------------------------------------------------------------------
(* What chain and tables do to an index request that they do not know of: they only grow. *)
Grows ==
    /\ \A tx \in Signatures : executedAt[tx] # NoAccount => executedAt'[tx] = executedAt[tx]
    /\ navUpdate <= navUpdate'
    /\ registered \subseteq registered'
    /\ \A n \in Nonces : travelRow[n] # NoAccount => travelRow'[n] # NoAccount

(* What was sound stays so. *)
LEMMA SoundStays ==
    ASSUME DepositTypeOK, navUpdate' \in NavUpdates, Grows
    PROVE  /\ \A row \in DepositRow : SoundRow(row) => SoundRow(row)'
           /\ \A s \in WorkerStates : SoundState(s) => SoundState(s)'
<1>1. ASSUME NEW row \in DepositRow, SoundRow(row)
      PROVE  SoundRow(row)'
  <2>1. /\ row.tx \in Signatures /\ row.link \in Nonces \cup {NoAccount}
        /\ row.navUpdate \in Nat /\ navUpdate \in Nat /\ navUpdate' \in Nat
    BY DeskDomains DEF DepositRow, DepositTypeOK
  <2>2. row.navUpdate <= navUpdate'
    BY <1>1, <2>1 DEF SoundRow, Grows
  <2>3. QED
    BY <1>1, <2>1, <2>2 DEF SoundRow, Grows
<1>2. ASSUME NEW s \in WorkerStates, SoundState(s)
      PROVE  SoundState(s)'
  <2>1. CASE s.pc = "creating"
    <3>1. s.row \in DepositRow
      BY <2>1, StateShape
    <3>2. QED
      BY <1>1, <1>2, <2>1, <3>1 DEF SoundState
  <2>2. CASE s.pc \in {"valuing", "linking"}
    <3>1. s.asked \in Request /\ s.asked.tx \in Signatures
      BY <2>2, StateShape DEF Request
    <3>2. s.pc = "linking" => s.navUpdate \in Nat
      BY StateShape, DeskDomains
    <3>3. navUpdate \in Nat /\ navUpdate' \in Nat
      BY DeskDomains DEF DepositTypeOK
    <3>4. s.pc = "linking" => s.navUpdate <= navUpdate'
      BY <1>2, <3>2, <3>3 DEF SoundState, Grows
    <3>5. QED
      BY <1>2, <2>2, <3>1, <3>4 DEF SoundState, Grows
  <2>3. CASE s.pc \notin {"valuing", "linking", "creating"}
    BY <2>3 DEF SoundState
  <2>4. QED
    BY <2>1, <2>2, <2>3
<1>3. QED
  BY <1>1, <1>2

(* A step of the chain, or of another table, while requests, rows and audit events stay.        *)
LEMMA GrowthKeeps ==
    ASSUME DepositReady, navUpdate' \in NavUpdates, Grows, ExecutionsDated',
           UNCHANGED <<depositRows, audited, worker>>
    PROVE  DepositInv'
<1>1. WorkersSound'
  <2>1. worker' = worker /\ \A b \in Workers : worker[b] \in WorkerStates
    BY DEF DepositReady, DepositTypeOK
  <2>2. QED
    BY <2>1, SoundStays DEF DepositReady, DepositInv, WorkersSound
<1>2. RowsSound'
  <2>1. \A i \in DOMAIN depositRows : depositRows[i] \in DepositRow
    BY DEF DepositReady, DepositTypeOK
  <2>2. QED
    BY <2>1, SoundStays DEF DepositReady, DepositInv, RowsSound
<1>3. (RowsOnce /\ AuditsOfRows /\ AuditsPending)'
  BY DEF DepositReady, DepositInv, RowsOnce, AuditsOfRows, AuditsPending, EnteredTxs
<1>4. QED
  BY <1>1, <1>2, <1>3 DEF DepositInv

(* An index request that moves on to a state that it has grounds for, and not to the audit. *)
LEMMA WorkerMoveKeeps ==
    ASSUME DepositReady, NEW b \in Workers, NEW s \in WorkerStates,
           SoundState(s), s.pc # "auditing", Works(b, s), OnlyWorker
    PROVE  DepositReady'
<1> USE DEF DepositReady
<1>1. /\ worker' \in [Workers -> WorkerStates]
      /\ worker'[b] = s
      /\ \A x \in Workers : x # b => worker'[x] = worker[x]
  BY WorkerMoves DEF DepositTypeOK
<1>2. DepositTypeOK'
  BY <1>1 DEF DepositTypeOK, ComplianceTypeOK, OnlyWorker, chainVars, complianceVars, tableVars
<1>3. WorkersSound'
  <2>1. \A x \in Workers : SoundState(worker'[x])
    BY <1>1 DEF DepositInv, WorkersSound
  <2>2. QED
    BY <2>1 DEF WorkersSound, SoundState, SoundRow, OnlyWorker, chainVars, tableVars
<1>4. (ExecutionsDated /\ RowsSound /\ RowsOnce /\ AuditsOfRows)'
  BY DEF DepositInv, ExecutionsDated, RowsSound, SoundRow, RowsOnce, AuditsOfRows, EnteredTxs,
         OnlyWorker, chainVars, tableVars
<1>5. AuditsPending'
  <2>1. \A x \in Workers : worker'[x].pc = "auditing" => worker'[x] = worker[x]
    BY <1>1
  <2>2. QED
    BY <2>1 DEF DepositInv, AuditsPending, EnteredTxs, OnlyWorker, tableVars
<1>6. QED
  BY <1>2, <1>3, <1>4, <1>5 DEF DepositInv

-----------------------------------------------------------------------------
(* The steps of an index request *)
LEMMA AskIndexStep ==
    ASSUME DepositReady, NEW b \in Workers, NEW asked \in Request, AskIndex(b, asked)
    PROVE  DepositReady'
<1> DEFINE s == [pc |-> "confirming", asked |-> asked]
<1>1. s \in WorkerStates /\ SoundState(s) /\ s.pc # "auditing"
  BY StatesAreTyped DEF SoundState
<1>2. Works(b, s) /\ OnlyWorker
  BY DEF AskIndex
<1>3. QED
  BY <1>1, <1>2, WorkerMoveKeeps

LEMMA FindTransactionStep ==
    ASSUME DepositReady, NEW b \in Workers, FindTransaction(b)
    PROVE  DepositReady'
<1> DEFINE s == [pc |-> "valuing", asked |-> worker[b].asked]
<1>1. worker[b].asked \in Request /\ [worker[b] EXCEPT !.pc = "valuing"] = s
  BY WorkerShape DEF FindTransaction, DepositReady, DepositTypeOK
<1>2. s \in WorkerStates /\ SoundState(s) /\ s.pc # "auditing"
  BY <1>1, StatesAreTyped DEF SoundState, FindTransaction, IsConfirmed
<1>3. Works(b, s) /\ OnlyWorker
  BY <1>1 DEF FindTransaction
<1>4. QED
  BY <1>2, <1>3, WorkerMoveKeeps

(* The NAV of the moment is one since the execution. *)
LEMMA FindInstitutionAndNavStep ==
    ASSUME DepositReady, NEW b \in Workers, FindInstitutionAndNav(b)
    PROVE  DepositReady'
<1> DEFINE s == [pc |-> "linking", asked |-> worker[b].asked, navUpdate |-> navUpdate]
<1>1. worker[b].asked \in Request /\ worker[b].asked.tx \in Signatures
  BY WorkerShape DEF FindInstitutionAndNav, DepositReady, DepositTypeOK, Request
<1>2. navUpdate \in NavUpdates /\ navUpdate \in Nat
  BY DeskDomains DEF DepositReady, DepositTypeOK
<1>3. executedAt[worker[b].asked.tx] # NoAccount
  BY DEF FindInstitutionAndNav, DepositReady, DepositInv, WorkersSound, SoundState
<1>4. executedAt[worker[b].asked.tx] <= navUpdate
  BY <1>1, <1>3 DEF DepositReady, DepositInv, ExecutionsDated
<1>5. s \in WorkerStates
  BY <1>1, <1>2, StatesAreTyped
<1>6. SoundState(s) /\ s.pc # "auditing"
  BY <1>2, <1>3, <1>4 DEF SoundState, FindInstitutionAndNav
<1>7. Works(b, s) /\ OnlyWorker
  BY DEF FindInstitutionAndNav, NavRead
<1>8. QED
  BY <1>5, <1>6, <1>7, WorkerMoveKeeps

LEMMA FindTravelRuleStep ==
    ASSUME DepositReady, NEW b \in Workers, FindTravelRule(b)
    PROVE  DepositReady'
<1> DEFINE asked == worker[b].asked
           row == [tx |-> asked.tx, wallet |-> asked.wallet, amount |-> asked.amount,
                   reference |-> asked.reference, link |-> LinkOf(asked),
                   navUpdate |-> worker[b].navUpdate]
           s == [pc |-> "creating", row |-> row]
<1>1. asked \in Request /\ worker[b].navUpdate \in NavUpdates /\ worker[b].pc = "linking"
  BY WorkerShape DEF FindTravelRule, DepositReady, DepositTypeOK
<1>2. /\ LinkOf(asked) \in Nonces \cup {NoAccount}
      /\ LinkOf(asked) # NoAccount => travelRow[LinkOf(asked)] # NoAccount
  BY <1>1 DEF LinkOf, Request
<1>3. row \in DepositRow
  BY <1>1, <1>2 DEF Request, DepositRow
<1>4. SoundRow(row)
  BY <1>1, <1>2 DEF SoundRow, DepositReady, DepositInv, WorkersSound, SoundState
<1>5. s \in WorkerStates /\ SoundState(s) /\ s.pc # "auditing"
  BY <1>3, <1>4, StatesAreTyped DEF SoundState
<1>6. Works(b, s) /\ OnlyWorker
  BY DEF FindTravelRule
<1>7. QED
  BY <1>5, <1>6, WorkerMoveKeeps

LEMMA IndexFailsStep ==
    ASSUME DepositReady, NEW b \in Workers, IndexFails(b)
    PROVE  DepositReady'
<1>1. Idle \in WorkerStates /\ SoundState(Idle) /\ Idle.pc # "auditing"
  BY StatesAreTyped DEF SoundState, Idle
<1>2. QED
  BY <1>1, WorkerMoveKeeps DEF IndexFails

(* A row that is new was never audited, and nobody is about to. *)
LEMMA CreateRowStep ==
    ASSUME DepositReady, NEW b \in Workers, CreateRow(b)
    PROVE  DepositReady'
<1> USE DEF DepositReady
<1> DEFINE row == worker[b].row
           s == [pc |-> "auditing", tx |-> row.tx]
           n == Len(depositRows)
<1>1. row \in DepositRow /\ row.tx \in Signatures /\ worker[b].pc = "creating"
  BY WorkerShape DEF CreateRow, DepositTypeOK, DepositRow
<1>2. s \in WorkerStates
  BY <1>1, StatesAreTyped
<1>3. /\ worker' \in [Workers -> WorkerStates]
      /\ worker'[b] = s
      /\ \A x \in Workers : x # b => worker'[x] = worker[x]
  BY <1>2, WorkerMoves DEF CreateRow, DepositTypeOK
<1>4. /\ depositRows' \in Seq(DepositRow)
      /\ n \in Nat /\ DOMAIN depositRows = 1 .. n /\ DOMAIN depositRows' = 1 .. n + 1
      /\ depositRows'[n + 1] = row
      /\ \A i \in 1 .. n : depositRows'[i] = depositRows[i]
  <2>1. depositRows \in Seq(DepositRow) /\ depositRows' = Append(depositRows, row)
    BY DEF CreateRow, DepositTypeOK
  <2>2. QED
    BY <1>1, <2>1, AppendProperties, LenProperties
<1>5. DepositTypeOK'
  BY <1>3, <1>4 DEF DepositTypeOK, ComplianceTypeOK, CreateRow, chainVars, complianceVars
<1>6. ExecutionsDated'
  BY DEF DepositInv, ExecutionsDated, CreateRow, chainVars
<1>7. SoundRow(row)
  BY <1>1 DEF DepositInv, WorkersSound, SoundState
<1>8. WorkersSound'
  <2>1. \A x \in Workers : SoundState(worker'[x])
    BY <1>3 DEF DepositInv, WorkersSound, SoundState
  <2>2. QED
    BY <2>1 DEF WorkersSound, SoundState, SoundRow, CreateRow, chainVars
<1>9. RowsSound'
  <2>1. \A i \in DOMAIN depositRows' : SoundRow(depositRows'[i])
    BY <1>4, <1>7 DEF DepositInv, RowsSound
  <2>2. QED
    BY <2>1 DEF RowsSound, SoundRow, CreateRow, chainVars
<1>10. RowsOnce'
  BY <1>4 DEF DepositInv, RowsOnce, CreateRow, IsNew
<1>11. row.tx \notin EnteredTxs
  BY DEF CreateRow, IsNew, EnteredTxs
<1>12. EnteredTxs \subseteq EnteredTxs'
  BY <1>4 DEF EnteredTxs
<1>13. AuditsOfRows'
  BY <1>12 DEF DepositInv, AuditsOfRows, CreateRow
<1>14. audited'[s.tx] = 0
  BY <1>1, <1>11 DEF DepositInv, AuditsOfRows, CreateRow
<1>15. s.tx \in EnteredTxs'
  BY <1>4 DEF EnteredTxs
<1>16. \A x \in Workers : x # b /\ worker'[x].pc = "auditing" =>
          /\ worker'[x] = worker[x] /\ worker[x].tx \in Signatures
          /\ audited'[worker[x].tx] = 0
          /\ worker[x].tx \in EnteredTxs' /\ worker[x].tx # row.tx
  <2>1. \A x \in Workers : worker[x].pc = "auditing" => worker[x].tx \in Signatures
    BY WorkerShape DEF DepositTypeOK
  <2>2. audited' = audited
    BY DEF CreateRow
  <2>3. QED
    BY <1>3, <1>11, <1>12, <2>1, <2>2 DEF DepositInv, AuditsPending
<1>17. AuditsPending'
  <2>1. \A x \in Workers : worker'[x].pc = "auditing" =>
           audited'[worker'[x].tx] = 0 /\ worker'[x].tx \in EnteredTxs'
    BY <1>3, <1>14, <1>15, <1>16
  <2>2. \A x, y \in Workers :
           worker'[x].pc = "auditing" /\ worker'[y].pc = "auditing"
              /\ worker'[x].tx = worker'[y].tx => x = y
    BY <1>3, <1>16 DEF DepositInv, AuditsPending
  <2>3. QED
    BY <2>1, <2>2 DEF AuditsPending, EnteredTxs
<1>18. QED
  BY <1>5, <1>6, <1>8, <1>9, <1>10, <1>13, <1>17 DEF DepositInv

LEMMA AuditRowStep ==
    ASSUME DepositReady, NEW b \in Workers, AuditRow(b)
    PROVE  DepositReady'
<1> USE DEF DepositReady
<1> DEFINE tx == worker[b].tx
<1>1. worker[b].pc = "auditing" /\ tx \in Signatures
  BY WorkerShape DEF AuditRow, DepositTypeOK
<1>2. /\ worker' \in [Workers -> WorkerStates]
      /\ worker'[b] = Idle
      /\ \A x \in Workers : x # b => worker'[x] = worker[x]
  BY StatesAreTyped, WorkerMoves DEF AuditRow, DepositTypeOK
<1>3. audited[tx] = 0 /\ tx \in EnteredTxs
  BY <1>1 DEF DepositInv, AuditsPending
<1>4. /\ audited' \in [Signatures -> Nat]
      /\ audited'[tx] = 1
      /\ \A x \in Signatures : x # tx => audited'[x] = audited[x]
  BY <1>1, <1>3 DEF AuditRow, DepositTypeOK
<1>5. DepositTypeOK'
  BY <1>2, <1>4 DEF DepositTypeOK, ComplianceTypeOK, AuditRow, chainVars, complianceVars
<1>6. WorkersSound'
  <2>1. \A x \in Workers : SoundState(worker'[x])
    BY <1>2 DEF DepositInv, WorkersSound, SoundState, Idle
  <2>2. QED
    BY <2>1 DEF WorkersSound, SoundState, SoundRow, AuditRow, chainVars
<1>7. (ExecutionsDated /\ RowsSound /\ RowsOnce)'
  BY DEF DepositInv, ExecutionsDated, RowsSound, SoundRow, RowsOnce, AuditRow, chainVars
<1>8. EnteredTxs' = EnteredTxs
  BY DEF EnteredTxs, AuditRow
<1>9. AuditsOfRows'
  BY <1>3, <1>4, <1>8 DEF DepositInv, AuditsOfRows
<1>10. \A x \in Workers : worker'[x].pc = "auditing" =>
          /\ x # b /\ worker'[x] = worker[x] /\ worker[x].tx \in Signatures
          /\ worker[x].tx # tx
  <2>1. \A x \in Workers : worker'[x].pc = "auditing" => x # b /\ worker'[x] = worker[x]
    BY <1>2 DEF Idle
  <2>2. QED
    BY <1>1, <2>1, WorkerShape DEF DepositInv, AuditsPending, DepositTypeOK
<1>11. AuditsPending'
  <2>1. \A x \in Workers : worker'[x].pc = "auditing" =>
           audited'[worker'[x].tx] = 0 /\ worker'[x].tx \in EnteredTxs'
    BY <1>4, <1>8, <1>10 DEF DepositInv, AuditsPending
  <2>2. QED
    BY <1>10, <2>1 DEF DepositInv, AuditsPending, EnteredTxs
<1>12. QED
  BY <1>5, <1>6, <1>7, <1>9, <1>11 DEF DepositInv

LEMMA WorkerStepsKeep ==
    ASSUME DepositReady, NEW b \in Workers, WorkerSteps(b)
    PROVE  DepositReady'
  BY AskIndexStep, FindTransactionStep, FindInstitutionAndNavStep, FindTravelRuleStep,
     CreateRowStep, AuditRowStep, IndexFailsStep DEF WorkerSteps

-----------------------------------------------------------------------------
(* The steps of the chain and of the other tables *)

(* A transaction that is executed: nobody knew that signature. *)
LEMMA ExecuteStep ==
    ASSUME DepositReady, NEW tx \in Signatures, NEW deposit \in DepositTx \cup {NoAccount},
           Execute(tx, deposit), ComplianceTypeOK'
    PROVE  DepositReady'
<1> USE DEF DepositReady
<1>1. navUpdate \in NavUpdates /\ navUpdate \in Nat
  BY DeskDomains DEF DepositTypeOK
<1>2. /\ executedAt' \in [Signatures -> NavUpdates \cup {NoAccount}]
      /\ executedAt'[tx] = navUpdate
      /\ \A x \in Signatures : x # tx => executedAt'[x] = executedAt[x]
  BY <1>1 DEF Execute, DepositTypeOK
<1>3. DepositTypeOK'
  BY <1>2 DEF DepositTypeOK, Execute, tableVars
<1>4. ExecutionsDated'
  BY <1>1, <1>2 DEF DepositInv, ExecutionsDated, Execute
<1>5. Grows
  BY <1>1, <1>2 DEF Grows, Execute, tableVars
<1>6. QED
  BY <1>1, <1>3, <1>4, <1>5, GrowthKeeps DEF Execute, tableVars

LEMMA SetNavStep ==
    ASSUME DepositReady, SetNav
    PROVE  DepositReady'
<1> USE DEF DepositReady
<1>1. navUpdate \in Nat /\ MaxNav \in Nat /\ navUpdate < MaxNav /\ navUpdate' = navUpdate + 1
  BY DeskDomains DEF DepositTypeOK, SetNav
<1>2. navUpdate' \in NavUpdates
  BY <1>1 DEF NavUpdates
<1>3. DepositTypeOK'
  BY <1>2 DEF DepositTypeOK, ComplianceTypeOK, SetNav, complianceVars, tableVars
<1>4. \A tx \in Signatures : executedAt[tx] # NoAccount => executedAt[tx] \in Nat
  BY DeskDomains DEF DepositTypeOK
<1>5. ExecutionsDated'
  BY <1>1, <1>4 DEF DepositInv, ExecutionsDated, SetNav
<1>6. Grows
  BY <1>1 DEF Grows, SetNav, tableVars
<1>7. QED
  BY <1>2, <1>3, <1>5, <1>6, GrowthKeeps DEF SetNav, tableVars

LEMMA RegisterStep ==
    ASSUME DepositReady, NEW w \in Wallets, Register(w)
    PROVE  DepositReady'
<1> USE DEF DepositReady
<1>1. navUpdate \in NavUpdates /\ navUpdate \in Nat
  BY DeskDomains DEF DepositTypeOK
<1>2. DepositTypeOK'
  BY DEF DepositTypeOK, ComplianceTypeOK, Register, chainVars, complianceVars
<1>3. ExecutionsDated' /\ Grows
  BY <1>1 DEF DepositInv, ExecutionsDated, Grows, Register, chainVars
<1>4. QED
  BY <1>1, <1>2, <1>3, GrowthKeeps DEF Register, chainVars

LEMMA FileRowStep ==
    ASSUME DepositReady, NEW w \in Wallets, NEW amount \in LargeAmounts, NEW n \in Nonces,
           FileRow(w, amount, n)
    PROVE  DepositReady'
<1> USE DEF DepositReady
<1> DEFINE row == [wallet |-> w, amount |-> amount]
<1>1. navUpdate \in NavUpdates /\ navUpdate \in Nat
  BY DeskDomains DEF DepositTypeOK
<1>2. row \in TravelRow /\ row # NoAccount
  BY DeskDomains DEF TravelRow
<1>3. /\ travelRow' \in [Nonces -> TravelRow \cup {NoAccount}]
      /\ travelRow'[n] = row
      /\ \A m \in Nonces : m # n => travelRow'[m] = travelRow[m]
  BY <1>2 DEF FileRow, DepositTypeOK
<1>4. DepositTypeOK'
  BY <1>3 DEF DepositTypeOK, ComplianceTypeOK, FileRow, chainVars, complianceVars
<1>5. ExecutionsDated' /\ Grows
  BY <1>1, <1>2, <1>3 DEF DepositInv, ExecutionsDated, Grows, FileRow, chainVars
<1>6. QED
  BY <1>1, <1>4, <1>5, GrowthKeeps DEF FileRow, chainVars

LEMMA RevokeStep ==
    ASSUME DepositReady, NEW w \in Wallets, Revoke(w), ComplianceTypeOK'
    PROVE  DepositReady'
<1> USE DEF DepositReady
<1>1. navUpdate \in NavUpdates /\ navUpdate \in Nat
  BY DeskDomains DEF DepositTypeOK
<1>2. DepositTypeOK'
  BY DEF DepositTypeOK, Revoke, tableVars
<1>3. ExecutionsDated' /\ Grows
  BY <1>1 DEF DepositInv, ExecutionsDated, Grows, Revoke, tableVars
<1>4. QED
  BY <1>1, <1>2, <1>3, GrowthKeeps DEF Revoke, tableVars

(* Seen by the chain, the desk is a run of the gate, taken over with every wallet admitted.     *)
LEMMA DepositGateStep ==
    ASSUME [DepositNext]_depositVars
    PROVE  [ComplianceNext]_complianceVars
<1>1. ASSUME NEW tx \in Signatures, NEW w \in Wallets, NEW amount \in DepositAmounts,
             NEW record \in RecordAddresses \cup {NoAccount}, SendDeposit(tx, w, amount, record)
      PROVE  ComplianceNext
  BY <1>1 DEF SendDeposit, Execute, ComplianceNext
<1>2. ASSUME NEW tx \in Signatures, NEW w \in Wallets, NEW amount \in DepositAmounts,
             NEW n \in Nonces, SendRecord(tx, w, n, amount)
      PROVE  ComplianceNext
  BY <1>2 DEF SendRecord, Execute, ComplianceNext
<1>3. ASSUME NEW w \in Wallets, Revoke(w)
      PROVE  ComplianceNext
  BY <1>3 DEF Revoke, ComplianceNext
<1>4. ASSUME NEW tx \in Signatures, SendOther(tx)
      PROVE  UNCHANGED complianceVars
  BY <1>4 DEF SendOther, Execute, complianceVars
<1>5. ASSUME NEW b \in Workers, WorkerSteps(b)
      PROVE  UNCHANGED complianceVars
  BY <1>5 DEF WorkerSteps, AskIndex, FindTransaction, FindInstitutionAndNav, FindTravelRule,
              CreateRow, AuditRow, IndexFails, OnlyWorker, chainVars
<1>6. ASSUME NEW w \in Wallets, NEW amount \in LargeAmounts, NEW n \in Nonces,
             FileRow(w, amount, n)
      PROVE  UNCHANGED complianceVars
  BY <1>6 DEF FileRow, chainVars
<1>7. ASSUME NEW w \in Wallets, Register(w)
      PROVE  UNCHANGED complianceVars
  BY <1>7 DEF Register, chainVars
<1>8. CASE SetNav \/ UNCHANGED depositVars
  BY <1>8 DEF SetNav, depositVars, chainVars
<1>9. CASE Chain
  BY <1>1, <1>2, <1>3, <1>4, <1>8, <1>9 DEF Chain
<1>10. QED
  BY <1>5, <1>6, <1>7, <1>8, <1>9 DEF DepositNext

LEMMA DepositStep ==
    ASSUME DepositReady, [DepositNext]_depositVars
    PROVE  DepositReady'
<1>1. ComplianceTypeOK'
  BY DepositGateStep, ComplianceTypeStep DEF DepositReady, DepositTypeOK
<1>2. ASSUME NEW tx \in Signatures, NEW w \in Wallets, NEW amount \in DepositAmounts,
             NEW record \in RecordAddresses \cup {NoAccount}, SendDeposit(tx, w, amount, record)
      PROVE  DepositReady'
  <2>1. [wallet |-> w, amount |-> amount] \in DepositTx \cup {NoAccount}
    BY DEF DepositTx
  <2>2. QED
    BY <1>1, <1>2, <2>1, ExecuteStep DEF SendDeposit
<1>3. ASSUME NEW tx \in Signatures, NEW w \in Wallets, NEW amount \in DepositAmounts,
             NEW n \in Nonces, SendRecord(tx, w, n, amount)
      PROVE  DepositReady'
  BY <1>1, <1>3, ExecuteStep DEF SendRecord
<1>4. ASSUME NEW tx \in Signatures, SendOther(tx)
      PROVE  DepositReady'
  BY <1>1, <1>4, ExecuteStep DEF SendOther
<1>5. CASE Chain
  BY <1>1, <1>2, <1>3, <1>4, <1>5, RevokeStep, SetNavStep DEF Chain
<1>6. ASSUME NEW w \in Wallets, Register(w)
      PROVE  DepositReady'
  BY <1>6, RegisterStep
<1>7. ASSUME NEW w \in Wallets, NEW amount \in LargeAmounts, NEW n \in Nonces, FileRow(w, amount, n)
      PROVE  DepositReady'
  BY <1>7, FileRowStep
<1>8. ASSUME NEW b \in Workers, WorkerSteps(b)
      PROVE  DepositReady'
  BY <1>8, WorkerStepsKeep
<1>9. CASE UNCHANGED depositVars
  BY <1>9 DEF DepositReady, DepositTypeOK, ComplianceTypeOK, DepositInv, ExecutionsDated,
              WorkersSound, SoundState, RowsSound, SoundRow, RowsOnce, AuditsOfRows,
              AuditsPending, EnteredTxs, depositVars, chainVars, tableVars, complianceVars
<1>10. QED
  BY <1>5, <1>6, <1>7, <1>8, <1>9 DEF DepositNext

LEMMA DepositStart == DepositInit => DepositReady
<1> SUFFICES ASSUME DepositInit PROVE DepositReady
  OBVIOUS
<1>1. ComplianceTypeOK
  BY MaxTimeAssumption DEF DepositInit, ComplianceTypeOK, Times, Credential, ExpiryDates
<1>2. depositRows = <<>> /\ depositRows \in Seq(DepositRow) /\ DOMAIN depositRows = {}
  BY DEF DepositInit
<1>3. DepositTypeOK
  BY <1>1, <1>2, StatesAreTyped, DeskDomains DEF DepositInit, DepositTypeOK
<1>4. \A b \in Workers : worker[b].pc = "idle"
  BY DEF DepositInit, Idle
<1>5. QED
  BY <1>2, <1>3, <1>4
     DEF DepositInit, DepositReady, DepositInv, ExecutionsDated, WorkersSound, SoundState,
         RowsSound, RowsOnce, AuditsOfRows, AuditsPending

(* The inductive invariant holds in every reachable state. *)
LEMMA DepositInvariant == DepositSpec => []DepositReady
<1>1. DepositReady /\ [DepositNext]_depositVars => DepositReady'
  BY DepositStep
<1>2. QED
  BY <1>1, DepositStart, PTL DEF DepositSpec

(* DepositTypeOK: the types of the chain, the tables and the index requests.                   *)
THEOREM DepositTypeCorrect == DepositSpec => []DepositTypeOK
<1>1. DepositReady => DepositTypeOK
  BY DEF DepositReady
<1>2. QED
  BY <1>1, DepositInvariant, PTL

(* What the table is worth, whoever asked for what: each row is of a transaction that was        *)
(* executed, of a known institution, at a NAV that the vault has had since the execution, and  *)
(* linked to a filed travel-rule row or to none; and no signature, and no reference, has two.  *)
THEOREM RowsAlwaysSound == DepositSpec => [](RowsSound /\ RowsOnce)
<1>1. DepositReady => RowsSound /\ RowsOnce
  BY DEF DepositReady, DepositInv
<1>2. QED
  BY <1>1, DepositInvariant, PTL

(* However often a deposit is indexed again, failed half-way or overlapped with another request, *)
(* there is at most one audit event of it, and never one without its row.                      *)
THEOREM AuditsAlwaysOfRows == DepositSpec => []AuditsOfRows
<1>1. DepositReady => AuditsOfRows
  BY DEF DepositReady, DepositInv
<1>2. QED
  BY <1>1, DepositInvariant, PTL

(* TravelRuleCovered, LapseIsFinal: transactions and records that the services never saw keep    *)
(* the gate as the ones that they prepared do: each large deposit that the chain takes uses up *)
(* a record of its own, and a wallet whose credential was revoked makes no more of them.       *)
THEOREM DepositsKeepGate == DepositSpec => []TravelRuleCovered /\ LapseIsFinal
<1>1. DepositInit => ComplianceTypeOK
  BY DepositStart DEF DepositReady, DepositTypeOK
<1>2. DepositInit => RecordsFiledByPayer
  BY DEF DepositInit, RecordsFiledByPayer, RecordAddresses
<1>3. DepositInit => TravelRuleCovered
  <2> SUFFICES ASSUME DepositInit, NEW payer \in Wallets, NEW amount \in LargeAmounts
               PROVE  largeDeposits[<<payer, amount>>] = Cardinality(ConsumedNonces(payer, amount))
    BY DEF TravelRuleCovered
  <2>1. ConsumedNonces(payer, amount) = {}
    BY DEF DepositInit, ConsumedNonces, RecordAddresses
  <2>2. QED
    BY <2>1, FS_EmptySet DEF DepositInit
<1>4. [DepositNext]_depositVars => [ComplianceNext]_complianceVars
  BY DepositGateStep
<1>5. QED
  BY <1>1, <1>2, <1>3, <1>4, GateTakenOver, PTL DEF DepositSpec

-----------------------------------------------------------------------------
(* The abstract journal *)

(* The steps of the chain, as the journal sees them: something was executed, or a new NAV. *)
LEMMA ChainInBook ==
    ASSUME Chain
    PROVE  [Book!BookNext]_(Book!bookVars)
<1>1. ASSUME NEW tx \in Signatures, NEW deposit, Execute(tx, deposit)
      PROVE  Book!BookNext
  <2>1. Book!Happen(tx)
    BY <1>1 DEF Execute, Book!Happen, tableVars
  <2>2. QED
    BY <2>1 DEF Book!BookNext
<1>2. CASE \E tx \in Signatures, w \in Wallets, amount \in DepositAmounts :
               \/ \E record \in RecordAddresses \cup {NoAccount} : SendDeposit(tx, w, amount, record)
               \/ \E n \in Nonces : SendRecord(tx, w, n, amount)
  BY <1>1, <1>2 DEF SendDeposit, SendRecord
<1>3. CASE \E tx \in Signatures : SendOther(tx)
  BY <1>1, <1>3 DEF SendOther
<1>4. CASE \E w \in Wallets : Revoke(w)
  BY <1>4 DEF Revoke, tableVars, Book!bookVars
<1>5. CASE SetNav
  BY <1>5 DEF SetNav, tableVars, Book!BookNext, Book!Reprice
<1>6. QED
  BY <1>2, <1>3, <1>4, <1>5 DEF Chain

LEMMA CreationIsEntry ==
    ASSUME DepositReady, NEW b \in Workers, CreateRow(b)
    PROVE  Book!BookNext
<1>1. worker[b].row \in Book!Entries
  BY WorkerShape DEF CreateRow, DepositReady, DepositTypeOK, DepositRow, Book!Entries
<1>2. SoundRow(worker[b].row)
  BY DEF CreateRow, DepositReady, DepositInv, WorkersSound, SoundState
<1>3. Book!Enter(worker[b].row)
  BY <1>2 DEF CreateRow, SoundRow, IsNew, Book!Enter, Book!IsFresh, chainVars
<1>4. QED
  BY <1>1, <1>3 DEF Book!BookNext

LEMMA AuditInBook ==
    ASSUME DepositReady, NEW b \in Workers, AuditRow(b)
    PROVE  Book!BookNext
<1> USE DEF DepositReady
<1> DEFINE tx == worker[b].tx
<1>1. worker[b].pc = "auditing" /\ tx \in Signatures
  BY WorkerShape DEF AuditRow, DepositTypeOK
<1>2. audited[tx] = 0 /\ \E i \in DOMAIN depositRows : depositRows[i].tx = tx
  BY <1>1 DEF DepositInv, AuditsPending, EnteredTxs
<1>3. audited' = [audited EXCEPT ![tx] = 1]
  BY <1>2 DEF AuditRow
<1>4. Book!Audit(tx)
  BY <1>2, <1>3 DEF AuditRow, chainVars, Book!Audit
<1>5. QED
  BY <1>1, <1>4 DEF Book!BookNext

LEMMA BookStep ==
    ASSUME DepositReady, [DepositNext]_depositVars
    PROVE  [Book!BookNext]_(Book!bookVars)
<1>1. ASSUME NEW b \in Workers, WorkerSteps(b)
      PROVE  [Book!BookNext]_(Book!bookVars)
  <2>1. OnlyWorker => UNCHANGED Book!bookVars
    BY DEF OnlyWorker, chainVars, tableVars, Book!bookVars
  <2>2. CASE CreateRow(b)
    BY <2>2, CreationIsEntry
  <2>3. CASE AuditRow(b)
    BY <2>3, AuditInBook
  <2>4. QED
    BY <1>1, <2>1, <2>2, <2>3
       DEF WorkerSteps, AskIndex, FindTransaction, FindInstitutionAndNav, FindTravelRule, IndexFails
<1>2. ASSUME NEW w \in Wallets, Register(w)
      PROVE  Book!BookNext
  <2>1. Book!Meet(w)
    BY <1>2 DEF Register, chainVars, Book!Meet
  <2>2. QED
    BY <2>1 DEF Book!BookNext
<1>3. ASSUME NEW w \in Wallets, NEW amount \in LargeAmounts, NEW n \in Nonces, FileRow(w, amount, n)
      PROVE  Book!BookNext
  <2>1. Book!File(n, w, amount)
    BY <1>3 DEF FileRow, chainVars, Book!File
  <2>2. QED
    BY <2>1 DEF Book!BookNext
<1>4. CASE UNCHANGED depositVars
  BY <1>4 DEF depositVars, chainVars, tableVars, Book!bookVars
<1>5. QED
  BY <1>1, <1>2, <1>3, <1>4, ChainInBook DEF DepositNext

(* ImplementsBook: whoever sends what and asks for what, and however the requests overlap and    *)
(* fail, the chain, the tables and the audit events behave as the abstract journal.            *)
THEOREM DepositsImplementBook == DepositSpec => ImplementsBook
<1>1. DepositInit => Book!BookInit
  BY DEF DepositInit, Book!BookInit
<1>2. DepositReady /\ [DepositNext]_depositVars => [Book!BookNext]_(Book!bookVars)
  BY BookStep
<1>3. QED
  BY <1>1, <1>2, DepositInvariant, PTL DEF DepositSpec, ImplementsBook, Book!BookSpec
=============================================================================
