-------------------------- MODULE VaultPanelProofs --------------------------
(***************************************************************************)
(* Theorems about VaultPanel, for any number of submissions and polls      *)
(* under way.  The page moves the ledger of ShareLedger by steps of the    *)
(* ledger's own, from which it has the ledger's types.                     *)
(***************************************************************************)
EXTENDS VaultPanel, ShareLedgerProofs

USE NoHandlerAssumption

(* The types of what is the page's own *)
PageTypeOK ==
    /\ tab \in Tabs
    /\ submitting \in Handlers \cup {NoHandler}
    /\ banner \in {"none", "success", "failed"}
    /\ handler \in [Handlers -> HandlerStates]
    /\ shown \in [paused : BOOLEAN, initialized : BOOLEAN]
    /\ poll \in [Polls -> PollStates]
    /\ ownDone \in BOOLEAN

(* A handler past its transaction that the mounted form still waits for is what that form did. *)
OwnLanded ==
    \A h \in Handlers :
        submitting = h /\ handler[h].pc \in {"landed", "indexing"} => ownDone

PageInv == PageTypeOK /\ OwnLanded /\ BannerIsOwn

(* What a handler that is under way carries *)
LEMMA HandlerShape ==
    ASSUME PageTypeOK, NEW h \in Handlers,
           handler[h].pc \in {"screening", "sending", "landed", "indexing"}
    PROVE  /\ handler[h].op \in Operation
           /\ \A pc \in {"screening", "sending", "landed", "indexing"} :
                 [handler[h] EXCEPT !.pc = pc] = [pc |-> pc, op |-> handler[h].op]
<1> DEFINE Busy == [pc : {"screening", "sending", "landed", "indexing"}, op : Operation]
<1>1. handler[h] \in {Idle} \cup Busy
  BY DEF PageTypeOK, HandlerStates
<1>2. Idle.pc = "idle"
  BY DEF Idle
<1>3. handler[h] \in Busy
  BY <1>1, <1>2
<1>4. QED
  BY <1>3

(* A step of one handler *)
LEMMA HandlerMoves ==
    ASSUME PageTypeOK, NEW h \in Handlers, NEW state \in HandlerStates,
           Goes(h, state)
    PROVE  /\ handler' \in [Handlers -> HandlerStates]
           /\ handler'[h] = state
           /\ \A other \in Handlers : other # h => handler'[other] = handler[other]
BY DEF PageTypeOK, Goes

LEMMA HandlerProceeds ==
    ASSUME PageTypeOK, NEW h \in Handlers,
           handler[h].pc \in {"screening", "sending", "landed"},
           NEW pc \in {"sending", "landed", "indexing"}, Proceeds(h, pc)
    PROVE  /\ handler' \in [Handlers -> HandlerStates]
           /\ handler'[h].pc = pc
           /\ \A other \in Handlers : other # h => handler'[other] = handler[other]
<1> DEFINE state == [pc |-> pc, op |-> handler[h].op]
<1>1. Goes(h, state)
  BY HandlerShape DEF Proceeds, Goes, PageTypeOK
<1>2. state \in HandlerStates
  BY HandlerShape DEF HandlerStates
<1>3. QED
  BY <1>1, <1>2, HandlerMoves

(* Ending, a handler reports to the form that waits for it, and to no other. *)
LEMMA ReportKeeps ==
    ASSUME PageInv, NEW h \in Handlers, NEW result \in {"none", "success", "failed"},
           Reports(h, result), UNCHANGED <<shown, poll>>,
           result = "success" => handler[h].pc \in {"landed", "indexing"}
    PROVE  PageInv'
<1>1. Idle \in HandlerStates /\ Idle.pc = "idle"
  BY DEF HandlerStates, Idle
<1>2. /\ handler' \in [Handlers -> HandlerStates]
      /\ handler'[h] = Idle
      /\ \A other \in Handlers : other # h => handler'[other] = handler[other]
  BY <1>1, HandlerMoves DEF Reports, PageInv
<1>3. PageTypeOK'
  BY <1>2 DEF PageInv, PageTypeOK, Reports
<1>4. OwnLanded'
  <2>1. UNCHANGED ownDone /\ (submitting' = submitting \/ submitting' = NoHandler)
    BY DEF Reports
  <2>2. ASSUME NEW other \in Handlers, submitting' = other,
               handler'[other].pc \in {"landed", "indexing"}
        PROVE  ownDone'
    <3>1. other # h /\ handler'[other] = handler[other]
      BY <1>1, <1>2, <2>2
    <3>2. submitting = other
      BY <2>1, <2>2
    <3>3. QED
      BY <2>1, <2>2, <3>1, <3>2 DEF PageInv, OwnLanded
  <2>3. QED
    BY <2>2 DEF OwnLanded
<1>5. BannerIsOwn'
  BY DEF PageInv, OwnLanded, BannerIsOwn, Reports
<1>6. QED
  BY <1>3, <1>4, <1>5 DEF PageInv

LEMMA HandlerStepKeeps ==
    ASSUME PageInv, NEW h \in Handlers, HandlerSteps(h)
    PROVE  PageInv'
<1> USE DEF PageInv, formVars, pollVars
<1>1. ASSUME handler[h].pc \in {"screening", "sending", "landed"},
             NEW pc \in {"sending", "landed", "indexing"}, Proceeds(h, pc),
             UNCHANGED <<tab, submitting, banner, shown, poll>>,
             ownDone' = (ownDone \/ (pc = "landed" /\ submitting = h)),
             pc = "indexing" => handler[h].pc = "landed"
      PROVE  PageInv'
  <2>1. /\ handler' \in [Handlers -> HandlerStates]
        /\ handler'[h].pc = pc
        /\ \A other \in Handlers : other # h => handler'[other] = handler[other]
    BY <1>1, HandlerProceeds
  <2>2. ownDone' \in BOOLEAN /\ (ownDone => ownDone')
    BY <1>1
  <2>3. PageTypeOK'
    BY <1>1, <2>1, <2>2 DEF PageTypeOK
  <2>4. OwnLanded'
    <3>1. ASSUME NEW other \in Handlers, submitting' = other,
                 handler'[other].pc \in {"landed", "indexing"}
          PROVE  ownDone'
      <4>1. CASE other # h
        BY <1>1, <2>1, <2>2, <3>1, <4>1 DEF OwnLanded
      <4>2. CASE other = h
        BY <1>1, <2>1, <2>2, <3>1, <4>2 DEF OwnLanded
      <4>3. QED
        BY <4>1, <4>2
    <3>2. QED
      BY <3>1 DEF OwnLanded
  <2>5. BannerIsOwn'
    BY <1>1, <2>2 DEF BannerIsOwn
  <2>6. QED
    BY <2>3, <2>4, <2>5
<1>2. ownDone \in BOOLEAN
  BY DEF PageTypeOK
<1>3. CASE ScreenPasses(h)
  BY <1>1, <1>2, <1>3 DEF ScreenPasses
<1>4. CASE Land(h)
  BY <1>1, <1>4 DEF Land
<1>5. CASE Confirm(h)
  <2>1. CASE Proceeds(h, "indexing") /\ UNCHANGED formVars
    BY <1>1, <1>2, <1>5, <2>1 DEF Confirm
  <2>2. CASE Reports(h, "success")
    BY <1>5, <2>2, ReportKeeps DEF Confirm
  <2>3. QED
    BY <1>5, <2>1, <2>2 DEF Confirm
<1>6. CASE ScreenFails(h) \/ Index(h) \/ SendFails(h)
  BY <1>6, ReportKeeps DEF ScreenFails, Index, SendFails
<1>7. QED
  BY <1>3, <1>4, <1>5, <1>6 DEF HandlerSteps

LEMMA PageStep ==
    ASSUME PageInv, [PanelNext]_(panelVars)
    PROVE  PageInv'
<1> USE DEF PageInv, formVars, pollVars
<1>1. ASSUME NEW h \in Handlers, Click(h)
      PROVE  PageInv'
  <2>1. PICK amount \in Amounts :
           Goes(h, [pc |-> IF tab = "convert" THEN "sending" ELSE "screening",
                          op |-> [tab |-> tab, amount |-> amount]])
    BY <1>1 DEF Click
  <2> DEFINE state == [pc |-> IF tab = "convert" THEN "sending" ELSE "screening",
                       op |-> [tab |-> tab, amount |-> amount]]
  <2>2. state \in HandlerStates /\ state.pc \in {"screening", "sending"}
    BY DEF HandlerStates, Operation, PageTypeOK
  <2>3. handler' \in [Handlers -> HandlerStates] /\ handler'[h] = state
    BY <2>1, <2>2, HandlerMoves
  <2> HIDE DEF state
  <2>4. UNCHANGED <<tab, shown, poll>> /\ submitting' = h /\ banner' = "none" /\ ownDone' = FALSE
    BY <1>1 DEF Click
  <2>5. PageTypeOK'
    BY <2>3, <2>4 DEF PageTypeOK
  <2>6. OwnLanded' /\ BannerIsOwn'
    BY <2>2, <2>3, <2>4 DEF OwnLanded, BannerIsOwn
  <2>7. QED
    BY <2>5, <2>6
<1>2. ASSUME NEW t \in Tabs, SwitchTab(t)
      PROVE  PageInv'
  BY <1>2 DEF SwitchTab, PageTypeOK, OwnLanded, BannerIsOwn
<1>3. ASSUME NEW p \in Polls, NEW found \in BOOLEAN, PollReads(p, found)
      PROVE  PageInv'
  <2> DEFINE read == [pc |-> "read", paused |-> paused /\ found, found |-> found]
  <2>1. read \in PollStates
    BY DEF PollStates
  <2>2. poll' \in [Polls -> PollStates]
    BY <1>3, <2>1 DEF PollReads, PageTypeOK
  <2>3. QED
    BY <1>3, <2>2 DEF PollReads, PageTypeOK, OwnLanded, BannerIsOwn
<1>4. ASSUME NEW p \in Polls, PollShows(p)
      PROVE  PageInv'
  <2>1. Idle \in PollStates /\ Idle.pc = "idle"
    BY DEF PollStates, Idle
  <2>2. poll[p].paused \in BOOLEAN /\ poll[p].found \in BOOLEAN
    <3>1. poll[p] \in [pc : {"read"}, paused : BOOLEAN, found : BOOLEAN]
      BY <1>4, <2>1 DEF PollShows, PollStates, PageTypeOK
    <3>2. QED
      BY <3>1
  <2>3. shown' \in [paused : BOOLEAN, initialized : BOOLEAN]
    BY <1>4, <2>2 DEF PollShows, ShowPoll
  <2>4. poll' \in [Polls -> PollStates]
    BY <1>4, <2>1 DEF PollShows, PageTypeOK
  <2>5. QED
    BY <1>4, <2>3, <2>4 DEF PollShows, PageTypeOK, OwnLanded, BannerIsOwn
<1>5. CASE LandsElsewhere \/ Administer \/ UNCHANGED panelVars
  BY <1>5 DEF LandsElsewhere, Administer, panelVars,
              PageTypeOK, OwnLanded, BannerIsOwn
<1>6. QED
  BY <1>1, <1>2, <1>3, <1>4, <1>5, HandlerStepKeeps DEF PanelNext

LEMMA PageStart ==
    ASSUME PanelInit
    PROVE  PageInv
<1>1. Idle \in HandlerStates /\ Idle \in PollStates
  BY DEF HandlerStates, PollStates
<1>2. PageTypeOK
  BY <1>1 DEF PanelInit, PageTypeOK, Tabs
<1>3. OwnLanded /\ BannerIsOwn
  BY DEF PanelInit, OwnLanded, BannerIsOwn, Idle
<1>4. QED
  BY <1>2, <1>3 DEF PageInv

LEMMA PageInvariant == PanelSafetySpec => []PageInv
<1>1. PageInv /\ [PanelNext]_(panelVars) => PageInv'
  BY PageStep
<1>2. QED
  BY <1>1, PageStart, PTL DEF PanelSafetySpec

(* What the page has the program do is for the ledger like anything that a wallet or the        *)
(* authority may do.                                                                           *)
LEMMA PanelLedgerStep ==
    ASSUME PageTypeOK, [PanelNext]_panelVars
    PROVE  [LedgerNext]_ledgerVars
<1>1. ASSUME NEW op \in Operation, Execute(op)
      PROVE  LedgerNext
  BY <1>1, MeAssumption DEF Execute, Operation, LedgerNext, Instructions, Destinations
<1>2. ASSUME NEW h \in Handlers, Land(h)
      PROVE  LedgerNext
  BY <1>1, <1>2, HandlerShape DEF Land
<1>3. CASE LandsElsewhere
  BY <1>1, <1>3 DEF LandsElsewhere
<1>4. CASE Administer
  BY <1>4 DEF Administer, LedgerNext, Administration
<1>5. ASSUME \/ \E h \in Handlers : Click(h) \/ (HandlerSteps(h) /\ ~Land(h))
             \/ \E t \in Tabs : SwitchTab(t)
             \/ \E p \in Polls, found \in BOOLEAN : PollReads(p, found)
             \/ \E p \in Polls : PollShows(p)
             \/ UNCHANGED panelVars
      PROVE  UNCHANGED ledgerVars
  BY <1>5 DEF Click, HandlerSteps, ScreenPasses, ScreenFails, Confirm, Index, SendFails,
              SwitchTab, PollReads, PollShows, panelVars
<1>6. QED
  BY <1>2, <1>3, <1>4, <1>5 DEF PanelNext, HandlerSteps

(* The page in front of the ledger leaves the ledger what it is: whatever handlers do that        *)
(* overlap, each call is an instruction that a wallet may send, and all else is a stutter.      *)
THEOREM PanelKeepsLedger == PanelSafetySpec => LedgerSpec
<1>1. PanelInit => LedgerInit
  BY DEF PanelInit
<1>2. PageInv /\ [PanelNext]_panelVars => [LedgerNext]_ledgerVars
  BY PanelLedgerStep DEF PageInv
<1>3. QED
  BY <1>1, <1>2, PageInvariant, PTL DEF PanelSafetySpec, LedgerSpec

(* PanelTypeOK: however handlers of several tabs and polls overlap, the page and the ledger keep  *)
(* their types.                                                                                *)
THEOREM PanelTypeCorrect == PanelSafetySpec => []PanelTypeOK
<1>1. LedgerTypeOK /\ PageInv => PanelTypeOK
  BY DEF PageInv, PageTypeOK, PanelTypeOK
<1>2. QED
  BY <1>1, LedgerTypeCorrect, PanelKeepsLedger, PageInvariant, PTL

(* BannerIsOwn: a success that a form shows is always its own, however many submissions of forms *)
(* that were left come to an end meanwhile.                                                    *)
THEOREM BannerAlwaysOwn == PanelSafetySpec => []BannerIsOwn
<1>1. PageInv => BannerIsOwn
  BY DEF PageInv
<1>2. QED
  BY <1>1, PageInvariant, PTL
=============================================================================
