----------------------------- MODULE VaultPanel -----------------------------
(***************************************************************************)
(* The vault page of one wallet: three tabs, of which one is mounted, each *)
(* with a form whose handler goes through a compliance check, a signed     *)
(* transaction and, after a deposit, a call that indexes it; and the       *)
(* poller behind the figures that the page shows.  A handler is not        *)
(* stopped when its tab is left, so that handlers of several tabs overlap, *)
(* and so do polls.  Amounts and prices are on the ledger only: nothing on *)
(* the page depends on the estimate that it shows.                         *)
(***************************************************************************)
EXTENDS ShareLedger, FiniteSets

CONSTANTS
    Me,        \* the connected wallet
    Handlers,  \* the submissions that may be under way together
    NoHandler, \* a marker: the mounted form is not submitting
    Polls      \* the polls that may be under way together

ASSUME MeAssumption == Me \in Wallets
ASSUME NoHandlerAssumption == NoHandler \notin Handlers

VARIABLES
    tab,         \* the mounted tab
    submitting,  \* the handler that the mounted form waits for
    banner,      \* the result that the mounted form shows
    handler,     \* what each submission is at
    shown,       \* what the page takes the vault for: VaultStats.paused and .initialized
    poll,        \* what each poll has read so far
    ownDone      \* history: whether the mounted form's last submission was executed

formVars  == <<tab, submitting, banner, ownDone>>
pollVars  == <<shown, poll>>
panelVars == <<ledgerVars, formVars, handler, pollVars>>

Tabs == {"deposit", "redeem", "convert"}

Operation == [tab : Tabs, amount : Amounts]

Idle == [pc |-> "idle"]

HandlerStates ==
    {Idle} \cup [pc : {"screening", "sending", "landed", "indexing"}, op : Operation]

(* Between reading the vault and the backend's NAV. *)
PollStates == {Idle} \cup [pc : {"read"}, paused : BOOLEAN, found : BOOLEAN]

(* The secondary market is open: converting takes part. *)
PanelInit ==
    /\ LedgerInit
    /\ secondaryMarket
    /\ tab = "deposit"
    /\ submitting = NoHandler
    /\ banner = "none"
    /\ handler = [h \in Handlers |-> Idle]
    /\ shown = [paused |-> FALSE, initialized |-> FALSE]
    /\ poll = [p \in Polls |-> Idle]
    /\ ownDone = FALSE

-----------------------------------------------------------------------------
Goes(h, state) == handler' = [handler EXCEPT ![h] = state]
Proceeds(h, pc) == handler' = [handler EXCEPT ![h].pc = pc]

(* The button of the mounted tab.  Converting skips the compliance check. *)
Click(h) ==
    /\ submitting = NoHandler
    /\ handler[h] = Idle
    /\ ~shown.paused
    /\ shown.initialized
    /\ \E amount \in Amounts \ {0} :
          Goes(h, [pc |-> IF tab = "convert" THEN "sending" ELSE "screening",
                   op |-> [tab |-> tab, amount |-> amount]])
    /\ submitting' = h
    /\ banner' = "none"
    /\ ownDone' = FALSE
    /\ UNCHANGED <<ledgerVars, tab, pollVars>>

(* Leaving a tab unmounts its form, not the handler that is under way. *)
SwitchTab(t) ==
    /\ t # tab
    /\ tab' = t
    /\ submitting' = NoHandler
    /\ banner' = "none"
    /\ ownDone' = FALSE
    /\ UNCHANGED <<ledgerVars, handler, pollVars>>

(* Mutant: the result shown by whatever form is there. *)
ReportsToAnyForm(h, result) ==
    /\ Goes(h, Idle)
    /\ submitting' = NoHandler
    /\ banner' = result
    /\ UNCHANGED <<tab, ownDone>>

(* A handler whose form is gone reports to nobody. *)
Reports(h, result) ==
    /\ Goes(h, Idle)
    /\ IF submitting = h THEN submitting' = NoHandler /\ banner' = result
       ELSE UNCHANGED <<submitting, banner>>
    /\ UNCHANGED <<tab, ownDone>>

(* checkVaultCompliance: a check that fails or throws ends the submission, with no banner. *)
ScreenPasses(h) ==
    /\ handler[h].pc = "screening"
    /\ Proceeds(h, "sending")
    /\ UNCHANGED <<ledgerVars, formVars, pollVars>>

ScreenFails(h) ==
    /\ handler[h].pc = "screening"
    /\ Reports(h, "none")
    /\ UNCHANGED <<ledgerVars, pollVars>>

Execute(op) ==
    \/ op.tab = "deposit" /\ BookDeposit(Me, Me, op.amount)
    \/ op.tab = "redeem" /\ Redeem(Me, Me, op.amount)
    \/ op.tab = "convert" /\ ConvertToTradeable(Me, Me, op.amount)

Land(h) ==
    /\ handler[h].pc = "sending"
    /\ Execute(handler[h].op)
    /\ Proceeds(h, "landed")
    /\ ownDone' = (ownDone \/ submitting = h)
    /\ UNCHANGED <<tab, submitting, banner, pollVars>>

Confirm(h) ==
    /\ handler[h].pc = "landed"
    /\ IF handler[h].op.tab = "deposit"
       THEN Proceeds(h, "indexing") /\ UNCHANGED formVars
       ELSE Reports(h, "success")
    /\ UNCHANGED <<ledgerVars, pollVars>>

(* Indexed or not: the deposit succeeded. *)
Index(h) ==
    /\ handler[h].pc = "indexing"
    /\ Reports(h, "success")
    /\ UNCHANGED <<ledgerVars, pollVars>>

(* Mutant: a caught error that leaves the form waiting. *)
SendFailsUnreported(h) ==
    /\ handler[h].pc \in {"sending", "landed"}
    /\ Goes(h, Idle)
    /\ UNCHANGED <<ledgerVars, formVars, pollVars>>

(* No wallet, no signature, a refused transaction, a confirmation that times out while the       *)
(* transaction is on its way, or an executed one whose answer is lost.                         *)
SendFails(h) ==
    /\ handler[h].pc \in {"sending", "landed"}
    /\ Reports(h, "failed")
    /\ UNCHANGED <<ledgerVars, pollVars>>

(* The same wallet elsewhere: in another window, or by a transaction that lands after the page *)
(* has given it up.                                                                            *)
LandsElsewhere ==
    /\ \E op \in Operation : Execute(op)
    /\ UNCHANGED <<formVars, handler, pollVars>>

-----------------------------------------------------------------------------
(* The interval, the first render, or an operation that succeeded starts a poll; the first     *)
(* thing that it does is to read the vault, and a vault that cannot be read counts as not paused. *)
PollReads(p, found) ==
    /\ poll[p] = Idle
    /\ poll' = [poll EXCEPT ![p] = [pc |-> "read", paused |-> paused /\ found, found |-> found]]
    /\ UNCHANGED <<ledgerVars, formVars, handler, shown>>

(* Mutant: a poll that keeps what an earlier one has shown. *)
ShowFirst(p, priced) ==
    shown' = IF shown.initialized THEN shown
             ELSE [paused |-> poll[p].paused, initialized |-> poll[p].found \/ priced]

(* Mutant: a vault that was not read shown with no `paused` at all. *)
ShowPollAsRead(p, priced) ==
    shown' = IF poll[p].found THEN [paused |-> poll[p].paused, initialized |-> TRUE]
             ELSE [initialized |-> priced]

(* `priced`: the backend has a NAV. *)
ShowPoll(p, priced) ==
    shown' = [paused |-> poll[p].paused, initialized |-> poll[p].found \/ priced]

PollShows(p) ==
    /\ poll[p].pc = "read"
    /\ \E priced \in BOOLEAN : ShowPoll(p, priced)
    /\ poll' = [poll EXCEPT ![p] = Idle]
    /\ UNCHANGED <<ledgerVars, formVars, handler>>

-----------------------------------------------------------------------------
(* The authority pauses and resumes the vault and moves the price. *)
Administer ==
    /\ \/ \E pause \in BOOLEAN : SetPause(pause)
       \/ \E price \in NavPrices : SetNav(price)
    /\ UNCHANGED <<formVars, handler, pollVars>>

HandlerSteps(h) ==
    \/ ScreenPasses(h) \/ ScreenFails(h)
    \/ Land(h) \/ Confirm(h) \/ Index(h) \/ SendFails(h)

PanelNext ==
    \/ \E h \in Handlers : Click(h) \/ HandlerSteps(h)
    \/ \E t \in Tabs : SwitchTab(t)
    \/ LandsElsewhere
    \/ \E p \in Polls, found \in BOOLEAN : PollReads(p, found)
    \/ \E p \in Polls : PollShows(p)
    \/ Administer

PanelSafetySpec == PanelInit /\ [][PanelNext]_panelVars

(* Every await of a handler and of a poll settles; the interval keeps polling, and the node     *)
(* answers one read of the vault after the other, though not each of them.                     *)
PanelSpec ==
    /\ PanelSafetySpec
    /\ \A h \in Handlers : WF_panelVars(HandlerSteps(h))
    /\ \A p \in Polls : WF_panelVars(PollShows(p))
    /\ SF_panelVars(\E p \in Polls : PollReads(p, TRUE))

-----------------------------------------------------------------------------
(* Type invariant of the page. *)
PanelTypeOK ==
    /\ LedgerTypeOK
    /\ tab \in Tabs
    /\ submitting \in Handlers \cup {NoHandler}
    /\ banner \in {"none", "success", "failed"}
    /\ handler \in [Handlers -> HandlerStates]
    /\ shown \in [paused : BOOLEAN, initialized : BOOLEAN]
    /\ poll \in [Polls -> PollStates]
    /\ ownDone \in BOOLEAN

(* A success that the form shows is its own: the submission that was last made on this very      *)
(* form was executed, however many handlers of forms that were left still come to an end.      *)
BannerIsOwn == banner = "success" => ownDone

(* No form waits for ever: whatever fails, its button comes back. *)
FormComesBack == submitting # NoHandler ~> submitting = NoHandler

(* The redeem and deposit buttons follow the vault: a pause that lasts is seen in the end, and   *)
(* so is its end, although polls overlap and an old answer may replace a newer one.            *)
PauseIsSeen ==
    /\ <>[]paused => []<>shown.paused
    /\ <>[]~paused => <>[]~shown.paused

(* What the nonce is for, "replay protection": a submission that the form calls failed should    *)
(* not have been executed, for the user will submit it again.                                  *)
FailedIsNotExecuted == banner = "failed" => ~ownDone
=============================================================================
