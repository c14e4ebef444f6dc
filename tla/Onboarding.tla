----------------------------- MODULE Onboarding -----------------------------
(***************************************************************************)
(* The way of one institution's browser from the connect page into the     *)
(* vault's app: the wallet store and its cookie, the onboarding pages, the *)
(* middleware that gates /app, and the credentials service that they all   *)
(* ask, while an operator may revoke.  The browser waits for one           *)
(* answer at a time; it may be left without it, which the request does not *)
(* notice.                                                                 *)
(***************************************************************************)
EXTENDS CredentialDesk

CONSTANTS
    Me,      \* the wallet of this browser
    NoSlot,  \* a marker: the browser waits for nothing
    MaxReloads  \* bound: reloads of a page that is not stuck

ASSUME MeAssumption == Me \in Wallets
ASSUME NoSlotAssumption == NoSlot \notin Slots
ASSUME MaxReloadsAssumption == MaxReloads \in Nat

VARIABLES
    page,       \* what the browser shows
    connected,  \* the wallet store's connection, which a reload forgets
    cookie,     \* whether the wallet cookie is set
    awaiting,   \* the request whose answer the browser waits for
    reloads     \* how often a page that was not stuck has been reloaded

browserVars == <<page, connected, cookie, awaiting, reloads>>
onboardVars == <<deskVars, browserVars>>

(* "held" is the connect page with nothing left to happen on it: the credential is revoked or  *)
(* expired, or the gate sent the browser back to a page that had already made its check.       *)
(* "entering" is a request for /app that the middleware has not let through yet.               *)
Pages == {"connect", "held", "register", "pending", "timed out", "complete", "entering", "app"}

OnboardInit ==
    /\ DeskInit
    /\ page = "connect"
    /\ connected = FALSE
    /\ cookie = FALSE
    /\ awaiting = NoSlot
    /\ reloads = 0

-----------------------------------------------------------------------------
Show(p) == page' = p

WaitFor(s) ==
    /\ awaiting = NoSlot
    /\ awaiting' = s

(* Mutant: the wait not ended. *)
TakeStillWaiting(s) ==
    /\ awaiting = s
    /\ UNCHANGED awaiting
    /\ Close(s)

(* The browser takes the answer to its request, which frees the slot. *)
Take(s) ==
    /\ awaiting = s
    /\ awaiting' = NoSlot
    /\ Close(s)

Verdict(s) == IF request[s].pc = "verified" THEN request[s].verdict ELSE "failed"

(* handleConnect of the connect page and of the wallet button: the provider keeps the cookie.  *)
Connect ==
    /\ page \in {"connect", "app"}
    /\ ~connected
    /\ connected' = TRUE
    /\ cookie' = TRUE
    /\ UNCHANGED <<deskVars, page, awaiting, reloads>>

Disconnect ==
    /\ page = "app"
    /\ connected
    /\ connected' = FALSE
    /\ cookie' = FALSE
    /\ UNCHANGED <<deskVars, page, awaiting, reloads>>

CheckCredential(s) ==
    /\ page = "connect"
    /\ connected
    /\ WaitFor(s)
    /\ AskVerify(s, Me)
    /\ UNCHANGED <<page, connected, cookie, reloads>>

(* A check that fails sends the browser to register, like one that finds no credential. *)
CheckAnswered(s) ==
    /\ page = "connect"
    /\ Take(s)
    /\ Show(CASE Verdict(s) = "active" -> "entering"
              [] Verdict(s) \in {"revoked", "expired"} -> "held"
              [] OTHER -> "register")
    /\ UNCHANGED <<connected, cookie, reloads>>

Submit(s) ==
    /\ page = "register"
    /\ connected
    /\ WaitFor(s)
    /\ \E expiresAt \in ExpiryDates : AskIssue(s, Me, expiresAt)
    /\ UNCHANGED <<page, connected, cookie, reloads>>

(* Mutant: a conflict shown as an error. *)
AfterSubmitWithoutConflict(reply) == IF reply = "success" THEN "pending" ELSE "register"

(* A conflict means that the wallet has its credential already: go and see. *)
AfterSubmit(reply) == IF reply \in {"success", "conflict"} THEN "pending" ELSE "register"

SubmitAnswered(s) ==
    /\ page = "register"
    /\ Take(s)
    /\ Show(AfterSubmit(request[s].reply))
    /\ UNCHANGED <<connected, cookie, reloads>>

(* After a reload the form has no wallet; its user goes back. *)
GoBack ==
    /\ page = "register"
    /\ ~connected
    /\ Show("connect")
    /\ UNCHANGED <<deskVars, connected, cookie, awaiting, reloads>>

Poll(s) ==
    /\ page = "pending"
    /\ WaitFor(s)
    /\ AskVerify(s, Me)
    /\ UNCHANGED <<page, connected, cookie, reloads>>

(* The answer to the last poll counts even after the polling has ended. *)
PollAnswered(s) ==
    /\ page \in {"pending", "timed out"}
    /\ Take(s)
    /\ Show(IF Verdict(s) = "active" THEN "complete" ELSE page)
    /\ UNCHANGED <<connected, cookie, reloads>>

PollsEnd ==
    /\ page = "pending"
    /\ Show("timed out")
    /\ UNCHANGED <<deskVars, connected, cookie, awaiting, reloads>>

-----------------------------------------------------------------------------
EnterVault ==
    /\ page \in {"complete", "app"}
    /\ awaiting = NoSlot
    /\ Show("entering")
    /\ UNCHANGED <<deskVars, connected, cookie, awaiting, reloads>>

(* Sent back to the connect page, which is mounted anew or was there all along. *)
Refuse == \E p \in {"connect", "held"} : Show(p)

GateWithoutCookie ==
    /\ page = "entering"
    /\ ~cookie
    /\ awaiting = NoSlot
    /\ Refuse
    /\ UNCHANGED <<deskVars, connected, cookie, awaiting, reloads>>

AskGate(s) ==
    /\ page = "entering"
    /\ cookie
    /\ WaitFor(s)
    /\ AskVerify(s, Me)
    /\ UNCHANGED <<page, connected, cookie, reloads>>

GateAnswered(s) ==
    /\ page = "entering"
    /\ Take(s)
    /\ IF Verdict(s) = "active" THEN Show("app") ELSE Refuse
    /\ UNCHANGED <<connected, cookie, reloads>>

(* The backend is out of reach, or the answer lost.  The gate fails open, the other waits take  *)
(* it as a failure; the request itself goes on.                                                *)
AnswerLost ==
    /\ awaiting # NoSlot
    /\ awaiting' = NoSlot
    /\ Show(CASE page = "entering" -> "app" [] page = "connect" -> "register" [] OTHER -> page)
    /\ UNCHANGED <<deskVars, connected, cookie, reloads>>

(* The polling has ended, the connect page does nothing any more, or the cookie has run out    *)
(* under a wallet that is still connected.                                                     *)
Stuck == page \in {"held", "timed out"} \/ (page = "connect" /\ connected /\ ~cookie)

(* The store starts anew, the cookie stays.  The pages that want a wallet turn to connect. *)
Reload ==
    /\ connected' = FALSE
    /\ awaiting' = NoSlot
    /\ Show(CASE page \in {"entering", "app"} -> "entering"
              [] page = "register" -> "register"
              [] OTHER -> "connect")
    /\ UNCHANGED <<deskVars, cookie>>

ReloadStuck == Stuck /\ Reload /\ UNCHANGED reloads

ReloadAnyhow ==
    /\ ~Stuck
    /\ reloads < MaxReloads
    /\ reloads' = reloads + 1
    /\ Reload

-----------------------------------------------------------------------------
Others == UNCHANGED browserVars

BrowserAsks(s) == CheckCredential(s) \/ Submit(s) \/ Poll(s) \/ AskGate(s)
BrowserTakes(s) == CheckAnswered(s) \/ SubmitAnswered(s) \/ PollAnswered(s) \/ GateAnswered(s)

(* The cookie is good for a day; nothing renews it while the wallet stays connected. *)
TimePasses ==
    /\ ClockTicks
    /\ cookie' \in {cookie, FALSE}
    /\ UNCHANGED <<page, connected, awaiting, reloads>>

(* Of an operator's own use of the service, only the revocation on the chain matters here. *)
OperatorRevokes ==
    /\ RevokeCredential(Me)
    /\ UNCHANGED <<now, registerVars, late, request, denied, browserVars>>

OnboardNext ==
    \/ Connect \/ Disconnect \/ GoBack \/ PollsEnd \/ EnterVault \/ GateWithoutCookie
    \/ AnswerLost \/ ReloadStuck \/ ReloadAnyhow
    \/ \E s \in Slots : BrowserAsks(s) \/ BrowserTakes(s)
    \/ \E s \in Slots : Serve(s) /\ Others
    \/ \E s \in Slots \ {awaiting} : Close(s) /\ Others
    \/ Settle /\ Others
    \/ OperatorRevokes
    \/ TimePasses

OnboardSafetySpec == OnboardInit /\ [][OnboardNext]_onboardVars

(* The user goes on, with polls as long as the polling keeps starting, and reloads a page that   *)
(* keeps being stuck.                                                                          *)
UserGoesOn ==
    /\ WF_onboardVars(\/ Connect \/ GoBack \/ GateWithoutCookie
                      \/ \E s \in Slots : BrowserAsks(s) \/ BrowserTakes(s))
    /\ WF_onboardVars(EnterVault)
    /\ SF_onboardVars(\E s \in Slots : Poll(s))
    /\ SF_onboardVars(ReloadStuck)

(* The backend goes on with every request, and node and network work some of the time: of the  *)
(* transactions, reads and answers that keep coming up, one gets through.  The database may    *)
(* fail every time.                                                                            *)
LandIssue(s) == request[s].pc = "sending" /\ request[s].tx.op = "issue" /\ Land(s)

Reads(p) == page = p /\ \E s \in Slots : s = awaiting /\ ReadChain(s) /\ Others

Leads(from, to) == page = from /\ page' = to /\ \E s \in Slots : BrowserTakes(s)

BackendWorks ==
    /\ \A s \in Slots : WF_onboardVars((Serve(s) \/ (s # awaiting /\ Close(s))) /\ Others)
    /\ SF_onboardVars(\E s \in Slots : LandIssue(s) /\ Others)
    /\ SF_onboardVars(\E s \in Slots : s = awaiting /\ FindExisting(s) /\ Others)
    /\ SF_onboardVars(Leads("register", "pending"))
    /\ SF_onboardVars(Reads("pending"))
    /\ SF_onboardVars(Leads("pending", "complete"))
    /\ SF_onboardVars(Reads("entering"))
    /\ SF_onboardVars(Leads("entering", "app"))

OnboardSpec == OnboardSafetySpec /\ UserGoesOn /\ BackendWorks

-----------------------------------------------------------------------------
(* Type invariant of the browser: it waits for no request that the backend does not serve. *)
OnboardTypeOK ==
    /\ page \in Pages
    /\ connected \in BOOLEAN
    /\ cookie \in BOOLEAN
    /\ awaiting \in Slots \cup {NoSlot}
    /\ awaiting # NoSlot => request[awaiting].pc # "idle"
    /\ reloads \in 0 .. MaxReloads

(* Onboarding completes: unless its credential is revoked or expires, the institution gets into *)
(* the app with a credential that the program accepts, although any transaction may be dropped, *)
(* executed late or executed with its answer lost (a second submission then meets a conflict), *)
(* any answer may be lost, and the polling gives up after a minute.                            *)
OnboardingCompletes ==
    [](~Lapsed(Me)) => <>(page = "app" /\ CredentialPasses(Me))

(* What the travel-rule service says of a wallet without a row: "complete credential            *)
(* onboarding first".  A wallet that was led to the end of the onboarding should have a row.   *)
OnboardedIsRegistered == page = "complete" => institution[Me] # "none"
=============================================================================
