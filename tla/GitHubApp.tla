------------------------------ MODULE GitHubApp ------------------------------
(***************************************************************************)
(* Creating a GitHub App from the connector wizard: the wizard in the      *)
(* browser's tabs, the record of a pending launch in localStorage, and the *)
(* server's one-time state tokens and credential slots                     *)
(* (add-github-connector-wizard, pending-github-app, github-app-manifest-  *)
(* service, github-app-service and the manifest routes).                   *)
(*                                                                         *)
(* A launch is numbered; the number stands for its state token, its nonce  *)
(* and the App that GitHub creates for it.  App 0 is none, App -1 one the  *)
(* administrator already has and pastes in.                                *)
(***************************************************************************)
EXTENDS Platform

CONSTANTS
    Tabs,
    Installations,
    MaxLaunches,    \* bound
    MaxPolls        \* bound: polls of a tab that wait for their answer

LaunchTargets == {"instance", "global"}
ASSUME GitHubAppAssumption ==
    MaxLaunches \in Nat /\ MaxPolls \in Nat /\ NULL \notin LaunchTargets

VARIABLES
    launches,   \* per launch: "instance" or "global", its target
    stateTokens, \* launches whose state token is outstanding
    exchanges,  \* launches whose code is being exchanged
    slots,      \* pendingInstance: launches whose credentials wait to be claimed
    globalApp,  \* the shared App of the server
    record,     \* localStorage: the pending launch and what was claimed for it, or NULL
    tab,        \* per tab: the wizard
    installed   \* connectors created: installation and App

serverVars == <<stateTokens, exchanges, slots, globalApp>>
appVars == <<launches, serverVars, record, tab, installed>>

Own == -1
Steps == <<"app", "connect", "configure", "review">>

(* reset(): mode, the launch waited for, the App attached, what was pasted *)
(* over it or as the shared App, the installation, the last probe; polls,  *)
(* probe and owner check in flight are not the wizard's to reset.          *)
Fresh(w) ==
    [w EXCEPT !.step = 1, !.mode = "per-org", !.waits = 0, !.app = 0, !.pasted = FALSE,
              !.shared = 0, !.manifest = FALSE, !.inst = NULL, !.probed = NULL,
              !.polls = {[p EXCEPT !.live = FALSE] : p \in w.polls}]

AppInit ==
    /\ launches = <<>> /\ stateTokens = {} /\ exchanges = {} /\ slots = {} /\ globalApp = 0
    /\ record = NULL /\ installed = {}
    /\ tab = [t \in Tabs |->
                [open |-> FALSE, step |-> 1, mode |-> "per-org", waits |-> 0, app |-> 0,
                 pasted |-> FALSE, shared |-> 0, manifest |-> FALSE, check |-> NULL, inst |-> NULL,
                 probing |-> NULL, probed |-> NULL, polls |-> {}, sees |-> 0]]

Showing(t, s) == tab[t].open /\ Steps[tab[t].step] = s
Configured(t) == tab[t].sees # 0

-----------------------------------------------------------------------------
(* Opening restores the pending launch of this browser, with the App when  *)
(* a tab has claimed it; `sees` is the App status, fetched again.  Without *)
(* a record a launch that came while the wizard was closed is waited for.  *)
OpenWizard(t) ==
    /\ Op /\ ~tab[t].open
    /\ tab' = [tab EXCEPT ![t] =
         [@ EXCEPT !.open = TRUE, !.sees = globalApp, !.manifest = FALSE,
                   !.waits = IF record = NULL THEN tab[t].waits
                             ELSE IF record.claimed = 0 THEN record.nonce ELSE 0,
                   !.app = IF record = NULL THEN tab[t].app ELSE record.claimed]]
    /\ UNCHANGED <<launches, serverVars, record, installed>>

CloseWizard(t) ==
    /\ NoOp /\ tab[t].open
    /\ tab' = [tab EXCEPT ![t] = [Fresh(@) EXCEPT !.open = FALSE]]
    /\ UNCHANGED <<launches, serverVars, record, installed>>

SelectMode(t, m) ==
    /\ NoOp /\ Showing(t, "app") /\ tab[t].mode # m
    /\ tab' = [tab EXCEPT ![t].mode = m]
    /\ UNCHANGED <<launches, serverVars, record, installed>>

(* The launch routes issue a state token. *)
IssueState(target) ==
    /\ Len(launches) < MaxLaunches
    /\ launches' = Append(launches, target)
    /\ stateTokens' = stateTokens \cup {Len(launches) + 1}
    /\ UNCHANGED <<exchanges, slots, globalApp>>

(* owner-check: a login that GitHub says does not exist is refused, and so *)
(* is one where the request itself failed.                                 *)
OwnerAnswers == {"exists", "unknown", "missing", "failed"}
OwnerAdmitted(answer) == answer \in {"exists", "unknown"}

(* The two buttons, which a check under way disables.                      *)
MayLaunch(t, target) ==
    /\ Showing(t, "app") /\ tab[t].check = NULL /\ Len(launches) < MaxLaunches
    /\ IF target = "instance"
       THEN tab[t].mode = "per-org" /\ tab[t].waits = 0 /\ tab[t].app = 0
       ELSE tab[t].mode = "shared" /\ ~Configured(t) /\ ~tab[t].manifest

(* ensureOwnerExists() asks for the owner first.  For a shared App the owner *)
(* may be left blank, which is not asked for: as if answered at once.      *)
CheckOwner(t, target) ==
    /\ NoOp /\ MayLaunch(t, target)
    /\ tab' = [tab EXCEPT ![t].check = target]
    /\ UNCHANGED <<launches, serverVars, record, installed>>

(* The answer launches, whatever the wizard shows by then, closed included. *)
(* handleCreateInstanceApp() goes on: *)
CreateInstanceApp(t, answer) ==
    /\ NoOp /\ tab[t].check = "instance" /\ OwnerAdmitted(answer)
    /\ IssueState("instance")
    /\ record' = [nonce |-> Len(launches) + 1, claimed |-> 0]
    /\ tab' = [tab EXCEPT ![t].check = NULL, ![t].waits = Len(launches) + 1]
    /\ UNCHANGED installed

(* handleCreateFromTemplate() goes on: *)
CreateFromTemplate(t, answer) ==
    /\ NoOp /\ tab[t].check = "global" /\ OwnerAdmitted(answer)
    /\ IssueState("global")
    /\ tab' = [tab EXCEPT ![t].check = NULL, ![t].manifest = TRUE]
    /\ UNCHANGED <<record, installed>>

OwnerRefused(t, answer) ==
    /\ NoOp /\ tab[t].check # NULL /\ ~OwnerAdmitted(answer)
    /\ tab' = [tab EXCEPT ![t].check = NULL]
    /\ UNCHANGED <<launches, serverVars, record, installed>>

(* "Cancel" of the two waits.  A changed wait ends the effect that polls.  *)
CancelWait(t) ==
    /\ NoOp /\ Showing(t, "app") /\ tab[t].waits # 0
    /\ record' = NULL
    /\ tab' = [tab EXCEPT ![t].waits = 0,
                          ![t].polls = {[p EXCEPT !.live = FALSE] : p \in tab[t].polls}]
    /\ UNCHANGED <<launches, serverVars, installed>>

CancelManifest(t) ==
    /\ NoOp /\ Showing(t, "app") /\ tab[t].manifest
    /\ tab' = [tab EXCEPT ![t].manifest = FALSE]
    /\ UNCHANGED <<launches, serverVars, record, installed>>

(* discardPerOrgCreatedApp(). *)
DiscardApp(t) ==
    /\ NoOp /\ Showing(t, "app") /\ tab[t].app > 0
    /\ record' = NULL
    /\ tab' = [tab EXCEPT ![t].app = 0, ![t].pasted = FALSE, ![t].probed = NULL]
    /\ UNCHANGED <<launches, serverVars, installed>>

(* The credentials of an App the administrator already has, also over those *)
(* of an App that was attached, which goes on being shown.                 *)
PasteApp(t) ==
    /\ Op /\ Showing(t, "app")
    /\ tab' = [tab EXCEPT ![t] = IF @.mode = "per-org" THEN [@ EXCEPT !.pasted = TRUE, !.probed = NULL]
                                 ELSE [@ EXCEPT !.shared = Own, !.probed = NULL]]
    /\ UNCHANGED <<launches, serverVars, record, installed>>

-----------------------------------------------------------------------------
(* The callback consumes the token, exchanges the code and writes the key  *)
(* files; the App then fills the slot of its nonce, or becomes the shared  *)
(* App whatever that was before.                                           *)
ManifestCallback(l) ==
    /\ NoOp /\ l \in stateTokens
    /\ stateTokens' = stateTokens \ {l} /\ exchanges' = exchanges \cup {l}
    /\ UNCHANGED <<launches, slots, globalApp, record, tab, installed>>

ExchangeAndPersist(l) ==
    /\ NoOp /\ l \in exchanges /\ exchanges' = exchanges \ {l}
    /\ slots' = IF launches[l] = "instance" THEN slots \cup {l} ELSE slots
    /\ globalApp' = IF launches[l] = "global" THEN l ELSE globalApp
    /\ UNCHANGED <<launches, stateTokens, record, tab, installed>>

(* GitHub or Secret Manager refuses. *)
ExchangeFails(l) ==
    /\ Op /\ l \in exchanges /\ exchanges' = exchanges \ {l}
    /\ UNCHANGED <<launches, stateTokens, slots, globalApp, record, tab, installed>>

(* gc(): fifteen minutes; or a restart, which forgets both maps. *)
TokensExpire ==
    /\ Op /\ stateTokens \cup slots # {} /\ stateTokens' = {} /\ slots' = {}
    /\ UNCHANGED <<launches, exchanges, globalApp, record, tab, installed>>

(* STALE_MS: the record of a launch is forgotten after half an hour. *)
RecordExpires ==
    /\ Op /\ record # NULL /\ record' = NULL
    /\ UNCHANGED <<launches, serverVars, tab, installed>>

(* The poll: consumePendingInstance() on the server, and later its answer. *)
PollPending(t) ==
    /\ NoOp /\ tab[t].open /\ tab[t].waits # 0 /\ Cardinality(tab[t].polls) < MaxPolls
    /\ LET n == tab[t].waits IN
         /\ tab' = [tab EXCEPT ![t].polls =
              @ \cup {[nonce |-> n, got |-> IF n \in slots THEN n ELSE 0, live |-> TRUE]}]
         /\ slots' = slots \ {n}
    /\ UNCHANGED <<launches, stateTokens, exchanges, globalApp, record, installed>>

(* apply(): the App is attached and the wait is over. *)
Attach(w, a, p) ==
    [w EXCEPT !.app = a, !.pasted = FALSE, !.waits = 0, !.probed = NULL,
              !.polls = {[q EXCEPT !.live = FALSE] : q \in w.polls \ {p}}]

Heard(w, p) == [w EXCEPT !.polls = @ \ {p}]

MarkClaimed(rec, app) == IF rec = NULL THEN rec ELSE [rec EXCEPT !.claimed = app]

(* Faulty variant of PollAnswer: an answer is used after its wait was cancelled.   *)
LateAnswer(t, p) ==
    /\ NoOp /\ p \in tab[t].polls
    /\ LET found == IF p.got # 0 THEN p.got ELSE IF record # NULL THEN record.claimed ELSE 0 IN
         /\ tab' = [tab EXCEPT ![t] = IF found # 0 THEN Attach(@, found, p)
                                      ELSE Heard(@, p)]
         /\ record' = IF p.got # 0 THEN MarkClaimed(record, p.got) ELSE record
    /\ UNCHANGED <<launches, serverVars, installed>>

(* An answer that comes after the wait was cancelled is dropped.  One that *)
(* brings credentials puts them into the record for the other tabs; one    *)
(* that brings none looks there for what another tab has claimed.          *)
PollAnswer(t, p) ==
    /\ NoOp /\ p \in tab[t].polls
    /\ LET found == IF ~p.live THEN 0
                    ELSE IF p.got # 0 THEN p.got ELSE IF record # NULL THEN record.claimed ELSE 0 IN
         /\ tab' = [tab EXCEPT ![t] = IF found # 0 THEN Attach(@, found, p)
                                      ELSE Heard(@, p)]
         /\ record' = IF p.live /\ p.got # 0 THEN MarkClaimed(record, p.got) ELSE record
    /\ UNCHANGED <<launches, serverVars, installed>>

(* The status query, refetched while a shared App is being created.        *)
SeeAppStatus(t) ==
    /\ NoOp /\ tab[t].open /\ tab[t].manifest
    /\ tab' = [tab EXCEPT ![t].sees = globalApp, ![t].manifest = globalApp = 0]
    /\ UNCHANGED <<launches, serverVars, record, installed>>

-----------------------------------------------------------------------------
(* effectiveOverride, and the App a probe or a create then uses. *)
Uses(t) ==
    IF tab[t].mode = "per-org" THEN IF tab[t].pasted THEN Own ELSE tab[t].app
    ELSE IF Configured(t) THEN tab[t].sees ELSE tab[t].shared

AppStepValid(t) == Uses(t) # 0
(* The picker of a shared App knows the installations that are taken. *)
PickerEligible(t) == tab[t].mode = "shared" /\ Configured(t)
Duplicate(t) == PickerEligible(t) /\ \E x \in installed : x.inst = tab[t].inst
ProbeOk(t) == tab[t].probed # NULL /\ tab[t].probed.ok /\ ~Duplicate(t)
CanAdvance(t) ==
    CASE Showing(t, "app") -> AppStepValid(t)
      [] Showing(t, "connect") -> ProbeOk(t)
      [] OTHER -> TRUE

GoNext(t) ==
    /\ NoOp /\ tab[t].open /\ tab[t].step < Len(Steps) /\ CanAdvance(t)
    /\ tab' = [tab EXCEPT ![t].step = @ + 1]
    /\ UNCHANGED <<launches, serverVars, record, installed>>

GoBack(t) ==
    /\ Op /\ tab[t].open /\ tab[t].step > 1
    /\ tab' = [tab EXCEPT ![t].step = @ - 1]
    /\ UNCHANGED <<launches, serverVars, record, installed>>

(* An installation, typed or picked, and the test of it; the answer is     *)
(* stored whatever has been changed since.                                 *)
ChooseInstallation(t, i) ==
    /\ Op /\ Showing(t, "connect")
    /\ tab' = [tab EXCEPT ![t].inst = i, ![t].probed = NULL]
    /\ UNCHANGED <<launches, serverVars, record, installed>>

ProbeConnector(t) ==
    /\ NoOp /\ Showing(t, "connect") /\ tab[t].inst # NULL /\ tab[t].probing = NULL
    /\ AppStepValid(t)
    /\ tab' = [tab EXCEPT ![t].probing = [inst |-> tab[t].inst, app |-> Uses(t)]]
    /\ UNCHANGED <<launches, serverVars, record, installed>>

ProbeAnswer(t, ok) ==
    /\ NoOp /\ tab[t].probing # NULL
    /\ tab' = [tab EXCEPT ![t].probing = NULL,
                          ![t].probed = [inst |-> tab[t].probing.inst, app |-> tab[t].probing.app,
                                         ok |-> ok]]
    /\ UNCHANGED <<launches, serverVars, record, installed>>

(* handleCreate(): PUT /github/app when a shared App was pasted, refused   *)
(* when the App is no longer the one this wizard saw; then the connector.  *)
NeedsShared(t) == tab[t].mode = "shared" /\ ~Configured(t)
HandleCreate(t) ==
    /\ NoOp /\ Showing(t, "review") /\ tab[t].inst # NULL
    /\ NeedsShared(t) => globalApp = tab[t].sees
    /\ globalApp' = IF NeedsShared(t) THEN tab[t].shared ELSE globalApp
    /\ installed' = installed \cup {[inst |-> tab[t].inst, app |-> Uses(t)]}
    /\ record' = NULL
    /\ tab' = [tab EXCEPT ![t] = [Fresh(@) EXCEPT !.open = FALSE]]
    /\ UNCHANGED <<launches, stateTokens, exchanges, slots>>

AppNext ==
    \/ \E t \in Tabs :
         \/ OpenWizard(t) \/ CloseWizard(t)
         \/ \E m \in {"per-org", "shared"} : SelectMode(t, m)
         \/ CancelWait(t) \/ CancelManifest(t)
         \/ \E target \in LaunchTargets : CheckOwner(t, target)
         \/ \E answer \in OwnerAnswers :
               CreateInstanceApp(t, answer) \/ CreateFromTemplate(t, answer) \/ OwnerRefused(t, answer)
         \/ DiscardApp(t) \/ PasteApp(t)
         \/ PollPending(t) \/ SeeAppStatus(t)
         \/ \E p \in tab[t].polls : PollAnswer(t, p)
         \/ GoNext(t) \/ GoBack(t)
         \/ \E i \in Installations : ChooseInstallation(t, i)
         \/ ProbeConnector(t) \/ HandleCreate(t)
         \/ \E ok \in BOOLEAN : ProbeAnswer(t, ok)
    \/ \E l \in 1 .. MaxLaunches : ManifestCallback(l) \/ ExchangeAndPersist(l) \/ ExchangeFails(l)
    \/ TokensExpire \/ RecordExpires

-----------------------------------------------------------------------------
(* The App attached in the wizard is the one of the launch this browser    *)
(* made last: an App whose wait was cancelled, and that GitHub created or  *)
(* the server handed out afterwards, is never attached in its place.       *)
AttachedIsLatest ==
    part = "wizard" => \A t \in Tabs : tab[t].app > 0 =>
        \A l \in 1 .. Len(launches) : launches[l] = "instance" => l <= tab[t].app
=============================================================================
