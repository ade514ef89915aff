------------------------------- MODULE Drawer --------------------------------
(***************************************************************************)
(* The connector drawer of web-ui as several admins have it open on one    *)
(* connector (connector-detail-drawer, use-connectors, the connector calls *)
(* of api.ts) over the routes it calls: each browser polls the connector   *)
(* with its ETag and its run history, keeps drafts of the scope and of the *)
(* settings, and saves them with If-Match.                                 *)
(***************************************************************************)
EXTENDS Platform

CONSTANTS
    Admins,
    MaxLives,       \* bound: connectors created under the id
    MaxLanded       \* bound: sync runs recorded

ASSUME DrawerAssumption == MaxLives \in Nat /\ MaxLanded \in Nat

VARIABLES
    row,        \* the connector in the registry, or NULL; its content stands for its hash
    life,       \* createdAt of the last connector of this id
    queued,     \* whether a sync was asked for
    runsKept,   \* sync runs in the connector's history
    drawer,     \* per admin: the connector, hash and runs the drawer shows, or NULL
    draft,      \* per admin: per tab the values it holds and the ones it was reset to
    polling,    \* per admin: the GET in flight: what its handler has read, or NULL
    sent,       \* per admin: the PATCH or DELETE in flight, or NULL
    conflict,   \* per admin: the banner of the scope tab
    unseen      \* a save replaced a value its admin had not been shown (history)

drawerVars ==
    <<row, life, queued, runsKept, drawer, draft, polling, sent, conflict, unseen>>

DrawerTabs == {"scope", "settings"}
Values == {"on", "off"}     \* of either tab; the settings hold whether it is enabled
NoDraft == [t \in DrawerTabs |-> [now |-> NULL, was |-> NULL]]

DrawerInit ==
    /\ row = [scope |-> "on", settings |-> "on", life |-> 1] /\ life = 1
    /\ queued = FALSE /\ runsKept = 0
    /\ drawer = [a \in Admins |-> NULL] /\ draft = [a \in Admins |-> NoDraft]
    /\ polling = [a \in Admins |-> NULL] /\ sent = [a \in Admins |-> NULL]
    /\ conflict = [a \in Admins |-> FALSE] /\ unseen = FALSE

-----------------------------------------------------------------------------
(* GET /connectors/:id takes the connector and its hash together, and then *)
(* waits for the runs.                                                     *)
GetConnector(a) ==
    /\ NoOp /\ polling[a] = NULL /\ row # NULL
    /\ polling' = [polling EXCEPT ![a] = [row |-> row, hash |-> row]]
    /\ UNCHANGED <<row, life, queued, runsKept, drawer, draft, sent, conflict, unseen>>

(* Faulty variant of Etag: the hash is taken once the runs are there. *)
EtagAtTheEnd(get) == IF row = NULL THEN get.hash ELSE row

(* The ETag of the answer. *)
Etag(get) == get.hash

(* The effect of the scope tab runs when the scope is another one or the   *)
(* connector is another; the one of the settings tab whenever anything of  *)
(* the connector is, its runs included.                                    *)
ResetScope(old, new) ==
    old = NULL \/ old.row.scope # new.row.scope
ResetSettings(old, new) == old = NULL \/ old.row # new.row \/ old.runs # new.runs

Reset(a, new) ==
    LET from(t) == [now |-> new.row[t], was |-> new.row[t]]
    IN  /\ draft' = [draft EXCEPT
            ![a] = [scope |-> IF ResetScope(drawer[a], new) THEN from("scope") ELSE @.scope,
                    settings |-> IF ResetSettings(drawer[a], new) THEN from("settings")
                                 ELSE @.settings]]
        /\ conflict' = [conflict EXCEPT ![a] = @ /\ ~ResetScope(drawer[a], new)]

GetLands(a) ==
    /\ NoOp /\ polling[a] # NULL
    /\ LET new == [row |-> polling[a].row, hash |-> Etag(polling[a]), runs |-> runsKept]
       IN  drawer' = [drawer EXCEPT ![a] = new] /\ Reset(a, new)
    /\ polling' = [polling EXCEPT ![a] = NULL]
    /\ UNCHANGED <<row, life, queued, runsKept, sent, unseen>>

EditDraft(a, t, v) ==
    /\ Op /\ drawer[a] # NULL /\ draft[a][t].now # v
    /\ draft' = [draft EXCEPT ![a][t].now = v]
    /\ UNCHANGED <<row, life, queued, runsKept, drawer, polling, sent, conflict, unseen>>

-----------------------------------------------------------------------------
(* patchConnector() and deleteConnector() with the hash the drawer has; a  *)
(* button is disabled while its own request is pending (bound: one request *)
(* per admin).                                                             *)
Request(a, what) ==
    /\ Op /\ drawer[a] # NULL /\ sent[a] = NULL
    /\ sent' = [sent EXCEPT ![a] = what]
    /\ UNCHANGED <<row, life, queued, runsKept, drawer, draft, polling, conflict, unseen>>

Save(a, t) ==
    Request(a, [op |-> t, value |-> draft[a][t].now,
                saw |-> [drawer[a].row EXCEPT ![t] = draft[a][t].was],
                match |-> drawer[a].hash, answer |-> NULL, open |-> TRUE])
DeleteConnector(a) ==
    Request(a, [op |-> "delete", value |-> NULL, saw |-> drawer[a].row,
                match |-> drawer[a].hash, answer |-> NULL, open |-> TRUE])

AnswerIs(a, answer) == sent' = [sent EXCEPT ![a].answer = answer]

Refused(a) ==
    /\ NoOp /\ sent[a] # NULL /\ sent[a].answer = NULL
    /\ row # sent[a].match
    /\ AnswerIs(a, IF row = NULL THEN "not found" ELSE "conflict")
    /\ UNCHANGED <<row, life, queued, runsKept, drawer, draft, polling, conflict, unseen>>

PatchApplies(a) ==
    /\ NoOp /\ sent[a] # NULL /\ sent[a].answer = NULL /\ sent[a].op \in DrawerTabs
    /\ row # NULL /\ row = sent[a].match
    /\ row' = [row EXCEPT ![sent[a].op] = sent[a].value]
    /\ unseen' = (unseen \/ row[sent[a].op] # sent[a].saw[sent[a].op])
    /\ AnswerIs(a, "ok")
    /\ UNCHANGED <<life, queued, runsKept, drawer, draft, polling, conflict>>

(* The history goes with the connector. *)
DeleteApplies(a) ==
    /\ NoOp /\ sent[a] # NULL /\ sent[a].answer = NULL /\ sent[a].op = "delete"
    /\ row # NULL /\ row = sent[a].match
    /\ row' = NULL /\ runsKept' = 0
    /\ unseen' = (unseen \/ row # sent[a].saw)
    /\ AnswerIs(a, "ok")
    /\ UNCHANGED <<life, queued, drawer, draft, polling, conflict>>

(* A save that succeeded invalidates the connector: a GET in flight is     *)
(* given up for a new one.  A deleted connector's drawer closes, which     *)
(* takes its drafts with it.                                               *)
AnswerLands(a) ==
    /\ NoOp /\ sent[a] # NULL /\ sent[a].answer # NULL
    /\ sent' = [sent EXCEPT ![a] = NULL]
    /\ LET ok == sent[a].answer = "ok"
           closes == ok /\ sent[a].op = "delete"
       IN  /\ polling' = IF ok THEN [polling EXCEPT ![a] = NULL] ELSE polling
           /\ drawer' = IF closes THEN [drawer EXCEPT ![a] = NULL] ELSE drawer
           /\ draft' = IF closes THEN [draft EXCEPT ![a] = NoDraft] ELSE draft
           /\ conflict' = [conflict EXCEPT
                ![a] = ~closes /\ (@ \/ (sent[a].open /\ sent[a].op = "scope"
                                         /\ sent[a].answer = "conflict"))]
    /\ UNCHANGED <<row, life, queued, runsKept, unseen>>

-----------------------------------------------------------------------------
(* The button is there while the drawer shows an enabled connector; the    *)
(* call that succeeds invalidates the connector.                           *)
SyncNow(a) ==
    /\ Op /\ drawer[a] # NULL /\ drawer[a].row.settings = "on" /\ row # NULL
    /\ queued' = TRUE /\ polling' = [polling EXCEPT ![a] = NULL]
    /\ UNCHANGED <<row, life, runsKept, drawer, draft, sent, conflict, unseen>>

(* A job whose connector is gone is dropped; one whose connector was       *)
(* created again is a run of the new one.                                  *)
RunRecorded ==
    /\ NoOp /\ queued /\ queued' = FALSE
    /\ runsKept' = IF row # NULL /\ runsKept < MaxLanded THEN runsKept + 1 ELSE runsKept
    /\ UNCHANGED <<row, life, drawer, draft, polling, sent, conflict, unseen>>

CreateAgain ==
    /\ Op /\ row = NULL /\ life < MaxLives
    /\ life' = life + 1 /\ row' = [scope |-> "on", settings |-> "on", life |-> life + 1]
    /\ UNCHANGED <<queued, runsKept, drawer, draft, polling, sent, conflict, unseen>>

(* The answer of a request still comes, to a tab that is gone. *)
Close(a) ==
    /\ Op /\ drawer[a] # NULL
    /\ drawer' = [drawer EXCEPT ![a] = NULL] /\ draft' = [draft EXCEPT ![a] = NoDraft]
    /\ conflict' = [conflict EXCEPT ![a] = FALSE]
    /\ sent' = [sent EXCEPT ![a] = IF @ = NULL THEN NULL ELSE [@ EXCEPT !.open = FALSE]]
    /\ UNCHANGED <<row, life, queued, runsKept, polling, unseen>>

DrawerNext ==
    \/ \E a \in Admins, t \in DrawerTabs : Save(a, t) \/ \E v \in Values : EditDraft(a, t, v)
    \/ \E a \in Admins :
          \/ GetConnector(a) \/ GetLands(a) \/ DeleteConnector(a) \/ Refused(a)
          \/ PatchApplies(a) \/ DeleteApplies(a) \/ AnswerLands(a) \/ SyncNow(a) \/ Close(a)
    \/ RunRecorded \/ CreateAgain

-----------------------------------------------------------------------------
(* With several drawers open on one connector, polls in flight and saves   *)
(* from both of their tabs, a save replaces or deletes only values its     *)
(* admin's form was filled from: nobody's change is undone by somebody who *)
(* had not been shown it.                                                  *)
SavesWhatWasShown == part = "drawer" => ~unseen
=============================================================================
