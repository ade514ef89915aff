------------------------- MODULE KnowledgeContainers -------------------------
(***************************************************************************)
(* What a connector may index and who decides it: the containers of one    *)
(* connector id, their selection and its visibility gate, the runs that    *)
(* fetch their documents, the purge of what is deselected, and the         *)
(* deletion of the connector, after which its id may be used again         *)
(* (packages knowledge, connector-sdk/knowledge, api-server and            *)
(* knowledge-worker).                                                      *)
(*                                                                         *)
(* A statement or transaction of the store is one action; between two of   *)
(* them a run, a refresh, a PUT or a DELETE waits for the source.  One     *)
(* container stands for all: they share nothing but the run's budget,      *)
(* which may end a run at every call to the source.  A document is its     *)
(* version, the number of the source's change that made it, and a          *)
(* checkpoint is the number of the last change delivered (0 for none).  The *)
(* names in knowledge_principals are left out: a call that fetches them is a *)
(* wait for the source.                                                     *)
(***************************************************************************)
EXTENDS Platform

CONSTANTS
    Docs,
    MaxLives,    \* bound: connectors created under the id
    MaxChanges,  \* bound: changes of documents at the source
    MaxTurns     \* bound: changes of the container at the source

Rows == [id : Nat, sel : BOOLEAN, ack : BOOLEAN, purge : BOOLEAN, gone : BOOLEAN, open : BOOLEAN, ck : Nat]
Indexed == [ver : Nat, life : Nat]

ASSUME ContainersAssumption ==
    /\ {MaxLives, MaxChanges, MaxTurns} \subseteq Nat
    /\ NULL \notin Docs \cup {"wait", "remove", "end"} /\ NULL \notin Rows /\ NULL \notin Indexed

VARIABLES
    src,        \* the source: exists, open, docs (versions, 0 for absent), n changes, turns left
    row,        \* the row of knowledge_containers, or NULL
    docs,       \* per document: its row [ver, life], ver 0 for a tombstone, or NULL
    life,       \* the recorded connector-life, 0 for none
    empty,      \* the empty-listing mark
    conn,       \* the registry's connector: its createdAt, 0 for none
    born,       \* connectors created
    cachedLife,      \* the scheduler's cached life
    run, refresh, put, del,  \* the run, refresh, PUT and DELETE in flight, or NULL
    consent,    \* an admin accepted the container's visibility (history)
    lastEmpty   \* the last completed listing was empty (history)

store == <<row, docs, life, empty, consent>>
registry == <<conn, born>>
requests == <<refresh, put, del>>
containerVars == <<src, store, lastEmpty, registry, cachedLife, run, requests>>

NoRow == [id |-> 0, sel |-> FALSE, ack |-> FALSE, purge |-> FALSE, gone |-> FALSE, open |-> TRUE, ck |-> 0]

\* Nothing yet, or what a connector left that was deleted while the
\* knowledge layer was switched off.  Bound: what is left was restricted and
\* accepted, what is new is open; Turn changes either.
ContainersInit ==
    /\ \E left \in {0, 1} :
        /\ src = [exists |-> TRUE, open |-> left = 0, docs |-> [d \in Docs |-> left], n |-> left,
                turns |-> MaxTurns]
        /\ row = IF left = 0 THEN NULL
                 ELSE [NoRow EXCEPT !.id = 1, !.sel = TRUE, !.ack = TRUE, !.open = FALSE, !.ck = 1]
        /\ docs = [d \in Docs |-> IF left = 0 THEN NULL ELSE [ver |-> 1, life |-> 1]]
        /\ life = left /\ born = left
        /\ consent = (left = 1)
    /\ empty = FALSE /\ lastEmpty = FALSE
    /\ conn = 0 /\ cachedLife = 0
    /\ run = NULL /\ refresh = NULL /\ put = NULL /\ del = NULL

-----------------------------------------------------------------------------
(* The source.                                                              *)

Listed == [exists |-> src.exists, open |-> src.open]

Change(d) ==
    /\ src.n < MaxChanges
    /\ \/ src' = [src EXCEPT !.docs[d] = src.n + 1, !.n = @ + 1]
       \/ src.docs[d] > 0 /\ src' = [src EXCEPT !.docs[d] = 0, !.n = @ + 1]
    /\ UNCHANGED <<store, lastEmpty, registry, cachedLife, run, requests>>

Turn ==
    /\ src.turns > 0
    /\ \/ src' = [src EXCEPT !.open = ~@, !.turns = @ - 1]
       \/ src' = [src EXCEPT !.exists = ~@, !.turns = @ - 1]
    /\ UNCHANGED <<store, lastEmpty, registry, cachedLife, run, requests>>

-----------------------------------------------------------------------------
(* The store.                                                               *)

Held == {d \in Docs : docs[d] # NULL}
Live == {d \in Held : docs[d].ver > 0}

Cleared == IF row = NULL \/ Held = {} THEN NULL
           ELSE [row EXCEPT !.sel = FALSE, !.ack = FALSE, !.purge = TRUE, !.gone = TRUE]

ClearConnector ==
    /\ row' = Cleared
    /\ consent' = FALSE

BeginConnectorLife ==
    IF life >= conn
    THEN UNCHANGED <<row, life, consent>>
    ELSE ClearConnector /\ life' = conn

EnsureLife ==
    /\ cachedLife' = conn
    /\ IF cachedLife = conn THEN UNCHANGED <<row, life, consent>> ELSE BeginConnectorLife

\* A row on its way out stays that way.
Relisted(r) == [r EXCEPT !.gone = @ /\ r.purge]

\* randomUUID(): an id no request holds
NewId == IF put # NULL /\ put.id = 1 THEN 2 ELSE 1

UpsertContainer(seen) ==
    IF row = NULL
    THEN row' = [NoRow EXCEPT !.id = NewId, !.open = seen.open]
    ELSE row' = [Relisted(row) EXCEPT !.open = seen.open]

UpsertContainers(seen) ==
    IF seen.exists THEN UpsertContainer(seen)
    ELSE row' = IF row = NULL THEN NULL ELSE [row EXCEPT !.gone = TRUE]

\* selectedContainers()
Eligible == row # NULL /\ row.sel /\ ~row.gone /\ ~row.purge /\ (row.open \/ row.ack)

\* selectContainer()
Selected(r, ack) == [r EXCEPT !.sel = TRUE, !.ack = @ \/ (ack /\ ~r.open), !.purge = FALSE]
DeselectedAck(r) == [r EXCEPT !.sel = FALSE, !.purge = TRUE]
Deselected(r) == [r EXCEPT !.sel = FALSE, !.ack = FALSE, !.purge = TRUE]

\* purgeBatch(), from the worker's housekeeping
PurgeBatch ==
    /\ row # NULL /\ row.purge /\ ~row.sel
    /\ docs' = [d \in Docs |-> NULL]
    /\ row' = IF row.gone THEN NULL ELSE [row EXCEPT !.purge = FALSE, !.ck = 0]
    /\ UNCHANGED <<src, life, empty, consent, lastEmpty, registry, cachedLife, run, requests>>

DeleteTombstones ==
    /\ Held # Live
    /\ docs' = [d \in Docs |-> IF d \in Live THEN docs[d] ELSE NULL]
    /\ UNCHANGED <<src, row, life, empty, consent, lastEmpty, registry, cachedLife, run, requests>>

-----------------------------------------------------------------------------
(* A run: KnowledgeSyncScheduler.runJobNow() and KnowledgeHarness.run().    *)
(* Runs of a connector wait for each other.  An aborted run ends at its     *)
(* next call to the source; a statement it has sent is carried out.         *)

RunBegin(mode) ==
    /\ conn # 0 /\ del = NULL /\ run = NULL
    /\ EnsureLife
    /\ run' = [mode |-> mode, at |-> IF mode = "reconcile" THEN "list" ELSE "select",
               stop |-> FALSE, ck |-> 0, got |-> NULL]
    /\ UNCHANGED <<src, docs, empty, lastEmpty, registry, requests>>

RunAt(at) == run # NULL /\ run.at = at
Asking(at) == RunAt(at) /\ ~run.stop
RunGoes(at, got) == run' = [run EXCEPT !.at = at, !.got = got]

\* Aborted, out of budget, rate limited, or refused by the source.
RunEnds ==
    /\ run # NULL /\ run.at \in {"list", "people", "fetch", "ids"}
    /\ run' = NULL
    /\ UNCHANGED <<src, store, lastEmpty, registry, cachedLife, requests>>

\* A listing that fails is recorded, and the run goes on.
RunList ==
    /\ Asking("list")
    /\ RunGoes("upsert", Listed) \/ RunGoes("select", NULL)
    /\ UNCHANGED <<src, store, lastEmpty, registry, cachedLife, requests>>

RunUpsert ==
    /\ RunAt("upsert") /\ UpsertContainers(run.got) /\ RunGoes("select", NULL)
    /\ UNCHANGED <<src, docs, life, empty, consent, lastEmpty, registry, cachedLife, requests>>

RunSelect ==
    /\ RunAt("select")
    /\ run' = IF Eligible
              THEN [run EXCEPT !.at = IF run.mode = "poll" THEN "fetch" ELSE "people", !.ck = row.ck]
              ELSE NULL
    /\ UNCHANGED <<src, store, lastEmpty, registry, cachedLife, requests>>

\* refreshPrincipals(); then the connector's own reconcile(), if it has one.
RunPeople ==
    /\ Asking("people")
    /\ RunGoes("fetch", NULL) \/ RunGoes("ids", NULL)
    /\ UNCHANGED <<src, row, docs, life, empty, consent, lastEmpty, registry, cachedLife, requests>>

\* A batch of fetchChanges() delivers the changes up to number b, and the
\* deletions of some kinds of documents; one of reconcile() all there is,
\* without a checkpoint.
Batch(b, deleted) ==
    [docs |-> {d \in Docs : src.docs[d] \in (run.ck + 1)..b}, ver |-> src.docs,
     deleted |-> deleted, ck |-> b, last |-> b = src.n]
\* Of files a poll reports the deletion, of pull requests and issues it does not.
Deletions == {{}, {d \in Docs : src.docs[d] = 0}}
Rescan == [docs |-> {d \in Docs : src.docs[d] > 0}, ver |-> src.docs, deleted |-> {}, ck |-> 0, last |-> TRUE]

RunFetch ==
    /\ Asking("fetch")
    /\ IF run.mode = "poll"
       THEN \E b \in 1..src.n, deleted \in Deletions :
                b >= run.ck /\ RunGoes("store", Batch(b, deleted))
       ELSE RunGoes("store", Rescan)
    /\ UNCHANGED <<src, store, lastEmpty, registry, cachedLife, requests>>

\* KnowledgeContainerChanged
ChangedSelection == row = NULL \/ ~row.sel
Changed == row = NULL \/ ~row.sel \/ row.ck # run.ck

Tombstoned(gone) == [d \in Docs |-> IF d \in gone /\ d \in Live THEN [docs[d] EXCEPT !.ver = 0] ELSE docs[d]]

StoreBatch(batch) ==
    /\ docs' = [d \in Docs |-> IF d \in batch.docs THEN [ver |-> batch.ver[d], life |-> conn]
                               ELSE Tombstoned(batch.deleted)[d]]
    /\ row' = [row EXCEPT !.ck = IF batch.ck = 0 THEN @ ELSE batch.ck]

RunStore ==
    /\ RunAt("store")
    /\ IF Changed THEN run' = NULL /\ UNCHANGED <<row, docs>>
       ELSE /\ StoreBatch(run.got)
            /\ run' = IF run.stop \/ (run.mode = "poll" /\ run.got.last) THEN NULL
                      ELSE [run EXCEPT !.at = IF run.mode = "poll" THEN "fetch" ELSE "ids",
                                       !.got = NULL, !.ck = row'.ck]
    /\ UNCHANGED <<src, life, empty, consent, lastEmpty, registry, cachedLife, requests>>

\* listDocumentIds(); a fault at the source may list nothing, but not after
\* a listing of nothing.
RunIds ==
    /\ Asking("ids")
    /\ \/ RunGoes("prune", {d \in Docs : src.docs[d] > 0})
       \/ ~lastEmpty /\ RunGoes("prune", {})
    /\ UNCHANGED <<src, store, lastEmpty, registry, cachedLife, requests>>

\* No batch is stored between a listing and its prune, as runs wait for each
\* other, so every document is older than the listing.
Unlisted == Live \ run.got
Doubted == run.got = {} /\ Unlisted # {} /\ ~empty

RunPrune ==
    /\ RunAt("prune") /\ run' = NULL
    /\ lastEmpty' = (run.got = {})
    /\ empty' = Doubted
    /\ docs' = IF Doubted THEN docs ELSE Tombstoned(Unlisted)
    /\ UNCHANGED <<src, row, life, consent, registry, cachedLife, requests>>

-----------------------------------------------------------------------------
(* POST containers/refresh: refreshContainers().                            *)

\* Bound: one admin works on the containers at a time, while runs and a
\* deletion go on.
NoRequest == refresh = NULL /\ put = NULL

RefreshBegin ==
    /\ conn # 0 /\ del = NULL /\ NoRequest
    /\ EnsureLife
    /\ refresh' = [at |-> "list", stop |-> FALSE, got |-> NULL]
    /\ UNCHANGED <<src, docs, empty, lastEmpty, registry, run, put, del>>

RefreshList ==
    /\ refresh # NULL /\ refresh.at = "list" /\ ~refresh.stop
    /\ refresh' = [refresh EXCEPT !.at = "upsert", !.got = Listed]
    /\ UNCHANGED <<src, store, lastEmpty, registry, cachedLife, run, put, del>>

RefreshEnds ==
    /\ refresh # NULL /\ refresh.at \in {"list", "people"} /\ refresh' = NULL
    /\ UNCHANGED <<src, store, lastEmpty, registry, cachedLife, run, put, del>>

RefreshUpsert ==
    /\ refresh # NULL /\ refresh.at = "upsert"
    /\ UpsertContainers(refresh.got)
    /\ refresh' = IF row' # NULL /\ row'.sel THEN [refresh EXCEPT !.at = "people"] ELSE NULL
    /\ UNCHANGED <<src, docs, life, empty, consent, lastEmpty, registry, cachedLife, run, put, del>>

RefreshPeople ==
    /\ refresh # NULL /\ refresh.at = "people" /\ ~refresh.stop
    /\ refresh' = NULL
    /\ UNCHANGED <<src, row, docs, life, empty, consent, lastEmpty, registry, cachedLife, run, put, del>>

-----------------------------------------------------------------------------
(* PUT containers/:containerId.  Selecting an open container first asks the *)
(* source whether it still is.                                              *)

PutBegin(sel, ack) ==
    /\ conn # 0 /\ NoRequest
    /\ IF del = NULL THEN EnsureLife ELSE UNCHANGED <<row, life, cachedLife, consent>>
    /\ row' # NULL
    /\ sel => ~row'.gone /\ (row'.open \/ ack)
    /\ put' = [id |-> row'.id, sel |-> sel, ack |-> ack, stop |-> FALSE, got |-> NULL,
               at |-> IF sel /\ row'.open THEN "ask" ELSE "write"]
    /\ UNCHANGED <<src, docs, empty, lastEmpty, registry, run, refresh, del>>

PutAsk ==
    /\ put # NULL /\ put.at = "ask" /\ conn # 0 /\ del = NULL
    /\ EnsureLife
    /\ put' = IF src.exists THEN [put EXCEPT !.at = "upsert", !.got = Listed] ELSE NULL
    /\ UNCHANGED <<src, docs, empty, lastEmpty, registry, run, refresh, del>>

\* refused: the connector is unknown or being deleted, or the source fails.
PutEnds ==
    /\ put # NULL /\ put.at = "ask" /\ put' = NULL
    /\ UNCHANGED <<src, store, lastEmpty, registry, cachedLife, run, refresh, del>>

PutUpsert ==
    /\ put # NULL /\ put.at = "upsert"
    /\ IF put.stop THEN UNCHANGED row /\ put' = NULL
       ELSE /\ UpsertContainer(put.got)
            /\ put' = IF row'.id = put.id /\ ~row'.gone /\ (row'.open \/ put.ack)
                      THEN [put EXCEPT !.at = "write"] ELSE NULL
    /\ UNCHANGED <<src, docs, life, empty, consent, lastEmpty, registry, cachedLife, run, refresh, del>>

\* selectContainer(): the row the request read, and not one that is gone.
Selectable == row # NULL /\ row.id = put.id /\ (put.sel => ~row.gone)

PutWrite ==
    /\ put # NULL /\ put.at = "write" /\ put' = NULL
    /\ IF ~Selectable THEN UNCHANGED <<row, consent>>
       ELSE /\ row' = IF put.sel THEN Selected(row, put.ack) ELSE Deselected(row)
            /\ consent' = (put.sel /\ (consent \/ put.ack))
    /\ UNCHANGED <<src, docs, life, empty, lastEmpty, registry, cachedLife, run, refresh, del>>

-----------------------------------------------------------------------------
(* The registry's connector: created, deleted, and the registry restarted.    *)

CreateConnector ==
    /\ conn = 0 /\ born < MaxLives
    /\ born' = born + 1 /\ conn' = born + 1
    /\ UNCHANGED <<src, store, lastEmpty, cachedLife, run, requests>>

Stopped(p) == IF p = NULL THEN NULL ELSE [p EXCEPT !.stop = TRUE]

\* retire(): nothing new starts, and what is under way is aborted.
DeleteBegin ==
    /\ del = NULL
    /\ del' = "wait"
    /\ run' = Stopped(run) /\ refresh' = Stopped(refresh)
    /\ put' = IF put # NULL /\ put.at = "upsert" THEN Stopped(put) ELSE put
    /\ UNCHANGED <<src, store, lastEmpty, registry, cachedLife>>

\* What retire() waits for.
RetiredAtOnce == TRUE
Retired == run = NULL /\ refresh = NULL /\ ~(put # NULL /\ put.at = "upsert")

\* deselectConnector(); an id the registry does not know ends here.
DeleteMark ==
    /\ del = "wait" /\ Retired
    /\ ClearConnector /\ life' = 0
    /\ del' = IF conn = 0 THEN "end" ELSE "remove"
    /\ UNCHANGED <<src, docs, empty, lastEmpty, registry, cachedLife, run, refresh, put>>

\* The purge cannot be recorded: the connector stays.
DeleteFails ==
    /\ del = "wait" /\ Retired
    /\ del' = "end"
    /\ UNCHANGED <<src, store, lastEmpty, registry, cachedLife, run, refresh, put>>

DeleteRemove ==
    /\ del = "remove" /\ conn' = 0 /\ del' = "end"
    /\ UNCHANGED <<src, store, lastEmpty, born, cachedLife, run, refresh, put>>

\* unretire()
DeleteEnd ==
    /\ del = "end" /\ del' = NULL /\ cachedLife' = 0
    /\ UNCHANGED <<src, store, lastEmpty, registry, run, refresh, put>>

ContainersRestart ==
    /\ cachedLife' = 0 /\ run' = NULL /\ refresh' = NULL /\ put' = NULL /\ del' = NULL
    /\ UNCHANGED <<src, store, lastEmpty, conn, born>>

-----------------------------------------------------------------------------
RunStep ==
    \/ RunEnds \/ RunList \/ RunUpsert \/ RunSelect \/ RunPeople
    \/ RunFetch \/ RunStore \/ RunIds \/ RunPrune
RefreshStep == RefreshList \/ RefreshEnds \/ RefreshUpsert \/ RefreshPeople
PutStep == PutAsk \/ PutEnds \/ PutUpsert \/ PutWrite
DeleteStep == DeleteMark \/ DeleteFails \/ DeleteRemove \/ DeleteEnd

ContainersNext ==
    \/ \E d \in Docs : Change(d)
    \/ Turn \/ PurgeBatch \/ DeleteTombstones
    \/ \E mode \in {"poll", "reconcile"} : RunBegin(mode)
    \/ RefreshBegin
    \/ \E sel, ack \in BOOLEAN : (ack => sel) /\ PutBegin(sel, ack)
    \/ RunStep \/ RefreshStep \/ PutStep
    \/ CreateConnector \/ DeleteBegin \/ DeleteStep \/ ContainersRestart

-----------------------------------------------------------------------------
\* Content the source restricts is fetched only while an admin's explicit
\* acceptance stands, given for this connector and since the container was
\* last deselected (selectedContainers() and the PUT route): never because of
\* what was accepted before, or of what the container was when it was chosen.
RestrictedNeedsConsent == part = "containers" /\ Eligible /\ ~row.open => consent

\* Once a deletion is over, or the registry has looked at the rows of a new
\* connector, what an earlier connector under the same id indexed is on its
\* way out and nothing can keep it: deselected, gone and waiting for the purge
\* (retire(), beginConnectorLife(), and the runs, listings and selections that
\* race them).
EarlierLifeIsDoomed ==
    part = "containers" /\ ((conn # 0 /\ cachedLife = conn) \/ (conn = 0 /\ life = 0)) =>
        \A d \in Held : docs[d].life # conn => ~row.sel /\ row.purge /\ row.gone

\* The checkpoint of a selected container never claims a change that is not
\* stored: no deselection, purge, reselection, restart or stale batch makes a
\* poll skip a document the source still has (storeBatch()'s checks), and no
\* single mistaken listing of nothing removes one (pruneMissing()'s mark).
NothingSkipped ==
    part = "containers" /\ row # NULL /\ row.sel =>
        \A d \in Docs : src.docs[d] \in 1..row.ck => d \in Live /\ docs[d].ver = src.docs[d]
=============================================================================
