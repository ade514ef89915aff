----------------------------- MODULE Connectors ------------------------------
(***************************************************************************)
(* The connectors an administrator configures: the registry in memory, the *)
(* YAML file and the Secret Manager blob it is persisted to, the credential*)
(* files, the repeatable jobs and the run history in Redis, and the worker *)
(* that runs a connector's job (connector-registry, connector-app-store,   *)
(* sync-scheduler, connector-run-store and routes/connectors).             *)
(*                                                                         *)
(* A request suspends where the code awaits something outside the process, *)
(* and the process may die at any of those points.  Redis survives a       *)
(* restart; the YAML file and the credential files may or may not.         *)
(***************************************************************************)
EXTENDS Platform

CONSTANTS
    Ids,            \* connector ids
    Requests,       \* requests that may be in flight at a time
    Schedules,
    MaxRuns,        \* MAX_RUNS, the runs kept per connector
    MaxRestarts,    \* bound
    Overlap         \* whether requests for one id, and a new webhook secret, may overlap a create

Configs == [on : BOOLEAN, sched : Schedules, cred : BOOLEAN]
Instances == [Ids -> Configs \cup {NULL}]
(* The connectors, and per connector the version of its credential file.   *)
Blobs == [list : Instances, secret : [Ids -> Nat]]
(* A request between two of its steps: what it is about, what it leaves in *)
(* the registry, what DELETE found, and the arguments of its sync.         *)
ConnectorRequests ==
    [kind : {"create", "patch", "delete", "secret"}, id : Ids,
     new : Configs \cup {NULL}, was : Configs \cup {NULL},
     at : {"purge", "persist", "read", "write", "stop", "start", "clear"},
     list : Instances, prior : Blobs \cup {NULL}]

ASSUME ConnectorsAssumption ==
    /\ MaxRuns \in Nat \ {0} /\ MaxRestarts \in Nat /\ Overlap \in BOOLEAN
    /\ NULL \notin Configs \cup Blobs \cup ConnectorRequests

VARIABLES
    mem,        \* ConnectorRegistry.connectors
    yaml,       \* connectors.instances of the local YAML file
    blob,       \* the connector-apps secret, NULL before its first version
    key,        \* per id: the version of its credential file, 0 when there is none
    req,        \* per request: where it stands, or NULL
    chain,      \* persistChain: the requests whose persist has not ended, oldest first
    scheds,     \* per id: the patterns of its repeatable jobs in Redis
    queue,      \* ids with a job waiting (bound: one per id)
    working,    \* the id whose job the worker runs, or NULL
    status,     \* per id: SyncScheduler.statuses
    runs,       \* per id: the number of runs in its history
    restarts,
    torn,       \* ids a request for which died or failed half way (history)
    behind      \* a write to Secret Manager failed or is owed (history)

storeVars == <<yaml, blob, key>>
runVars == <<scheds, queue, working, status, runs>>
connectorVars == <<mem, storeVars, req, chain, runVars, restarts, torn, behind>>

NoInstances == [i \in Ids |-> NULL]

ConnectorsInit ==
    /\ mem = NoInstances /\ yaml = NoInstances /\ blob = NULL
    /\ key = [i \in Ids |-> 0]
    /\ req = [r \in Requests |-> NULL] /\ chain = <<>>
    /\ scheds = [i \in Ids |-> {}] /\ queue = {} /\ working = NULL
    /\ status = [i \in Ids |-> "none"] /\ runs = [i \in Ids |-> 0]
    /\ restarts = 0 /\ torn = {} /\ behind = FALSE

-----------------------------------------------------------------------------
Free == {r \in Requests : req[r] = NULL}
InFlight == Requests \ Free
Busy(i) == \E r \in InFlight : req[r].id = i
Admitted(i) == ~Overlap => ~Busy(i) /\ \A r \in InFlight : req[r].kind # "secret"

Began(r, kind, i, new, at) ==
    req' = [req EXCEPT ![r] = [kind |-> kind, id |-> i, new |-> new, was |-> mem[i], at |-> at,
                               list |-> NoInstances, prior |-> NULL]]
Goes(r, at) == req' = [req EXCEPT ![r].at = at]
Done(r) == req' = [req EXCEPT ![r] = NULL]

(* inTurn(): PATCH and DELETE of one connector run one after the other.    *)
InTurn(i) == \A r \in InFlight : req[r].id = i => req[r].kind \notin {"patch", "delete"}

(* POST /connectors and ConnectorRegistry.create. *)
Create(r, i, c) ==
    /\ Op /\ r \in Free /\ mem[i] = NULL
    /\ Admitted(i)
    /\ mem' = [mem EXCEPT ![i] = c]
    /\ Began(r, "create", i, c, "persist") /\ chain' = Append(chain, r)
    /\ UNCHANGED <<storeVars, runVars, restarts, torn, behind>>

(* PATCH /connectors/:id and ConnectorRegistry.update.  If-Match, when     *)
(* given, has just been found to match; otherwise nothing happens.         *)
Patch(r, i, c) ==
    /\ Op /\ r \in Free /\ mem[i] # NULL /\ InTurn(i)
    /\ Admitted(i)
    /\ mem' = [mem EXCEPT ![i] = c]
    /\ Began(r, "patch", i, c, "persist") /\ chain' = Append(chain, r)
    /\ UNCHANGED <<storeVars, runVars, restarts, torn, behind>>

(* DELETE /connectors/:id up to the end of purgeIndexed(). *)
Delete(r, i) ==
    /\ Op /\ r \in Free /\ InTurn(i)
    /\ Admitted(i)
    /\ Began(r, "delete", i, NULL, "purge")
    /\ UNCHANGED <<mem, chain, storeVars, runVars, restarts, torn, behind>>

(* ... which refused, or had marked what a connector that is gone left;    *)
(* or remove() finds no connector, or another version than If-Match says.  *)
DeleteRefused(r) ==
    /\ NoOp /\ req[r] # NULL /\ req[r].at = "purge" /\ Done(r)
    /\ UNCHANGED <<mem, chain, storeVars, runVars, restarts, torn, behind>>

Remove(r) ==
    /\ NoOp /\ req[r] # NULL /\ req[r].at = "purge" /\ mem[req[r].id] # NULL
    /\ mem' = [mem EXCEPT ![req[r].id] = NULL]
    /\ Goes(r, "persist") /\ chain' = Append(chain, r)
    /\ UNCHANGED <<storeVars, runVars, restarts, torn, behind>>

(* SettingsService -> setWebhookSecret(): its sync() is not in the chain.  *)
SetWebhookSecret(r, i) ==
    /\ Op /\ r \in Free /\ mem[i] # NULL
    /\ ~Overlap => InFlight = {}
    /\ req' = [req EXCEPT ![r] = [kind |-> "secret", id |-> i, new |-> mem[i], was |-> mem[i],
                                  at |-> "read", list |-> mem, prior |-> NULL]]
    /\ UNCHANGED <<mem, chain, storeVars, runVars, restarts, torn, behind>>

(* POST /connectors/kubernetes/credentials writes the file and no more: an *)
(* existing connector that uses it is stored with the next persist.        *)
PostCredentials(i) ==
    /\ Op /\ key[i] < 2
    /\ ~Overlap => ~Busy(i)
    /\ key' = [key EXCEPT ![i] = @ + 1]
    /\ behind' = (behind \/ (mem[i] # NULL /\ mem[i].cred))
    /\ UNCHANGED <<mem, yaml, blob, req, chain, runVars, restarts, torn>>

-----------------------------------------------------------------------------
(* persistInner(): the YAML, then ConnectorAppStore.sync() of the list.    *)
PersistFile(r) ==
    /\ NoOp /\ chain # <<>> /\ r = Head(chain) /\ req[r].at = "persist"
    /\ yaml' = mem
    /\ req' = [req EXCEPT ![r].at = "read", ![r].list = mem]
    /\ UNCHANGED <<mem, blob, key, chain, runVars, restarts, torn, behind>>

(* The YAML cannot be written: the request fails, the registry keeps it.   *)
PersistFails(r) ==
    /\ Op /\ chain # <<>> /\ r = Head(chain) /\ req[r].at = "persist"
    /\ chain' = Tail(chain) /\ Done(r)
    /\ torn' = torn \cup {req[r].id} /\ behind' = TRUE
    /\ UNCHANGED <<mem, storeVars, runVars, restarts>>

(* readBlob(), or its failure: nothing can then be carried forward.        *)
ReadBlob(r) ==
    /\ NoOp /\ req[r] # NULL /\ req[r].at = "read"
    /\ req' = [req EXCEPT ![r].at = "write", ![r].prior = blob]
    /\ UNCHANGED <<mem, storeVars, chain, runVars, restarts, torn, behind>>
ReadBlobFails(r) ==
    /\ Op /\ req[r] # NULL /\ req[r].at = "read"
    /\ Goes(r, "write") /\ behind' = TRUE
    /\ UNCHANGED <<mem, storeVars, chain, runVars, restarts, torn>>

(* The blob of a list: each connector with the credential file it needs,   *)
(* or with the one stored before when the file is missing (carryForward).  *)
CarryForward(prior, i) == IF prior = NULL \/ prior.list[i] = NULL THEN 0 ELSE prior.secret[i]
Blob(list, prior) ==
    [list |-> list,
     secret |-> [i \in Ids |-> IF list[i] = NULL \/ ~list[i].cred THEN 0
                               ELSE IF key[i] # 0 THEN key[i] ELSE CarryForward(prior, i)]]

(* Where a request goes once its persist is over. *)
AfterPersist(r) ==
    /\ req' = [req EXCEPT ![r] =
                 CASE @.kind = "secret" -> NULL
                   [] @.kind = "create" -> IF @.new.on THEN [@ EXCEPT !.at = "start"] ELSE NULL
                   [] OTHER -> [@ EXCEPT !.at = "stop"]]
    /\ chain' = IF req[r].kind = "secret" THEN chain ELSE Tail(chain)

(* The write is the list and the files as they are when it is built; a     *)
(* failure is logged and the request goes on.                              *)
WriteBlob(r) ==
    /\ NoOp /\ req[r] # NULL /\ req[r].at = "write"
    /\ blob' = Blob(req[r].list, req[r].prior)
    /\ behind' = (behind /\ req[r].prior = NULL /\ blob # NULL)
    /\ AfterPersist(r)
    /\ UNCHANGED <<mem, yaml, key, runVars, restarts, torn>>
WriteBlobFails(r) ==
    /\ Op /\ req[r] # NULL /\ req[r].at = "write"
    /\ behind' = TRUE /\ AfterPersist(r)
    /\ UNCHANGED <<mem, storeVars, runVars, restarts, torn>>

-----------------------------------------------------------------------------
(* Faulty variant of Stop: an update that leaves the connector enabled only adds.  *)
StopOnlyDisabled(r) ==
    /\ NoOp /\ req[r] # NULL /\ req[r].at = "stop"
    /\ scheds' = [scheds EXCEPT ![req[r].id] = IF req[r].new # NULL /\ req[r].new.on THEN @ ELSE {}]
    /\ status' = [status EXCEPT ![req[r].id] = "none"]
    /\ IF req[r].kind = "delete" THEN Goes(r, "clear")
       ELSE IF req[r].new.on THEN Goes(r, "start") ELSE Done(r)
    /\ UNCHANGED <<mem, storeVars, chain, queue, working, runs, restarts, torn, behind>>

(* SyncScheduler.stop() and start(): the repeatable jobs named poll:<id>.  *)
Stop(r) ==
    /\ NoOp /\ req[r] # NULL /\ req[r].at = "stop"
    /\ scheds' = [scheds EXCEPT ![req[r].id] = {}]
    /\ status' = [status EXCEPT ![req[r].id] = "none"]
    /\ IF req[r].kind = "delete" THEN Goes(r, "clear")
       ELSE IF req[r].new.on THEN Goes(r, "start") ELSE Done(r)
    /\ UNCHANGED <<mem, storeVars, chain, queue, working, runs, restarts, torn, behind>>

Started(i, c, s) == IF c # NULL /\ c.on THEN s[i] \cup {c.sched} ELSE s[i]

Start(r) ==
    /\ NoOp /\ req[r] # NULL /\ req[r].at = "start"
    /\ scheds' = [scheds EXCEPT ![req[r].id] = Started(req[r].id, req[r].new, scheds)]
    /\ status' = [status EXCEPT ![req[r].id] = IF @ = "none" THEN "idle" ELSE @]
    /\ Done(r)
    /\ UNCHANGED <<mem, storeVars, chain, queue, working, runs, restarts, torn, behind>>

(* Redis refuses: the request fails with the registry already changed.     *)
RunnerFails(r) ==
    /\ Op /\ req[r] # NULL /\ req[r].at \in {"stop", "start", "clear"}
    /\ Done(r) /\ torn' = torn \cup {req[r].id}
    /\ UNCHANGED <<mem, storeVars, chain, runVars, restarts, behind>>

(* ConnectorRunStore.clear(), then removeUnreferencedCredentials() of what *)
(* DELETE found.                                                           *)
Unreferenced(i, was) == was # NULL /\ was.cred /\ ~(mem[i] # NULL /\ mem[i].cred)
Clear(r) ==
    /\ NoOp /\ req[r] # NULL /\ req[r].at = "clear"
    /\ LET i == req[r].id IN
         /\ runs' = [runs EXCEPT ![i] = 0]
         /\ key' = [key EXCEPT ![i] = IF Unreferenced(i, req[r].was) THEN 0 ELSE @]
    /\ Done(r)
    /\ UNCHANGED <<mem, yaml, blob, chain, scheds, queue, working, status, restarts, torn, behind>>

(* POST /connectors/:id/sync. *)
TriggerSync(i) ==
    /\ Op /\ mem[i] # NULL
    /\ queue' = queue \cup {i} /\ status' = [status EXCEPT ![i] = "running"]
    /\ UNCHANGED <<mem, storeVars, req, chain, scheds, working, runs, restarts, torn, behind>>

(* A repeatable job falls due. *)
Poll(i) ==
    /\ Op /\ scheds[i] # {} /\ queue' = queue \cup {i}
    /\ UNCHANGED <<mem, storeVars, req, chain, scheds, working, status, runs, restarts, torn, behind>>

(* processJob() of a connector that is gone does nothing. *)
JobBegin(i) ==
    /\ NoOp /\ working = NULL /\ i \in queue /\ queue' = queue \ {i}
    /\ working' = IF mem[i] = NULL THEN NULL ELSE i
    /\ status' = [status EXCEPT ![i] = IF mem[i] = NULL THEN @ ELSE "running"]
    /\ UNCHANGED <<mem, storeVars, req, chain, scheds, runs, restarts, torn, behind>>

(* recordRun(): refused when the connector vanished during the run.        *)
RecordRun(i) ==
    runs' = [runs EXCEPT ![i] = IF mem[i] = NULL \/ @ = MaxRuns THEN @ ELSE @ + 1]

(* failRun(), or the `failed` handler when recordRun() refuses; and the    *)
(* end of a run, which swallows a refusal and sets the status regardless.  *)
JobEnd(outcome) ==
    /\ NoOp /\ working # NULL /\ RecordRun(working)
    /\ status' = [status EXCEPT ![working] = outcome] /\ working' = NULL
    /\ UNCHANGED <<mem, storeVars, req, chain, scheds, queue, restarts, torn, behind>>

-----------------------------------------------------------------------------
(* The process dies and main() starts again.  The blob wins over the YAML; *)
(* without one, or when it cannot be read, the YAML's list is used and     *)
(* written to Secret Manager.  A stalled job is run again.                 *)
Rehydrate(read, kept) ==
    IF read /\ blob # NULL THEN blob.list ELSE IF kept THEN yaml ELSE NoInstances
Materialized(read, kept) ==
    [i \in Ids |-> IF read /\ blob # NULL /\ blob.secret[i] # 0 THEN blob.secret[i]
                   ELSE IF kept THEN key[i] ELSE 0]
StartRunner(list) == [i \in Ids |-> Started(i, list[i], scheds)]

Restart(read, keepsFile, keepsKeys) ==
    /\ NoOp /\ restarts < MaxRestarts /\ restarts' = restarts + 1
    /\ LET list == Rehydrate(read, keepsFile) IN
         /\ mem' = list
         /\ yaml' = IF keepsFile THEN yaml ELSE NoInstances
         /\ key' = Materialized(read, keepsKeys)
         /\ blob' = IF ~(read /\ blob # NULL) /\ list # NoInstances
                    THEN [list |-> list,
                          secret |-> [i \in Ids |-> IF list[i] # NULL /\ list[i].cred
                                                    THEN key'[i] ELSE 0]]
                    ELSE blob
         /\ scheds' = StartRunner(list)
         /\ status' = [i \in Ids |-> IF list[i] # NULL /\ list[i].on THEN "idle" ELSE "none"]
         /\ torn' = torn \cup {req[r].id : r \in InFlight} \cup {i \in Ids : list[i] # mem[i]}
    /\ req' = [r \in Requests |-> NULL] /\ chain' = <<>>
    /\ queue' = IF working = NULL THEN queue ELSE queue \cup {working}
    /\ working' = NULL
    /\ behind' = (behind \/ ~read)
    /\ UNCHANGED runs

ConnectorsNext ==
    \/ \E r \in Requests, i \in Ids :
         \/ \E c \in Configs : Create(r, i, c) \/ Patch(r, i, c)
         \/ Delete(r, i) \/ SetWebhookSecret(r, i)
    \/ \E r \in Requests :
         \/ DeleteRefused(r) \/ Remove(r)
         \/ PersistFile(r) \/ PersistFails(r)
         \/ ReadBlob(r) \/ ReadBlobFails(r) \/ WriteBlob(r) \/ WriteBlobFails(r)
         \/ Stop(r) \/ Start(r) \/ RunnerFails(r) \/ Clear(r)
    \/ \E i \in Ids : PostCredentials(i) \/ TriggerSync(i) \/ Poll(i) \/ JobBegin(i)
    \/ \E o \in {"idle", "degraded", "failed"} : JobEnd(o)
    \/ \E read, keepsFile, keepsKeys \in BOOLEAN : Restart(read, keepsFile, keepsKeys)

-----------------------------------------------------------------------------
(* Once the requests for a connector are over, and none of them died or    *)
(* failed half way, Redis agrees with the registry: the connector is       *)
(* polled on its one configured schedule when it is enabled and on none    *)
(* otherwise, and a deleted connector has left no runs in the history for  *)
(* the next one of its id.                                                 *)
RuntimeMatches ==
    part = "connectors" => \A i \in Ids \ torn :
        ~Busy(i) => /\ scheds[i] = IF mem[i] # NULL /\ mem[i].on THEN {mem[i].sched} ELSE {}
                    /\ mem[i] = NULL => runs[i] = 0

(* When no request is in flight and Secret Manager took the last write,    *)
(* a new instance with an empty disk comes up with the connectors this one *)
(* has, and with the credential files of those that use one.               *)
Restorable ==
    part = "connectors" /\ InFlight = {} /\ ~behind /\ blob # NULL =>
        /\ Rehydrate(TRUE, FALSE) = mem
        /\ \A i \in Ids : mem[i] # NULL /\ mem[i].cred /\ key[i] # 0 =>
                         Materialized(TRUE, FALSE)[i] = key[i]

(* What the registry holds is what runs, and what a new instance would find. *)
RegistryHolds == RuntimeMatches /\ Restorable
=============================================================================
