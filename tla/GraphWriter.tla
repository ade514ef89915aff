----------------------------- MODULE GraphWriter -----------------------------
(***************************************************************************)
(* From a source system to the graph, for one connector: the sync run and  *)
(* the webhook refetch that publish what they fetched (sync-scheduler.ts,  *)
(* harness.ts, webhook-refetch-queue.ts), the BullMQ queue (event-bus),    *)
(* the batch buffer and the writer (core-writer), and the api-server's     *)
(* manual edit that shares the claims of a node.  Each Neo4j transaction   *)
(* and each Redis call is one action.                                      *)
(*                                                                         *)
(* Each entity is a page of its own and a payload holds one node.  The     *)
(* claims of a node are the connector's, which follow its content, and one *)
(* manual claim.  `now` is the clock of source and api-server: a version   *)
(* is the time of the source's change, _last_synced the time of the fetch. *)
(* The canonical id is the node's own id.                                  *)
(***************************************************************************)
EXTENDS Integers, Sequences, SequencesExt, FiniteSets

CONSTANTS
    Entities,
    Contents,
    Manual,       \* values a user may set
    Flights,      \* bound: batches being written at once (timer and full buffer)
    NULL,
    BatchSize,    \* CoreWriterConfig.batchSize
    Retries,      \* CLAIMS_REV_MAX_RETRIES
    MaxNow,       \* bound: source changes and runs
    MaxEdits,     \* bound: manual edits and expired keys
    MaxRefetches, \* bound: webhook refetches
    MaxFaults,    \* bound: crashes, failed writes and failed publications
    Revisits      \* whether a source may go back to an earlier content

(* The ids of the jobs, the nodes of the graph and the state of a sync run. *)
Ids == (Entities \X Contents) \cup ({"sync"} \X Nat)

Nodes == [content : Contents, version : Nat, synced : Nat, absent : BOOLEAN,
          conn : Contents, manual : Manual \cup {NULL}, rev : Nat]

Runs == [startedAt : Nat, todo : SUBSET Entities, ok : BOOLEAN]

ASSUME GraphAssumption ==
    /\ NULL \notin Contents \cup Manual
    /\ NULL \notin Ids /\ NULL \notin Nodes /\ NULL \notin Runs
    /\ BatchSize \in Nat \ {0} /\ Retries \in Nat \ {0}
    /\ {MaxNow, MaxEdits, MaxRefetches, MaxFaults} \subseteq Nat
    /\ Revisits \in BOOLEAN

VARIABLES
    kind,       \* the connector's type: "github" or "kubernetes"
    now,
    truth,      \* per entity: what the source holds, or NULL
    seen,       \* per entity: contents it had (bound of Revisits)
    run,        \* the sync run: its start and the entities still to fetch, or NULL
    fetched,    \* per fetcher: the node it fetched and has not published, or NULL
    queue,      \* BullMQ jobs that wait
    active,     \* the job whose handler waits for the flush it started, or NULL
    buffer,     \* events handed over, written nowhere
    flight,     \* per flight: the batch and where its processing is
    keys,       \* _IdempotencyLog
    node,       \* per entity: the graph's node, or NULL
    attested,   \* per entity: the manual value a user was told is set (history)
    expected,   \* per entity: newest publication that is not lost (history)
    edits, refetches, faults

sourceVars == <<kind, now, truth, seen>>
syncVars == <<run, fetched, refetches>>
busVars == <<queue, active, buffer>>
histVars == <<attested, expected, edits, faults>>
vars == <<sourceVars, syncVars, busVars, flight, keys, node, histVars>>

Fetchers == {"run", "refetch"}

(* Only a type whose full run is exhaustive sweeps; only GitHub's nodes carry *)
(* a time as version (deriveTimeVersion), Kubernetes' a content hash.         *)
sweepsAbsent == kind = "kubernetes"
Comparable == kind = "github"

Idle == [events |-> <<>>, pc |-> "idle", claims |-> NULL, rev |-> 0,
         attempt |-> 0, written |-> FALSE, failed |-> FALSE, awaited |-> FALSE]

Init ==
    /\ kind \in {"github", "kubernetes"}
    /\ now = 1
    /\ \E c \in Contents : /\ truth = [e \in Entities |-> [content |-> c, version |-> 1]]
                          /\ seen = [e \in Entities |-> {c}]
    /\ run = NULL
    /\ fetched = [f \in Fetchers |-> NULL]
    /\ queue = <<>> /\ active = NULL /\ buffer = <<>>
    /\ flight = [b \in Flights |-> Idle]
    /\ keys = {}
    /\ node = [e \in Entities |-> NULL]
    /\ attested = [e \in Entities |-> NULL]
    /\ expected = [e \in Entities |-> NULL]
    /\ edits = 0 /\ refetches = 0 /\ faults = 0

Fault == faults < MaxFaults /\ faults' = faults + 1

-----------------------------------------------------------------------------
(* The source (external). *)
SourceChanges(e, c) ==
    /\ now < MaxNow
    /\ truth[e] # NULL => truth[e].content # c
    /\ Revisits \/ c \notin seen[e]
    /\ now' = now + 1
    /\ truth' = [truth EXCEPT ![e] = [content |-> c, version |-> now + 1]]
    /\ seen' = [seen EXCEPT ![e] = @ \cup {c}]
    /\ UNCHANGED <<kind, syncVars, busVars, flight, keys, node, histVars>>

SourceDeletes(e) ==
    /\ now < MaxNow /\ truth[e] # NULL
    /\ now' = now + 1
    /\ truth' = [truth EXCEPT ![e] = NULL]
    /\ UNCHANGED <<kind, seen, syncVars, busVars, flight, keys, node, histVars>>

-----------------------------------------------------------------------------
(* The event bus. *)

(* buildIdempotencyKey(): the content, not the version; publishControl(): the run. *)
JobId(ev) ==
    IF ev.kind = "sync" THEN <<"sync", ev.startedAt>> ELSE <<ev.entity, ev.content>>

(* addBulk(): an id BullMQ still holds is not added a second time. *)
Enqueue(ev) ==
    queue' = IF JobId(ev) \in {JobId(j) : j \in ToSet(queue)} \/ active = JobId(ev)
             THEN queue ELSE Append(queue, ev)

-----------------------------------------------------------------------------
(* The sync run and the refetch. *)

(* processJob() of a full run. *)
StartRun ==
    /\ run = NULL /\ now < MaxNow
    /\ now' = now + 1
    /\ run' = [startedAt |-> now + 1, todo |-> Entities, ok |-> TRUE]
    /\ UNCHANGED <<kind, truth, seen, fetched, refetches, busVars, flight, keys, node, histVars>>

Fetched(e) ==
    [kind |-> "node", entity |-> e, content |-> truth[e].content,
     version |-> truth[e].version, synced |-> now]

(* runSync(): a page is fetched and normalized; it may be empty, or fail. *)
RunFetches(e) ==
    /\ run # NULL /\ e \in run.todo /\ fetched["run"] = NULL
    /\ \/ /\ run' = [run EXCEPT !.todo = @ \ {e}]
          /\ fetched' = [fetched EXCEPT !["run"] = IF truth[e] = NULL THEN NULL ELSE Fetched(e)]
          /\ UNCHANGED faults
       \/ /\ Fault
          /\ run' = [run EXCEPT !.todo = @ \ {e}, !.ok = FALSE]
          /\ UNCHANGED fetched
    /\ UNCHANGED <<sourceVars, refetches, busVars, flight, keys, node, attested, expected, edits>>

(* WebhookRefetchQueue.processJob(): one repository, fetched again. *)
RefetchFetches(e) ==
    /\ kind = "github" /\ fetched["refetch"] = NULL /\ truth[e] # NULL
    /\ refetches < MaxRefetches /\ refetches' = refetches + 1
    /\ fetched' = [fetched EXCEPT !["refetch"] = Fetched(e)]
    /\ UNCHANGED <<sourceVars, run, busVars, flight, keys, node, histVars>>

Newer(ev) == expected[ev.entity] = NULL \/ expected[ev.entity].version <= ev.version

(* publish(): after the fetch, and possibly after a later fetch was published. *)
Publish(f) ==
    /\ fetched[f] # NULL
    /\ fetched' = [fetched EXCEPT ![f] = NULL]
    /\ \/ /\ Enqueue(fetched[f])
          /\ expected' = IF Newer(fetched[f])
                         THEN [expected EXCEPT ![fetched[f].entity] = fetched[f]] ELSE expected
          /\ UNCHANGED <<run, faults>>
       \/ /\ Fault
          /\ run' = IF f = "run" THEN [run EXCEPT !.ok = FALSE] ELSE run
          /\ UNCHANGED <<queue, expected>>
    /\ UNCHANGED <<sourceVars, refetches, active, buffer, flight, keys, node, attested, edits>>

(* publishControl(): of a full run that saw everything, unless that fails too. *)
SyncCompleted ==
    IF run.ok /\ sweepsAbsent
    THEN \/ Enqueue([kind |-> "sync", startedAt |-> run.startedAt]) /\ UNCHANGED faults
         \/ Fault /\ UNCHANGED queue
    ELSE UNCHANGED <<queue, faults>>

EndRun ==
    /\ run # NULL /\ run.todo = {} /\ fetched["run"] = NULL
    /\ run' = NULL
    /\ SyncCompleted
    /\ UNCHANGED <<sourceVars, fetched, refetches, active, buffer, flight, keys, node, attested,
                   expected, edits>>

-----------------------------------------------------------------------------
(* The batch buffer. *)

Take(events, b, wait) ==
    LET n == IF Len(events) < BatchSize THEN Len(events) ELSE BatchSize
    IN /\ flight[b] = Idle
       /\ flight' = [flight EXCEPT ![b] = [Idle EXCEPT
                        !.events = SubSeq(events, 1, n), !.pc = "check", !.awaited = wait]]
       /\ buffer' = SubSeq(events, n + 1, Len(events))

(* The consumer's handler: add().  Unless the buffer is full the job is done *)
(* (and removed) now; else it is active until the flush is over.             *)
Consume ==
    /\ active = NULL /\ queue # <<>>
    /\ queue' = Tail(queue)
    /\ LET full == Append(buffer, Head(queue))
       IN IF Len(full) < BatchSize
          THEN buffer' = full /\ UNCHANGED <<active, flight>>
          ELSE active' = JobId(Head(queue)) /\ \E b \in Flights : Take(full, b, TRUE)
    /\ UNCHANGED <<sourceVars, syncVars, keys, node, histVars>>

(* The timer's flush(), whether or not another batch is being written. *)
TimerFlush ==
    /\ buffer # <<>>
    /\ \E b \in Flights : Take(buffer, b, FALSE)
    /\ UNCHANGED <<sourceVars, syncVars, queue, active, keys, node, histVars>>

-----------------------------------------------------------------------------
(* The writer: processBatch() takes the events of its batch one by one. *)
Event(b) == Head(flight[b].events)

(* The next event, or the end of the batch: flush() returns, and with it the *)
(* handler of the job that filled the buffer.                                *)
Advance(b, failed) ==
    /\ flight' = [flight EXCEPT ![b] =
         IF Len(@.events) = 1 THEN Idle
         ELSE [Idle EXCEPT !.events = Tail(flight[b].events), !.pc = "check",
                           !.awaited = flight[b].awaited, !.failed = failed]]
    /\ active' = IF flight[b].awaited /\ Len(flight[b].events) = 1 THEN NULL ELSE active

Goto(b, pc) == flight' = [flight EXCEPT ![b].pc = pc] /\ UNCHANGED active

(* touchLastSynced(): seen, so not absent; the time only moves forward. *)
Touch(e, t) ==
    IF node[e] = NULL THEN node
    ELSE [node EXCEPT ![e].absent = FALSE, ![e].synced = IF @ < t THEN t ELSE @]

(* The touch is best effort. *)
ConfirmSeen(ev) ==
    \/ node' = Touch(ev.entity, ev.synced) /\ UNCHANGED faults
    \/ Fault /\ UNCHANGED node

At(b, pc) == flight[b].pc = pc /\ Event(b).kind = "node"

(* isDuplicate(): known content is only confirmed. *)
SkipDuplicate(b) ==
    /\ At(b, "check") /\ JobId(Event(b)) \in keys
    /\ Advance(b, flight[b].failed)
    /\ ConfirmSeen(Event(b))
    /\ UNCHANGED <<sourceVars, syncVars, queue, buffer, keys, attested, expected, edits>>

CheckNew(b) ==
    /\ At(b, "check") /\ JobId(Event(b)) \notin keys
    /\ Goto(b, "read")
    /\ UNCHANGED <<sourceVars, syncVars, queue, buffer, keys, node, histVars>>

(* _claims_rev; of no node, 0. *)
Rev(e) == IF node[e] = NULL THEN 0 ELSE node[e].rev

(* getExistingClaims(): the manual claim and the revision. *)
ReadClaims(b) ==
    /\ At(b, "read")
    /\ LET e == Event(b).entity
       IN flight' = [flight EXCEPT ![b].pc = "write", ![b].rev = Rev(e),
                        ![b].claims = IF node[e] = NULL THEN NULL ELSE node[e].manual]
    /\ UNCHANGED <<sourceVars, syncVars, busVars, keys, node, histVars>>

(* Faulty variants of Stale and of ClaimsConflict: the guard is missing. *)
NeverStale(ev) == FALSE
NeverConflict(b) == FALSE

(* mergeNode()'s two guards: a comparable version that is older than the stored *)
(* one; a _claims_rev that is not the one read.                                 *)
Stale(ev) == Comparable /\ node[ev.entity] # NULL /\ node[ev.entity].version > ev.version

ClaimsConflict(b) ==
    node[Event(b).entity] # NULL /\ node[Event(b).entity].rev # flight[b].rev

(* mergeNode(): the properties, and unless the claims moved, the claims resolved *)
(* from what was read: the connector's replaced, the manual one kept.            *)
Merged(b) ==
    LET ev == Event(b)
        old == node[ev.entity]
    IN IF Stale(ev) THEN old
       ELSE [content |-> ev.content, version |-> ev.version, synced |-> ev.synced, absent |-> FALSE,
             conn |-> IF ClaimsConflict(b) THEN old.conn ELSE ev.content,
             manual |-> IF ClaimsConflict(b) THEN old.manual ELSE flight[b].claims,
             rev |-> IF ClaimsConflict(b) THEN old.rev ELSE Rev(ev.entity) + 1]

Forget(ev) ==
    expected' = IF expected[ev.entity] # NULL /\ expected[ev.entity].content = ev.content
                THEN [expected EXCEPT ![ev.entity] = NULL] ELSE expected

(* writeNode(): written or refused; on a conflict the claims are read again, up *)
(* to Retries times, and then left to the next delivery.                        *)
WriteNode(b) ==
    /\ At(b, "write")
    /\ node' = [node EXCEPT ![Event(b).entity] = Merged(b)]
    /\ IF Stale(Event(b)) \/ ~ClaimsConflict(b)
       THEN /\ flight' = [flight EXCEPT ![b].pc = "record", ![b].written = ~Stale(Event(b))]
            /\ UNCHANGED <<active, expected>>
       ELSE IF flight[b].attempt + 1 < Retries
       THEN /\ flight' = [flight EXCEPT ![b].pc = "read", ![b].attempt = @ + 1]
            /\ UNCHANGED <<active, expected>>
       ELSE Advance(b, flight[b].failed) /\ Forget(Event(b))
    /\ UNCHANGED <<sourceVars, syncVars, queue, buffer, keys, attested, edits, faults>>

(* idempotency.record(), also of a refused event, whose node is confirmed. *)
Record(b) ==
    /\ At(b, "record")
    /\ keys' = keys \cup {JobId(Event(b))}
    /\ IF flight[b].written THEN UNCHANGED <<node, faults>> ELSE ConfirmSeen(Event(b))
    /\ Advance(b, flight[b].failed)
    /\ UNCHANGED <<sourceVars, syncVars, queue, buffer, attested, expected, edits>>

(* One of these calls threw: the connector is noted, for this batch. *)
WriteFails(b) ==
    /\ flight[b].pc \in {"check", "read", "write", "record"} /\ Event(b).kind = "node"
    /\ Fault
    /\ Advance(b, TRUE)
    /\ Forget(Event(b))
    /\ UNCHANGED <<sourceVars, syncVars, queue, buffer, keys, node, attested, edits>>

(* markAbsent()'s floor: some node was seen since the run began. *)
Confirmed(t) == \E e \in Entities : node[e] # NULL /\ node[e].synced >= t

Unseen(t) == {e \in Entities : node[e] # NULL /\ node[e].synced < t /\ ~node[e].absent}

(* sync.completed: the sweep, unless a write of this batch failed before it. *)
Sweep(b) ==
    /\ flight[b].pc = "check" /\ Event(b).kind = "sync"
    /\ Advance(b, flight[b].failed)
    /\ node' = IF flight[b].failed \/ ~Confirmed(Event(b).startedAt) THEN node
               ELSE [e \in Entities |-> IF e \in Unseen(Event(b).startedAt)
                                        THEN [node[e] EXCEPT !.absent = TRUE] ELSE node[e]]
    /\ UNCHANGED <<sourceVars, syncVars, queue, buffer, keys, histVars>>

(* The process dies.  What it had taken over and not written is gone, except  *)
(* the job that is still active, which BullMQ hands out again.                *)
Crash ==
    /\ Fault
    /\ buffer # <<>> \/ \E b \in Flights : flight[b] # Idle
    /\ LET held == {b \in Flights : flight[b].awaited}
           back == IF held = {} THEN <<>>
                   ELSE LET b == CHOOSE x \in held : TRUE IN <<Last(flight[b].events)>>
       IN /\ queue' = back \o queue
          /\ expected' = [e \in Entities |->
               IF \E j \in ToSet(back \o queue) : j.kind = "node" /\ j.entity = e
                                                   /\ expected[e] # NULL
                                                   /\ j.content = expected[e].content
               THEN expected[e] ELSE NULL]
    /\ active' = NULL /\ buffer' = <<>>
    /\ flight' = [b \in Flights |-> Idle]
    /\ UNCHANGED <<sourceVars, syncVars, keys, node, attested, edits>>

(* cleanupExpired(): a key past its time. *)
ExpireKey ==
    /\ edits < MaxEdits /\ edits' = edits + 1
    /\ \E k \in keys : keys' = keys \ {k}
    /\ UNCHANGED <<sourceVars, syncVars, busVars, flight, node, attested, expected, faults>>

-----------------------------------------------------------------------------
(* setManualClaim() and revertManualClaim() (v = NULL): one transaction that *)
(* holds the node's lock and moves _claims_rev.                              *)
EditManualClaim(e, v) ==
    /\ edits < MaxEdits /\ edits' = edits + 1
    /\ node[e] # NULL /\ node[e].manual # v
    /\ node' = [node EXCEPT ![e].manual = v, ![e].rev = @ + 1]
    /\ attested' = [attested EXCEPT ![e] = v]
    /\ UNCHANGED <<sourceVars, syncVars, busVars, flight, keys, expected, faults>>

-----------------------------------------------------------------------------
Source == \E e \in Entities : SourceDeletes(e) \/ \E c \in Contents : SourceChanges(e, c)

Sync ==
    \/ StartRun \/ EndRun
    \/ \E e \in Entities : RunFetches(e) \/ RefetchFetches(e)
    \/ \E f \in Fetchers : Publish(f)

Process(b) ==
    \/ SkipDuplicate(b) \/ CheckNew(b) \/ ReadClaims(b) \/ WriteNode(b) \/ Record(b)
    \/ WriteFails(b) \/ Sweep(b)

Edit == \E e \in Entities, v \in Manual \cup {NULL} : EditManualClaim(e, v)

Next ==
    \/ Source \/ Sync \/ Consume \/ TimerFlush \/ Edit \/ Crash \/ ExpireKey
    \/ \E b \in Flights : Process(b)

Spec == Init /\ [][Next]_vars

-----------------------------------------------------------------------------
(* A manual claim stands until a user takes it back, whatever the writer read *)
(* before and writes after the edit (claims-rev compare-and-set).             *)
ManualClaimStands == \A e \in Entities : node[e] # NULL => node[e].manual = attested[e]

Quiet == queue = <<>> /\ buffer = <<>> /\ \A b \in Flights : flight[b] = Idle

(* When all that was published has been worked off, properties and claims of  *)
(* a node are those of the newest fetch, in whatever order the fetches were   *)
(* published, and written again after a failed write or a crash.              *)
NewestContentLands ==
    Quiet /\ Comparable =>
        \A e \in Entities : expected[e] # NULL =>
            /\ node[e] # NULL
            /\ node[e].version >= expected[e].version
            /\ node[e].version = expected[e].version => node[e].conn = expected[e].content
=============================================================================
