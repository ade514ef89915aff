------------------------------ MODULE Webhooks -------------------------------
(***************************************************************************)
(* The GitHub webhook receiver and the queue of refetches behind it        *)
(* (routes/webhooks, webhook-refetch-queue, webhook-resolution), for one   *)
(* repository of one connector.  A push is a new version of the repository *)
(* and a delivery of that number; GitHub or a person may send a delivery   *)
(* again at any time.  Redis keeps the delivery keys and the jobs, and     *)
(* survives a crash of the api-server.                                     *)
(***************************************************************************)
EXTENDS Platform

CONSTANTS
    Handlers,   \* requests handled at a time
    MaxPushes   \* bound: pushes to the repository

(* A delivery that a handler works on: whether its connector was enabled   *)
(* when it was found, and where the handler stands.                        *)
Deliveries ==
    [delivery : 1 .. MaxPushes, on : BOOLEAN, at : {"record", "mark", "enqueue", "release"}]

ASSUME WebhooksAssumption == MaxPushes \in Nat /\ NULL \notin Deliveries

VARIABLES
    head,       \* pushes so far: the repository's version
    handler,    \* per handler: its delivery and where it stands, or NULL
    seen,       \* deliveries with a dedup key
    refetch,    \* the refetch job of the repository: its state in BullMQ
    reading,    \* the version the active job has fetched, 0 before it has
    published,  \* the latest version a refetch has published
    connector,  \* the connector: "on", "off" (disabled) or "gone"
    trust,      \* its App: overridden, with a secret of its own; and whether there is a shared secret
    verified,   \* the last verified delivery
    taken,      \* deliveries whose refetch enqueue() accepted (history)
    lapsed      \* deliveries whose key outlived a failed or dead handler (history)

webhookVars ==
    <<head, handler, seen, refetch, reading, published, connector, trust, verified, taken, lapsed>>
queueVars == <<refetch, reading, published>>

WebhooksInit ==
    /\ head = 0 /\ handler = [h \in Handlers |-> NULL]
    /\ seen = {} /\ refetch = "none" /\ reading = 0 /\ published = 0
    /\ connector = "on" /\ verified = 0
    /\ trust \in [overridden : BOOLEAN, perApp : BOOLEAN, shared : BOOLEAN]
    /\ taken = {} /\ lapsed = {}

-----------------------------------------------------------------------------
Push ==
    /\ Op /\ head < MaxPushes /\ head' = head + 1
    /\ UNCHANGED <<handler, seen, queueVars, connector, trust, verified, taken, lapsed>>

(* The connector is disabled, enabled or deleted; setConnectorWebhookSecret *)
(* gives its App, or the shared one, a new secret.                          *)
ConnectorChanges(to) ==
    /\ Op /\ connector \notin {to, "gone"} /\ connector' = to
    /\ UNCHANGED <<head, handler, seen, queueVars, trust, verified, taken, lapsed>>

SecretSet ==
    /\ Op
    /\ trust' = IF trust.overridden THEN [trust EXCEPT !.perApp = TRUE]
                ELSE [trust EXCEPT !.shared = TRUE]
    /\ UNCHANGED <<head, handler, seen, queueVars, connector, verified, taken, lapsed>>

(* resolveConnectorsByInstallation() and resolveWebhookSecret(): an App of *)
(* the connector's own never falls back to the shared secret.              *)
ResolveConnectors == IF connector = "gone" THEN {} ELSE {connector}
ResolveWebhookSecret ==
    IF trust.perApp THEN "per-app"
    ELSE IF trust.shared /\ ~trust.overridden THEN "global" ELSE "none"

At(h, at) == handler[h] # NULL /\ handler[h].at = at
Moves(h, at) == handler' = [handler EXCEPT ![h].at = at]
Answers(h) == handler' = [handler EXCEPT ![h] = NULL]

(* A delivery signed with the secret that is now the connector's; anything *)
(* else is answered at once.  `on` is the connector as it was found.       *)
Receive(h, d, c, signed) ==
    /\ Op /\ handler[h] = NULL /\ d \in 1 .. head
    /\ c \in ResolveConnectors /\ signed = ResolveWebhookSecret
    /\ handler' = [handler EXCEPT ![h] = [delivery |-> d, on |-> c = "on", at |-> "record"]]
    /\ UNCHANGED <<head, seen, queueVars, connector, trust, verified, taken, lapsed>>

(* recordVerifiedDelivery(), whose failure is ignored, and the answer for  *)
(* a connector that is disabled.                                           *)
RecordVerifiedDelivery(h) ==
    /\ NoOp /\ At(h, "record")
    /\ verified' = handler[h].delivery
    /\ IF handler[h].on THEN Moves(h, "mark") ELSE Answers(h)
    /\ UNCHANGED <<head, seen, queueVars, connector, trust, taken, lapsed>>

(* markDeliverySeen(): SET NX.  A duplicate is acknowledged without more.  *)
MarkDeliverySeen(h) ==
    /\ NoOp /\ At(h, "mark")
    /\ seen' = seen \cup {handler[h].delivery}
    /\ IF handler[h].delivery \in seen THEN Answers(h) ELSE Moves(h, "enqueue")
    /\ UNCHANGED <<head, queueVars, connector, trust, verified, taken, lapsed>>

(* enqueue(): BullMQ ignores an add whose job id it still knows, whatever  *)
(* the state of that job.                                                  *)
Added == IF refetch = "none" THEN "delayed" ELSE refetch
Enqueue(h) ==
    /\ NoOp /\ At(h, "enqueue")
    /\ refetch' = Added /\ taken' = taken \cup {handler[h].delivery} /\ Answers(h)
    /\ UNCHANGED <<head, seen, reading, published, connector, trust, verified, lapsed>>

(* Redis refuses the mark or the job: the catch block, then a 500.         *)
ProcessingFails(h) ==
    /\ Op /\ handler[h] # NULL /\ handler[h].at \in {"mark", "enqueue"}
    /\ Moves(h, "release")
    /\ UNCHANGED <<head, seen, queueVars, connector, trust, verified, taken, lapsed>>

(* Faulty variant of ReleaseDelivery: the key is left to its TTL. *)
KeepDelivery(h) ==
    /\ NoOp /\ At(h, "release") /\ Answers(h)
    /\ UNCHANGED <<head, seen, queueVars, connector, trust, verified, taken, lapsed>>

ReleaseDelivery(h) ==
    /\ NoOp /\ At(h, "release")
    /\ seen' = seen \ {handler[h].delivery} /\ Answers(h)
    /\ UNCHANGED <<head, queueVars, connector, trust, verified, taken, lapsed>>

ReleaseFails(h) ==
    /\ Op /\ At(h, "release") /\ Answers(h)
    /\ lapsed' = lapsed \cup {handler[h].delivery}
    /\ UNCHANGED <<head, seen, queueVars, connector, trust, verified, taken>>

(* DELIVERY_TTL_SECONDS have passed. *)
DeliveryExpires(d) ==
    /\ Op /\ d \in seen /\ seen' = seen \ {d} /\ lapsed' = lapsed \ {d}
    /\ UNCHANGED <<head, handler, queueVars, connector, trust, verified, taken>>

-----------------------------------------------------------------------------
(* The worker.  A job fetches, then publishes, unless the connector is     *)
(* gone; a failed one stays failed: the queue configures no attempts.      *)
RefetchBegins ==
    /\ NoOp /\ refetch = "delayed" /\ reading' = 0
    /\ refetch' = IF connector = "gone" THEN "completed" ELSE "active"
    /\ UNCHANGED <<head, handler, seen, published, connector, trust, verified, taken, lapsed>>

RefetchReads ==
    /\ NoOp /\ refetch = "active" /\ reading = 0 /\ head > 0 /\ reading' = head
    /\ UNCHANGED <<head, handler, seen, refetch, published, connector, trust, verified, taken, lapsed>>

RefetchPublishes ==
    /\ NoOp /\ refetch = "active" /\ reading > 0
    /\ published' = reading /\ refetch' = "completed" /\ reading' = 0
    /\ UNCHANGED <<head, handler, seen, connector, trust, verified, taken, lapsed>>

(* No credentials, GitHub or the event bus refuses. *)
RefetchFails ==
    /\ Op /\ refetch = "active" /\ refetch' = "failed" /\ reading' = 0
    /\ UNCHANGED <<head, handler, seen, published, connector, trust, verified, taken, lapsed>>

(* COMPLETED_JOB_RETENTION, FAILED_JOB_RETENTION. *)
RefetchForgotten ==
    /\ Op /\ refetch \in {"completed", "failed"} /\ refetch' = "none"
    /\ UNCHANGED <<head, handler, seen, reading, published, connector, trust, verified, taken, lapsed>>

(* The api-server dies.  BullMQ runs a stalled job again. *)
ReceiverDies ==
    /\ Op
    /\ handler' = [h \in Handlers |-> NULL]
    /\ lapsed' = lapsed \cup {handler[h].delivery : h \in {g \in Handlers :
                                At(g, "enqueue") \/ At(g, "release")}}
    /\ refetch' = IF refetch = "active" THEN "delayed" ELSE refetch
    /\ reading' = 0
    /\ UNCHANGED <<head, seen, published, connector, trust, verified, taken>>

WebhooksNext ==
    \/ Push \/ SecretSet \/ ReceiverDies
    \/ \E to \in {"on", "off", "gone"} : ConnectorChanges(to)
    \/ \E h \in Handlers :
         \/ \E d \in 1 .. MaxPushes, c \in {"on", "off"}, signed \in {"per-app", "global"} :
              Receive(h, d, c, signed)
         \/ RecordVerifiedDelivery(h) \/ MarkDeliverySeen(h) \/ Enqueue(h)
         \/ ProcessingFails(h) \/ ReleaseDelivery(h) \/ ReleaseFails(h)
    \/ \E d \in 1 .. MaxPushes : DeliveryExpires(d)
    \/ RefetchBegins \/ RefetchReads \/ RefetchPublishes \/ RefetchFails \/ RefetchForgotten

-----------------------------------------------------------------------------
Handled(d) == \E h \in Handlers : handler[h] # NULL /\ handler[h].delivery = d

(* A delivery is refused as a duplicate only when its refetch was accepted *)
(* or is being handled: a failed handler takes its dedup key back, so the  *)
(* delivery can be sent again.  The exceptions are a handler that died, or *)
(* could not reach Redis again, after it had set the key.                  *)
DuplicateWasTaken ==
    part = "webhooks" => \A d \in seen : d \in taken \/ d \in lapsed \/ Handled(d)

(* Documentation (docs/connectors.md): webhooks keep the graph fresh       *)
(* between polls.  Once the refetch has completed and no delivery is being *)
(* handled, every push whose refetch was accepted has been published.  It  *)
(* does not hold while RefetchForgotten has not happened (README).         *)
TakenIsPublished ==
    part = "webhooks" /\ connector # "gone" /\ refetch = "completed" /\ (\A h \in Handlers : handler[h] = NULL)
        => \A d \in taken : d <= published
=============================================================================
