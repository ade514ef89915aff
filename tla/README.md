# TLA+ models of ShipIt-AI

ShipIt-AI keeps a knowledge graph of a software ecosystem (Neo4j), filled by connectors
and corrected by people, and beside it an agent platform and a text index (both
Postgres). This directory models the parts of it in which several processes, requests,
browsers or runs change the same state, checks them with TLC on small instances, and
proves their safety properties with TLAPS for every instance. `PROJECT.json` maps each definition to the lines it stands for and lists the
runs, their properties, the hazards, the findings and the theorems.

## 1. Inventory

| Component | State | Operations | What is hard, what makes it correct |
|---|---|---|---|
| Run store, agent loop, run queue, housekeeping, run API (`agents`, `agent-runner`, `routes/runs.ts`) | `runs`, `run_messages`, `tool_calls`; the slots of the workers; jobs in Redis | create, claim, renew, append, start and finish a call, end, park, cancel, sweep | Conditional writes are the only coordination. A worker dies anywhere or loses its lease unnoticed; jobs are lost and repeated. A write is not repeated, an ended run is final, a cancel stops it, nothing hangs. |
| Run stream (`routes/runs.ts`, `run-event-hub.ts`) | per connection: last message and status sent, queued catch-ups | connect, announcement, keepalive, catch-up | Best-effort announcements; a viewer misses nothing and sees nothing twice. |
| Agent definitions (`agent-store.ts`, `routes/agents.ts`) | agents, drafts, versions | create, edit, publish, archive | The draft that was checked is the one published. |
| Migrations (`agents/migrate.ts`) | schema, its record, an advisory lock | lock, apply, record | Several images deploy at once and die in the middle. |
| Knowledge index (`knowledge/store.ts`, `index-loop.ts`) | document row, chunks, claims | store, tombstone, purge, claim, replaceChunks, marks | The sink changes documents under the workers. |
| Knowledge containers (`knowledge/store.ts`, `connector-sdk/knowledge`, `knowledge-sync-scheduler.ts`) | selection, checkpoints, lives, empty-listing marks | select, list, run, prune, purge, delete | A batch of a deselected container or an earlier life must not land; nothing is fetched without consent; nothing is skipped. |
| GitHub knowledge (`connectors/github/knowledge`) | the checkpoint | walk, read the tree, batch | The source changes while it is read; a run is cut anywhere. |
| Graph writer and event bus (`core-writer`, `event-bus`) | queue, batches, idempotency keys, nodes, claims | publish, add, flush, write, mark absent | Reordered and repeated events, crashes, manual edits. |
| Manual claims, verification, reconciliation (`manual-edit-`, `verification-`, `reconciliation-service.ts`) | claims, merges, audit events | edit, retract, verify, review, merge, split | Overrides must survive merges and splits in any order. |
| Claim values (`claim-service.ts`, `claims/resolver.ts`, `confidence.ts`) | claims with confidences that decay | resolve for the graph, resolve for the page | Two programs resolve the same claims. |
| Manual relations (`relation-edit-service.ts`) | edges, trail | add, delete, connector's merge | A connector's edge is not a person's to delete. |
| Webhooks and refetch (`webhooks.ts`, `webhook-refetch-queue.ts`) | delivery keys, jobs | receive, enqueue, refetch | Deduplication must not lose a change. |
| Registry, scheduler, connector runs (`connector-registry.ts`, `connector-app-store.ts`, `sync-scheduler.ts`) | memory, YAML, Secret Manager blob, credential files, repeatable jobs, history | create, update, delete, boot, run | One request changes several stores, and fails or dies in the middle. |
| GitHub App creation (wizard, `github-app-manifest-service.ts`) | launches, one-time slots, localStorage | launch, callback, poll, claim | Late answers and other tabs. |
| Kubernetes connector | cluster, roles, nodes | probe, list, sweep | A list that is denied or fails must not delete. |
| Sign-in, sessions, tokens (`services/auth`, `routes/auth.ts`) | attempts, sessions, tokens | login, callback, mint, revoke | Overlapping callbacks, stale capabilities. |
| Setup (`setup-service.ts`, setup page) | Secret Manager, environment, mode | submit, complete, boot | Failing writes and restarts; a completed deployment boots. |
| Schema (`schema-service.ts`, schema editor) | file, history, memory | save, restore | Two editors. |
| Raw queries (`read-only-query.ts`, MCP server) | slots, budget, sessions | query, time out | The slots bound the load on the database. |
| Incident dashboard, connector drawer, onboarding, feedback (`web-ui`, their routes) | query caches, drafts, dialogs, Redis keys | open, fetch, save, report | Answers in any order, several tabs, lost answers. |
| Chunking, embedding, model clients, settings, retention, other pages | | | Section 7. |

How they interact: connectors publish to the event bus, the graph writer is its
consumer, and the API's manual edits are a second writer of the same claims.
Knowledge connectors call the sink, which writes document rows; Postgres itself is
the queue from which the knowledge workers claim them. The API writes run rows and
enqueues run ids in Redis; runner workers take the ids, claim the rows and drive the
runs; each runner sweeps for what was dropped. The runner announces changes on
Redis pub/sub and the API's streams then read Postgres.

## 2. Modules

| Module | Models | Notes |
|---|---|---|
| `RunStore` | the rows of one run, one operator per SQL statement | every statement is keyed by the run's id, so one run is enough |
| `AgentLoop` (extends it) | the worker slots | one action per store write and per tool execution, the heartbeat beside them |
| `AgentRuns` (extends it) | the system: API, queue, workers, sweep, clock | the properties are here |
| `RunLifecycle` | the promise to whoever watches a run: its status edges and its growing transcript | abstract; `AgentRuns` implements it with `length <- Len(transcript)` |
| `RunStream` | one viewer following one run over SSE | its run is any behaviour of `RunLifecycle` (`INSTANCE`), so what it shows holds for `AgentRuns` |
| `KnowledgeIndex` | one document: row, chunks, sink, workers | documents share no state |
| `GraphWriter` | from a source system to the graph: sync run, webhook refetch, queue, batches, writer, manual edit | two entities, one connector |
| `GraphEdits`, `ClaimValues`, `Relations`, `KnowledgeContainers`, `GitHubKnowledge`, `Migrations` | the parts of `MCGraphData` | what people and syncs do to the two stores |
| `Connectors`, `Webhooks`, `GitHubApp`, `Setup`, `Schema`, `Agents`, `Access`, `Queries`, `Kubernetes`, `Incident`, `Drawer`, `Onboarding`, `Feedback` | the parts of `MCPlatform` | the administrative side and the web UI |
| `Platform` | what the parts share: which part moves, and the count of free steps | see below |
| `AgentRunsProof`, `AgentCallsProof`, `AgentTurnsProof` | theorems about `AgentRuns` | section 6 |
| `RunStreamProof`, `KnowledgeIndexProof`, `GraphWriterProof` | theorems about the module of that name | |
| `PlatformProof`, `GraphDataProof` | theorems about the parts, as `MCPlatform` and `MCGraphData` compose them | one section per part |
| `MCAgentRuns`, `MCRunStream`, `MCKnowledgeIndex`, `MCGraphWriter`, `MCGraphData`, `MCPlatform` | symmetry sets, bounds and the composition for TLC | |

**Parts.** The components of `MCGraphData` and `MCPlatform` share no state as they are
modelled: where two of them meet in the code (the connector's
write of a claim, the sync a saved connector starts), the other side appears in the module
as a step of its environment. Their interleaving would show nothing, so a behaviour of
`MCPlatform` moves one part, chosen at the start (`part`), and the variables of the
others hold nothing. A property begins with `part = "..."` for that reason only. Every
part's initial states and next-state relation are complete, so that the union is what
separate runs of each would check.

**Steps that are free and steps that are not.** In the parts, an action that somebody
chooses (a person, a fault, a source that changes) is an `Op`, and a behaviour has at
most `MaxOps[part]` of them; a step that the code itself takes next (`NoOp`) is not
counted. `Bounds` in the MC modules gives the numbers; 0 means that the part has bounds of its own.

**Run state and code.** `leaseExpired` stands for `lease_expires_at < now()` and
`overdue` for "`updated_at` is older than the window of the present status": the
clock is an action that may set either at any time. A stored message is its role and
the set of call ids it carries. `told` is what the tool message says of each call;
`callStatus` is the audit row. They are written apart, as `execute()` does: `FinishCall` records a success
inside the try, `FailCall` is the catch, and a recording that commits and then throws goes from one
to the other with the row already settled. Calls come in three kinds (read, write or delete,
refused without running), because that is all `settleCalls` tells apart. A slot is one
call of `process()`; a slot that dies or throws loses everything (`Crash`), and its
lease runs out later. A pass of `drive()` reads and decides in one action, which is
sound because only the holder appends: a slot that lost the run decides on stale
data, but the store refuses what it then writes. The exception is `ListCalls`, which
is separate from the statements it leads to, because those of a late worker are *not*
refused (`finishToolCall` has no owner condition). Reads of one step run in any
order, writes one by one after them; when a start is refused, the other reads go on as
orphans (`drain`). `performed` and `lateSteps` are history variables. `jobs` counts the
waiting jobs of the run; duplicates beyond `MaxJobs` are dropped, since a duplicate is a
no-op for whoever takes it. `LoseJobs` empties Redis; `FailUnqueued` fires with and
without the job having arrived.

**Stream.** `sent` is `lastSeq + 1`. A catch-up has two reads, the record and then the
messages, and the run may move in between; either may fail. Catch-ups are chained
(`chain`), as the code's promise chain does.

**Index.** A content stands for its hash and chunks for the content they were made
from. `attached` says whether the row a worker claimed is still the same row, since a
purged document stored again gets a new id.

**Graph writer.** Each entity is a page of its own and a payload holds one node. A content
is a number, and a version the time of the source's change. `flight` holds the batches being
written, each with what it read of the claims; `expected` and `attested` are history: the newest
fetch, and what the last manual edit left.

**Containers.** One container and one document stand for all: they share nothing but the
budget, which may end a run at every call to the source. A checkpoint is the number of the last
change delivered. Runs, refreshes, PUTs and the DELETE of the connector interleave at every
statement and every call; `consent` and `lastEmpty` are history.

**Claim values.** Confidence is in hundredths and time in weeks, so that a week costs a
decaying claim one. The two resolvers are translated separately, as the code has them. The clamp at
zero counts: claims that have all decayed to nothing tie, and the latest is then shown whatever
was stored (nearly two years after a sync that stopped), which is the exception in `StoredIsShown`.

**Incident dashboard.** An answer carries the facts it was read with (somebody owned the service, which nodes chains of
edges joined to it, the graph of that moment), so that `CriticalIsShown` compares what the page
says with the graph as it was read, not as it is now. A fetch that is started, or comes to its retry,
without a network is paused (`paused`, `online`): react-query's `isLoading` is then false, and `Fetching` is that.
Fetches go on, and what the page has not is fetched again, once there is a network. A service that depends on itself is not listed in its own blast radius.

**Relations.** An add or a delete is its statements, each of which finds what is there by then: the read
(`CheckAdd`, `CheckDelete`), the MERGE or DELETE, and the event. What a transaction has written is
locked until it commits, so a MERGE that made the edge, or a DELETE that deleted it, is one step
with its event; one that changed nothing locks nothing and records its event later (`RecordRelation`).
`begunBy` (who last made an edge) and `crossed` (the pairs whose last event is of such a request) are history.

**Feedback.** A report is let through in one life of the person's key, then authenticated
(`AskIdentity`), then created; the key may expire at any time meanwhile. `issues` counts what each life's reports have filed.

**GitHub App wizard.** The check of the owner and the launch are two steps. The check keeps the buttons disabled, but
the wizard may be closed, opened or changed until the answer, which launches all the same.

**Registry.** A request is a record of where it is between two awaits; the process may die at
each. `torn` and `behind` are history: a request that died half way, and a blob that
Secret Manager refused.

Definitions named "Faulty variant of ..." are deliberately wrong versions, each the
bug its comment names. A run's property is known to be sensitive because TLC finds it
violated when the variant replaces the definition.

## 3. Runs

| Run | Instance | Checks |
|---|---|---|
| `agent_runs_writes` | task, 2 slots, 3 lease names, 1 write | a write takes effect at most once; the transcript contradicts the audit row no further than a recording that throws can make it; the first outcome stands; an ended run is frozen |
| `agent_runs_chat` | chat, 2 slots, 2 lease names, a second message, a call | implements `RunLifecycle`; every step's calls are answered by one tool message, and nothing lands between them; lease exactly while running, no parked run with a cancel pending |
| `agent_runs_live` | task, 1 slot, a read and a refused call | types; a cancel lets at most the step under way land; under fairness every run ends, a cancelled one too |
| `run_stream` | 3 messages, 2 lost connections | in order, once, nothing missing at `end`; the stream ends |
| `index_two_workers` | 2 workers, 2 texts and an empty document, 4 commits | nothing hidden is searchable, no old text lands |
| `index_live` | 1 worker | every document comes to rest, indexed with its content |
| `graph_writer` | 2 entities, a poll and a refetch, 2 flights | the newest content lands; a manual claim stands |
| `graph_data` | the six parts of `MCGraphData` | one property each, three for the containers |
| `platform` | the thirteen parts of `MCPlatform` | one property each |

The properties of the last two, each stated above its definition: `OverridesKept` (what a person
set is where merges and splits left it, and can be taken back), `RestrictedNeedsConsent`,
`EarlierLifeIsDoomed` and `NothingSkipped` (containers), `ShownIsWhatCounts` (what is stored
and what is shown agree at every later time while any confidence is left, and a verified value stays), `TrailExplainsEdges`,
`SourceIsRead` (no issue missed, the files are the tree's), `RecordedIsApplied`; `RegistryHolds`
(what is configured is what runs, and what a new instance finds), `DuplicateWasTaken`,
`AttachedIsLatest`, `CompletedBoots`, `NoBlindOverwrite`, `PublishedWasAllowed`,
`OneExchangePerAttempt`, `SlotsAreSessions`, `SuccessIsExhaustive`, `CriticalIsShown`,
`SavesWhatWasShown`, `ReportedIsDone`, `OneIssuePerCooldown`.

Three runs show, by a counterexample, where the code departs from one of its own
comments or documents (`findings` in `PROJECT.json` quotes them):

- `audit_divergence`: worker A loses the run; B takes it and starts the write; A, not
  knowing, lists the calls, finds B's write in flight and marks it `outcome_unknown`;
  B's `succeeded` is then dropped by the first-outcome rule. The transcript says
  "succeeded", the audit row "outcome unknown".
- `index_late_verdict`: two workers. The first claims an old content and is slow; the sink
  edits the document; the second claims the new content; the first's `markSkipped` or
  `markUnchanged` settles the second's claim, and the new content is never indexed.
  With one worker process (`index_live`) it cannot happen.
- `claim_divergence`: the core-writer is built without the schema's strategies, so a person's
  override decays and a connector's later claim of the same property is stored instead.

**Bounds.** Three lease names let a late worker, the holder and the next holder coexist.
The chat's run has two, one that is taken over
and one that takes over, because a call makes its states many more: its call is one the loop refuses to run, which is
answered like any other without the states of its execution, and `StepBound = 0` leaves out the refusals of the model that are counted
(a read or a run write beside them exceeds five minutes; the theorem covers all of them).
`MaxSteps = 2` has a step that is not the last and one that is. `StepBound` bounds only
the refusals of the model that are counted; `MaxJobs = 1` keeps one duplicate beside the
job being taken. `MaxStores = 4` is enough for store, edit, restrict or delete, and store
again. `MaxWire` bounds records in flight to the viewer, `MaxChain` queued catch-ups,
`MaxDrops` lost connections. Reads and writes are in separate runs, because together
they exceed what TLC finishes in minutes; the proofs cover them together, and the reads that
go on as orphans beside a second worker. Two lives of a connector and two changes of a document let
one id be deleted and used again with a batch of the first still in flight. In the parts, two
people, browsers, tabs or requests are what the races need, and the number of `Op`s is the least
that reaches every action and the faulty variant's violation, or more where TLC allows. Weeks pass by 3, which lets one claim
overtake another, and by 87, after which some claims have decayed to nothing. Three nodes
let merges be chained; two pages, installations or Apps give an answer another one to be mistaken
for. Deadlock is not checked: a finished run, an indexed document and a part whose people have
stopped are allowed to stop.

**Symmetry** is used for lease names, worker slots and texts in the runs without
liveness properties, for the nodes of `GraphEdits` and for the model values of `MCPlatform`, which the
parts share so that one small group of permutations serves all; no definition distinguishes
their members (where a definition orders or picks, its values are numbers and not permuted).

**Fairness.** `AgentRuns`: a live slot goes on, since tools and model calls have timeouts
(weak); the sweep is a repeating timer in every runner (weak; strong for a requeue whose
enqueue succeeds, so Redis may fail any finite number of times); a job offered again and
again is taken before Redis loses it every time (strong); time passes. Nothing is assumed
of crashes: a slot may die at every claim, and the run still ends, through `failStalled`.
`RunStream`: the client reconnects and reads, the keepalive timer fires, and Postgres does
not fail every read; announcements are not assumed to arrive. `KnowledgeIndex`: the loop
polls, time passes, and a document's worker does not die every single time (strong). The
last one is a real assumption: a stale claim counts no attempt, so a document that kills
its worker is claimed for ever. With two workers, fairness of each is not enough, since
claims may expire and move between them for ever; `index_live` has one.

## 4. Restrictions, and what they hide

A restriction is a place where the model does less than the code may. Where the code then
breaks the property, this says how.

| Module | Restriction | Without it |
|---|---|---|
| `Connectors` | `Overlap = FALSE`: requests for one connector do not overlap outside `inTurn()` | setWebhookSecret's sync is outside the chain of persists and the blob may miss the last change; a create that starts its schedule beside a DELETE leaves a schedule without a connector |
| `GraphEdits` | `OverlapReviews = FALSE`: one reconciliation or review is in flight | a candidate confirmed twice records two merges (`reconciliation-service.ts:319`); one split then leaves the other |
| `GraphWriter` | `Revisits = FALSE`: a source's content does not return to an earlier one | A, B, A within the keys' lifetime is dropped as a duplicate (`idempotency.ts:20`) |
| `GraphWriter` | versions are comparable (`Comparable`) where `NewestContentLands` is claimed | with content hashes as versions the older of two overlapping flushes may win |
| `Schema` | `OverlapSaves = FALSE` | two saves both pass If-Match, which is checked before the first await only |
| `Onboarding` | `BothWrite = FALSE` | web-ui and api-server both read, modify and write `shipit.config.local.yaml`; one of two changes is lost |
| `Onboarding` | nobody removes the file after a save; `seed:reset` and the welcome dialog are left out | |
| `GitHubApp` | one tab where `AttachedIsLatest` is claimed | a second tab keeps the App it attached when the first launches again |
| `GitHubApp`, `Kubernetes` | one probe is in flight | a stale probe's answer is shown for newer inputs |
| `Migrations` | an operator drops an invalid index only while no deployment holds the lock | |
| `KnowledgeContainers` | one mistaken empty listing at a time; one admin works on the containers at a time | two in a row are believed, by design |
| `Kubernetes` | one cluster name; a page of workloads and its rollup are one step; events are applied in order | `GraphWriter` is about the order |
| `Incident` | a request reads and answers in one step; claims and team queries left out; code owners are two edges away and never read | |
| `Relations` | Neo4j locks what a transaction has created or deleted until it commits | |
| `Agents` | `PublishedWasAllowed` speaks of versions published under If-Match | an edit between the check and the publication is published unchecked (`agents.ts:427`) |
| `Feedback` | one person | |

What is limited in `Feedback` is who is let through, not when an issue is filed: the request that asks GitHub who the token
is has no timeout (`feedback-service.ts:169`, `connectors/github/src/auth.ts`; only `issues.create` is given up after
10 s), so that a report may be filed after its key of 60 s is gone, beside one that the next key let through.

Further places where code and text disagree, or where the code surprised, each met while its
module was written and not the subject of a run:

- `webhook-refetch-queue.ts:164-167`: a job id that is still among the retained finished jobs
  makes `add()` a no-op, so a push within the retention window of the previous refetch is not
  fetched, against docs/connectors.md:134 (`TakenIsPublished` in `Webhooks` states the promise; it does
  not hold). A comment there expects BullMQ to retry a failed job, but no attempts are configured. A
  crash between the delivery's key and its enqueue makes redeliveries duplicates for the key's lifetime.
- `agent-loop.ts:233`: a worker that dies after appending the last step and before failing the run
  lets the next holder run that step's calls; `:167`: a takeover in the middle of a chat turn restarts
  its step count; `routes/runs.ts:167`: an enqueue that timed out although Redis took the job makes
  the API fail a run a worker is driving.
- `agent-loop.ts:493-506`: a success whose recording commits and then throws is told to the model as an error, while the
  row says `succeeded` (the catch's `failed` is dropped by the first-outcome rule), which is the exception in `AuditNeverContradicts`.
- `connectors/kubernetes/src/fetchers/workloads.ts:306`: restarts that could not be read are kept at
  what a pod list without permission gives (`ZeroIsMeasured` in `Kubernetes` states the comment of `types.ts`; it does not hold).
- `web-ui` incident page, offline: while a fetch is paused the page says "Service not in catalog" (`page.tsx:136`), or "No downstream
  impact" (`incident-blast-radius-table.tsx:78`), of an answer that never came. `LOW` is also said while the blast radius
  is loading, paused or failed (`page.tsx:182`), against "when in doubt the verdict is ELEVATED" (`incident-safety-verdict.tsx:137`).
- `web-ui` incident page: `LOW` is decided before the rule about PII (`incident-safety-verdict.tsx:153`), and from
  claims that may not be loaded (`page.tsx:182`); a blast radius cut at its limit before absent nodes are dropped reports
  `truncated: false` (`neo4j-service.ts:404`); code owners are never found (`use-incident-context.ts:73`).
- `connectors/github/src/knowledge/connector.ts:508`: documentation that a truncated tree or a cut run left out
  is read again only when the tree changes; a backfill that is cut while time passes the horizon leaves a gap if `historyDays` is widened later.
- Setup: two browsers that submit OAuth clients at once may mix id and secret of the two. A crash after a complete
  set of secrets and before `complete()` boots active without the marker.
- Sessions keep their role for 12 hours after a demotion; tokens minted by a since-revoked token survive it.
- Agents: publishing without If-Match checks one draft and may publish another.
- Onboarding: the dialog says the UI reflects the identity through localStorage (`onboarding-dialog.tsx:164`), which
  `current-user.ts:161` no longer reads; a retry starts a second seed beside the first.
- GitHub App wizard: closing the dialog while the claim's answer is in flight loses the one-time credentials.
- Relations: of two people who delete the same edge at the same time one deletes nothing, yet records `relation_removed` and answers as
  if it had, against `relation-edit-service.ts:261-270`; if the edge was made again meanwhile, the trail of a manual edge ends in "removed".
  An add that finds its own mark and time records likewise. These are the pairs in `crossed`.
- Relations: the connector's MERGE keeps a person's mark, so an edge both assert is the person's to delete; two additions by one
  person in one millisecond record two events.
- Registry: a boot that cannot read the blob falls back to YAML and then overwrites the blob (`index.ts:272-280`);
  a failed persist leaves memory ahead of the disk.
- Index: a document that kills its worker is retried for ever (`knowledge/store.ts:850`); housekeeping: one enqueue that
  fails ends the sweep for all runs (`housekeeping.ts:55`).

## 5. Properties worth reading first

`WriteAtMostOnce`, `AuditNeverContradicts`, `TranscriptWellFormed`, `EndedRunIsFrozen`,
`ImplementsLifecycle` and `RunRests` in `AgentRuns`; `EndIsComplete` and `InOrderOnce` in
`RunStream`; `OnlyCurrentContentLands` in `KnowledgeIndex`; `NewestContentLands` in `GraphWriter`; `NothingSkipped` and
`EarlierLifeIsDoomed` in `KnowledgeContainers`; `OverridesKept` in `GraphEdits`; `RegistryHolds` in `Connectors`.

## 6. Proofs

Workers, people, browsers, contents, documents and bounds are arbitrary sets and numbers in
the theorems, infinite ones included; a theorem about a part is about the specification of its MC module,
whose other parts cannot touch its variables (`PartSteps`). The assumptions are named in the
modules, and every run evaluates them: bounds are natural numbers, `NULL` is none of the values or records a variable
may hold beside it (a record that is absent must be told from one that is there), the kinds of calls are disjoint,
migration versions and workloads are numbered, the demo data lists an edge after its nodes, a connector does not
claim under the keys of people, the graph of the dashboard has finitely many nodes, people are on call and teams own
(as the schema has it).

| Theorem | Module | Statement |
|---|---|---|
| `TypeCorrect` | `AgentRunsProof` | `Spec => []TypeOK` |
| `RowIsConsistent` | | `Spec => []RowConsistent` |
| `EndedStaysEnded` | | `Spec => EndedRunIsFrozen` |
| `OutcomesStand` | | `Spec => FinishedCallStands` |
| `RunsFollowTheLifecycle` | | `Spec => ImplementsLifecycle` |
| `WritesHappenOnce` | `AgentCallsProof` | `Spec => []WriteAtMostOnce` |
| `AuditIsSound` | | `Spec => []AuditNeverContradicts` |
| `TranscriptStaysWellFormed` | `AgentTurnsProof` | `Spec => []TranscriptWellFormed` |
| `CancelStopsTheModel` | | `Spec => []StopsAfterCancel` |
| `MessagesInOrder` | `RunStreamProof` | `Spec => []InOrderOnce` |
| `EndMeansComplete` | | `Spec => []EndIsComplete` |
| `HiddenStaysHidden` | `KnowledgeIndexProof` | `Spec => []HiddenIsUnsearchable` |
| `OnlyCurrentLands` | | `Spec => OnlyCurrentContentLands` |
| `SettledDocumentIsCurrent` | | `OneWorker /\ Spec => []SettledIsCurrent` |
| `EditsAreKept` | `GraphWriterProof` | `Spec => []ManualClaimStands` |
| `NewestLands` | | `~Revisits /\ Spec => []NewestContentLands` |
| `SlotsAreHeld` | `PlatformProof` | `Spec => []SlotsAreSessions` |
| `AttemptsAreExchangedOnce` | | `Spec => []OneExchangePerAttempt` |
| `IssuesAreLimited` | | `Spec => []OneIssuePerCooldown` |
| `CompletedSetupBoots` | | `Spec => []CompletedBoots` |
| `SavesAreNotBlind` | | `~OverlapSaves /\ Spec => []NoBlindOverwrite` |
| `DuplicatesWereTaken` | | `Spec => []DuplicateWasTaken` |
| `PublishedAreAllowed` | | `Spec => []PublishedWasAllowed` (of versions published under If-Match) |
| `SavesReplaceWhatWasShown` | | `Spec => []SavesWhatWasShown` |
| `ReportsAreTrue` | | `~BothWrite /\ Spec => []ReportedIsDone` |
| `SuccessHasSeenAll` | | `Spec => []SuccessIsExhaustive` |
| `LatestIsAttached` | | one tab and `Spec => []AttachedIsLatest` |
| `RegistryIsKept` | | `~Overlap /\ Spec => []RegistryHolds` |
| `CriticalIsTrue` | | `Spec => []CriticalIsShown` |
| `RecordsAreTrue` | `GraphDataProof` | `Spec => []RecordedIsApplied` |
| `TrailIsTrue` | | `Spec => []TrailExplainsEdges` |
| `RestrictedIsAccepted` | | `Spec => []RestrictedNeedsConsent` |
| `EarlierLivesEnd` | | `Spec => []EarlierLifeIsDoomed` |
| `CheckpointsAreTrue` | | `Spec => []NothingSkipped` |
| `TheSourceIsRead` | | `Spec => []SourceIsRead` |
| `OverridesAreKept` | | `~OverlapReviews /\ Spec => []OverridesKept` |
| `WhatCountsIsShown` | | `Spec => []ShownIsWhatCounts` |

**Hypotheses.** Seven theorems need one, each a restriction of section 4 or a fact of section 3 that names how the code
breaks the property without it: one index worker (`index_late_verdict` refutes it for two), a source that does not return
to an earlier content, one schema update, one review and one writer of the local YAML file at a time, one request at a time for
a connector (and a new webhook secret alone), one tab of the wizard (a second tab keeps its App when the first launches again). The runs that check these properties give the constants the same values;
`SettledIsCurrent` is checked by `index_late_verdict` only, where it fails for two workers.

**Agent runs.** The argument rests on `StepEffect`: every step of the system makes at most one store
statement, out of the dozen in `StoreEffect`. Properties of the rows are then proved
per statement instead of per action. `TypeOK` is not inductive: that the last message
exists when a slot reads it needs `Started` (a run that exists has a message, and a busy
slot implies a run), and that a slot ends a run with a terminal status needs `VerdictReady`.
Together they are `TypeInv`. `RowInv` adds that a busy slot has a lease name, so that
`lease_owner = $owner` never matches an absent owner; `OwnerRuns` (an owner's statements
find the run running) follows, and from it the frozen end and the refinement.
For writes the inductive invariant is `WriteInv`: the row exists before the tool runs, at
most one slot has the write in progress, the effect has not happened while its task is
`run`, and meanwhile nothing but `outcome_unknown` can be put on the row. `ResultInv` says
what a slot may believe of a call given its row, after a recording that threw too; `AuditIsSound` needs it because `told` is
copied from the slot, not from the row. For the transcript, `TurnInv`: two slots never hold the run under one
name, and the slot that owns the lease knows the last message as it is, so that what it appends
fits behind it; a slot that lost the lease may be wrong about it and is refused.

**Stream.** `StreamInv` speaks of the wire: every message sent and not received is on it, once and in order (`WireInv`), and
the last record sent is the one the stream ended for (`EndInv`).

**Index.** `HiddenIsUnsearchable` is inductive as it stands. `IndexInv` adds, for one worker, that its claim is of what is
stored as long as its verdict would be recorded, and that what is recorded as indexed is what the chunks were made from: a
document that comes back from restriction must be new to it.

**Graph writer.** `ClaimInv`: what a flight has read of a node has no newer revision than the node, and where the
revisions agree, neither has the manual claim changed. `BusInv`: the job that is active is the last of a batch being
written. `NewestLands` quantifies over when each entity came to hold each content (`Dates`). `Revisits` false makes that a
function, which a step only extends (`DateMove`), and `LandInv` says of it that a content whose key is set, or whose
flight has written, has landed or has been overtaken, and that what was expected has landed or is still waiting somewhere.

**Parts of `MCPlatform`.** Each has an inductive invariant named after it. The ideas: the counter of slots is the number
of open sessions (`QueriesInv`); of two callbacks of an attempt only one can hold it (`AccessInv`); each life of the cooldown's key
has let one report through, which has filed nothing while it is on its way (`FeedbackInv`); whatever secret is missing from the vault is still owed by the request that will write it, before "done"
(`SetupInv`); a save under way is of a schema its editor knows (`SchemaInv`); a delivery's key has a handler, a refetch, or has
outlived one (`WebhooksInv`); a read revision that is still the row's means an unchanged draft (`AgentsInv`); the hash an admin
sends is the one the form was filled from (`DrawerInv`); a seed at an item has written all before it (`OnboardingInv`); a Kubernetes run
that has not failed has seen, will list or has marked its role's denial of every workload that stands (`RunStands`); an answer or a record
that is alive is of the latest launch, and while an owner is asked for there is none of either (`AppInv`). The registry needs the most (`ConnectorsInv`): the chain has
the requests whose persist has not ended, and only its first is past the file (`ChainStands`), so that the list a write
carries is the registry's save where a later request waits (`ListsStand`), and what is stored is the registry's
save where a request has yet to write (`StoredStand`); `RuntimeStands` says the same of the jobs in Redis.
The dashboard's invariant (`IncidentInv`) says that whatever is cached under a service was read for it and that its parts fit
one another (`NearFacts`, `BlastFacts`), and that data which is missing is on its way, waits for the network or has failed (`OpenAsks`). That chains of edges
join to a service just the nodes that the walk comes to (`JoinedIsReached`) is an induction over the hops of the walk.

**Parts of `MCGraphData`.** Migrations: whoever is past the lock holds it, what it has pending is newer than every record,
and the index it is about to record stands (`Ahead`); `LeastNatural` gives the next version. Relations: a person's mark
is on an edge exactly when the trail's last event about it is an addition, unless that event is of a request that changed nothing. Containers: `LivesStand` (what an earlier life
left is deselected, gone and waiting for the purge, from `remove` on), `CheckpointsStand` (what a batch brings is what the source
had or has replaced since, and what a listing leaves out is not there, newer, or everything), `ConsentStands`. GitHub
knowledge: while a walk lists, every issue is in its refs as it is now, behind the page, or has moved to the front
(`ListStands`); while it stores, an issue is stored, still in the refs, in front of them, or behind where the walk stopped
(`FetchStands`); the refs go from the oldest to the latest, so a cut leaves the cursor before all that was not stored. That a page is
the latest issue left (`PageIsLatest`) needs finitely many issues, and numbers for them (`KnowledgeAssumption`).
Overrides: what a reviewer's request has read is still so in its transaction (`ReviewStands`, which overlapping reviews
break), and a user's own claim is on its node under its own id unless a merge brought one of the same identity (`OwnStand`).
Claims: what is stored is the value of the claim that came first, by confidence left and then by date, at some week since the
claims last changed (`StoredStands`), and what comes first now, if it has any confidence left, came first at every earlier week
too (`TopHasLed`); every claim under the key of verifications has the value verified last (`AttestedStands`). What a sort puts first is
characterised without the sort: some claim of a sequence comes before all others (`TopsExists`), only one does (`TopsUnique`), and it is the
one `First` gives (`FirstLeads`).

**Recursion.** `Only` (a filter) and `Walk` (the nodes within so many hops) are recursive functions on an interval. The library's induction
theorems take an operator as a parameter, so that both modules have a lemma of their own: a set of numbers up to `n` that holds 0 and is closed
under the successor is all of them, since the least number left out has a predecessor (`Inductively`, from `LeastNatural`); and a function
that obeys the recursion exists, by that induction over its length (`RecursionDefines`), which is what CHOOSE needs to give it.

Several modules were changed for the proofs, without changing what they allow: records have one shape and a set that names it,
so that `NULL` can be told from them, and the pending migrations of a deployment are a set of which
the least is next, as sorting the file names amounts to.

**Only model-checked**: the liveness properties (`RunRests`, `CancelEnds`, `EventuallyIndexed`, `StreamEnds`), because
fairness and ENABLED are beyond the prover. Every safety property that a passing run checks is the statement of
a theorem.

## 7. Not modelled

Calls to model clients, embedders and source systems, and the text processing around them
(chunking, redaction, normalizing): what they answer is a choice. Token, time and daily limits of a run (a free
choice of the model), warnings, cost totals, validation, and the read endpoints. Settings and audit
retention: single writes, and a deletion by age. The pages of the web UI that show what the API
answers. The read-only query guard's grammar: `Queries` takes its verdict as a choice. Identity reconciliation by linking
keys in the core-writer, edges of a payload, the dead letter queue and replay. `PROJECT.json` gives the reason per component.

## 8. Plan

1. Proofs: every safety property is proved; new models bring new theorems.
2. Models: identity reconciliation in `GraphWriter`; the similarity scores and the query guard as pure operators.
