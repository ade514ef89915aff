---------------------------- MODULE PlatformProof ----------------------------
(***************************************************************************)
(* Proofs about the administrative parts, as MCPlatform composes them.     *)
(* Each part has an inductive invariant of its own; the parts share no     *)
(* state, so a part's invariant is disturbed by its own actions only.      *)
(***************************************************************************)
EXTENDS MCPlatform, FiniteSetTheorems, SequenceTheorems, WellFoundedInduction, TLAPS

-----------------------------------------------------------------------------
(* THE PARTS.  No action of any part changes the part a behaviour is about. *)
LEMMA ConnectorsKeepPart == ConnectorsNext => part' = part
<1>1. (Op => part' = part) /\ (NoOp => part' = part)
  BY DEF Op, NoOp
<1>2. ASSUME NEW r, NEW i, NEW c, Create(r, i, c) \/ Patch(r, i, c) PROVE part' = part
  BY <1>1, <1>2 DEF Create, Patch
<1>3. ASSUME NEW r, NEW i, Delete(r, i) \/ SetWebhookSecret(r, i) PROVE part' = part
  BY <1>1, <1>3 DEF Delete, SetWebhookSecret
<1>4. ASSUME NEW r, DeleteRefused(r) \/ Remove(r) \/ PersistFile(r) \/ PersistFails(r)
      PROVE  part' = part
  BY <1>1, <1>4 DEF DeleteRefused, Remove, PersistFile, PersistFails
<1>5. ASSUME NEW r, ReadBlob(r) \/ ReadBlobFails(r) \/ WriteBlob(r) \/ WriteBlobFails(r)
      PROVE  part' = part
  BY <1>1, <1>5 DEF ReadBlob, ReadBlobFails, WriteBlob, WriteBlobFails
<1>6. ASSUME NEW r, Stop(r) \/ Start(r) \/ RunnerFails(r) \/ Clear(r) PROVE part' = part
  BY <1>1, <1>6 DEF Stop, Start, RunnerFails, Clear
<1>7. ASSUME NEW i, PostCredentials(i) \/ TriggerSync(i) \/ Poll(i) \/ JobBegin(i)
      PROVE  part' = part
  BY <1>1, <1>7 DEF PostCredentials, TriggerSync, Poll, JobBegin
<1>8. ASSUME NEW o, JobEnd(o) PROVE part' = part
  BY <1>1, <1>8 DEF JobEnd
<1>9. ASSUME NEW read, NEW keepsFile, NEW keepsKeys, Restart(read, keepsFile, keepsKeys)
      PROVE  part' = part
  BY <1>1, <1>9 DEF Restart
<1>. QED
  BY <1>2, <1>3, <1>4, <1>5, <1>6, <1>7, <1>8, <1>9 DEF ConnectorsNext

LEMMA WebhooksKeepPart == WebhooksNext => part' = part
BY DEF WebhooksNext, Push, SecretSet, ReceiverDies, ConnectorChanges, Receive,
       RecordVerifiedDelivery, MarkDeliverySeen, Enqueue, ProcessingFails, ReleaseDelivery,
       ReleaseFails, DeliveryExpires, RefetchBegins, RefetchReads, RefetchPublishes,
       RefetchFails, RefetchForgotten, Op, NoOp

LEMMA AppKeepsPart == AppNext => part' = part
BY DEF AppNext, OpenWizard, CloseWizard, SelectMode, CreateFromTemplate, CancelWait,
       CancelManifest, CheckOwner, CreateInstanceApp, OwnerRefused, DiscardApp, PasteApp, PollPending, SeeAppStatus,
       PollAnswer, GoNext, GoBack, ChooseInstallation, ProbeConnector, HandleCreate,
       ProbeAnswer, ManifestCallback, ExchangeAndPersist, ExchangeFails, TokensExpire,
       RecordExpires, Op, NoOp

LEMMA SetupKeepsPart == SetupNext => part' = part
BY DEF SetupNext, Boot, ProcessEnds, OperatorOpens, Submit, StoreWrite, Acknowledge,
       WriteFails, Probe, FetchStatus, PollRestart, RestartTimesOut, Reload, Op, NoOp

LEMMA SchemaKeepsPart == SchemaNext => part' = part
BY DEF SchemaNext, Edit, Refetch, OpenSaveDialog, CloseDialog, ConfirmSave, SaveConflict,
       KeepEditingAgainstNewBase, DiscardAndReload, OpenHistory, RollbackTo, PutSchema,
       WriteSnapshot, SnapshotFails, ReplaceFile, ReplaceFails, Settle, ServerRestarts,
       Op, NoOp

LEMMA AgentsKeepPart == AgentsNext => part' = part
BY DEF AgentsNext, CreateAgent, Get, UpdateDefinition, UpdateEnabled, Archive,
       PublishCheck, Publish, EnsureBuiltin, PublishBuiltin, RestartWith, Op, NoOp

LEMMA AccessKeepsPart == AccessNext => part' = part
BY DEF AccessNext, StartAuthorization, CreateToken, Callback, Consume, ExchangeFailed,
       Exchange, StateExpires, SessionEnds, RestartWithLists, Mint, Revoke, Op, NoOp

LEMMA QueriesKeepPart == QueriesNext => part' = part
BY DEF QueriesNext, PostQuery, GraphQuery, RevokeToken, EnterOrBusy, ReadEnds, GivesUp,
       ReadRow, Midnight, SessionCloses, Op, NoOp

LEMMA KubernetesKeepsPart == KubernetesNext => part' = part
BY DEF KubernetesNext, WorkloadCreated, WorkloadDeleted, PodRestarts, RoleChanges,
       StoreCredentials, ToggleKind, RunProbe, WizardGoesOn, WizardGoesBack,
       ConnectCluster, ScopeChanges, StartRun, NotAuthenticated, ListNamespaces,
       KindForbidden, FetchPage, FetchFails, RunEnds, RunGoesTo, Op, NoOp

LEMMA IncidentKeepsPart == IncidentNext => part' = part
BY DEF IncidentNext, EdgeChanges, GradeChanges, Sweep, OpenDashboard, LeaveDashboard,
       GoOffline, GoOnline, Answered, GrowsOld, RetryPauses, FetchError, Op, NoOp

LEMMA DrawerKeepsPart == DrawerNext => part' = part
BY DEF DrawerNext, Save, EditDraft, GetConnector, GetLands, DeleteConnector, Refused,
       PatchApplies, DeleteApplies, AnswerLands, SyncNow, Close, RunRecorded, CreateAgain,
       Request, Op, NoOp

LEMMA OnboardingKeepsPart == OnboardingNext => part' = part
BY DEF OnboardingNext, FileGoes, DirectoryLocks, Neo4jGoes, Neo4jComes, SyncWrites,
       InstancesSaved, Rename, ServersRestart, LoadPage, FillIn, WantsSeed, StepForward,
       StepBackward, DontShowAgain, PastedByHand, ProbeGraph, StatusLands, SaveIdentity,
       WriteTemp, IdentityFails, SpawnSeed, ConnectionBreaks, SeedWrites, SeedTimesOut,
       SeedEnds, SeedFails, Checkout, Infra, Op, NoOp

LEMMA FeedbackKeepsPart == FeedbackNext => part' = part
BY DEF FeedbackNext, Configure, LimiterTurns, KeyExpires, SeeLauncher, OpenForm, Write,
       CancelForm, SendReport, ReportAnswered, Rejected, CheckRateLimit, Unlimited,
       NotFiled, AskIdentity, IdentityRefused, CreateReport, Arrived, Limited, Op, NoOp

LEMMA PartKept == [Next]_vars => part' = part
BY ConnectorsKeepPart, WebhooksKeepPart, AppKeepsPart, SetupKeepsPart, SchemaKeepsPart,
   AgentsKeepPart, AccessKeepsPart, QueriesKeepPart, KubernetesKeepsPart,
   IncidentKeepsPart, DrawerKeepsPart, OnboardingKeepsPart, FeedbackKeepsPart
DEF Next, vars

(* In the behaviours about one part, its own actions are the only ones that *)
(* change its variables.                                                    *)
LEMMA PartSteps ==
    ASSUME [Next]_vars
    PROVE  /\ part = "queries" => QueriesNext \/ UNCHANGED queryVars
           /\ part = "access" => AccessNext \/ UNCHANGED accessVars
           /\ part = "setup" => SetupNext \/ UNCHANGED setupVars
           /\ part = "schema" => SchemaNext \/ UNCHANGED schemaVars
           /\ part = "feedback" => FeedbackNext \/ UNCHANGED feedbackVars
           /\ part = "webhooks" => WebhooksNext \/ UNCHANGED webhookVars
           /\ part = "wizard" => AppNext \/ UNCHANGED appVars
           /\ part = "agents" => AgentsNext \/ UNCHANGED agentVars
           /\ part = "onboarding" => OnboardingNext \/ UNCHANGED onboardingVars
           /\ part = "drawer" => DrawerNext \/ UNCHANGED drawerVars
           /\ part = "kubernetes" => KubernetesNext \/ UNCHANGED kubernetesVars
           /\ part = "incident" => IncidentNext \/ UNCHANGED incidentVars
           /\ part = "connectors" => ConnectorsNext \/ UNCHANGED connectorVars
BY DEF Next, vars

-----------------------------------------------------------------------------
(* QUERIES.  A caller has a session it waits for exactly while its call reads *)
(* or closes, so entering adds a session that was not there, giving up swaps  *)
(* one session for another and closing removes one.                           *)
Sessions == [of : Callers, waited : BOOLEAN]
Waited(c) == [of |-> c, waited |-> TRUE]
Left(c) == [of |-> c, waited |-> FALSE]

QueriesInv ==
    /\ IsFiniteSet(open) /\ open \subseteq Sessions
    /\ running = Cardinality(open) /\ running <= MaxConcurrent
    /\ call \in [Callers -> Calls \cup {NULL}]
    /\ \A c \in Callers : Waited(c) \in open <=> Is(c, "read") \/ Is(c, "close")

LEMMA QueriesInitInv == QueriesInit => QueriesInv
<1> SUFFICES ASSUME QueriesInit PROVE QueriesInv
  OBVIOUS
<1>1. IsFiniteSet(open) /\ Cardinality(open) = 0
  BY FS_EmptySet DEF QueriesInit
<1>. QED
  BY <1>1, QueriesAssumption DEF QueriesInit, QueriesInv, Is

(* A step that leaves the sessions and what the calls have of them alone. *)
LEMMA SessionsKept ==
    ASSUME QueriesInv, UNCHANGED <<running, open>>,
           call' \in [Callers -> Calls \cup {NULL}],
           \A c \in Callers : (Is(c, "read") \/ Is(c, "close")) <=> (Is(c, "read") \/ Is(c, "close"))'
    PROVE  QueriesInv'
BY DEF QueriesInv, Waited

LEMMA BegunKeepsSessions ==
    ASSUME QueriesInv, NEW c \in Callers, call[c] = NULL, Begun(c), UNCHANGED <<running, open>>
    PROVE  QueriesInv'
<1>1. [at |-> "run", rows |-> 0] \in Calls
  BY QueriesAssumption DEF Calls
<1>2. call' \in [Callers -> Calls \cup {NULL}]
  BY <1>1 DEF Begun, QueriesInv
<1>3. \A b \in Callers : (Is(b, "read") \/ Is(b, "close")) <=> (Is(b, "read") \/ Is(b, "close"))'
  BY <1>1 DEF Begun, QueriesInv, Is
<1>. QED
  BY <1>2, <1>3, SessionsKept

LEMMA EnterKeepsSlots ==
    ASSUME QueriesInv, NEW c \in Callers, EnterOrBusy(c)
    PROVE  QueriesInv'
<1>1. call[c] \in Calls /\ call[c].at = "run" /\ Waited(c) \notin open
  BY DEF EnterOrBusy, Is, QueriesInv
<1>2. CASE running >= MaxConcurrent
  <2>1. call' \in [Callers -> Calls \cup {NULL}] /\ UNCHANGED <<running, open>>
    BY <1>2 DEF EnterOrBusy, Over, QueriesInv
  <2>2. \A b \in Callers : (Is(b, "read") \/ Is(b, "close")) <=> (Is(b, "read") \/ Is(b, "close"))'
    BY <1>1, <1>2 DEF EnterOrBusy, Over, QueriesInv, Is
  <2>. QED
    BY <2>1, <2>2, SessionsKept
<1>3. CASE ~(running >= MaxConcurrent)
  <2>1. /\ running' = running + 1 /\ open' = open \cup {Waited(c)}
        /\ call' = [call EXCEPT ![c].at = "read"]
    BY <1>3 DEF EnterOrBusy, Waited
  <2>2. IsFiniteSet(open') /\ Cardinality(open') = Cardinality(open) + 1
    BY <1>1, <2>1, FS_AddElement DEF QueriesInv
  <2>3. running \in Nat
    BY FS_CardinalityType DEF QueriesInv
  <2>4. running' <= MaxConcurrent
    BY <1>3, <2>1, <2>3, QueriesAssumption
  <2>5. [call[c] EXCEPT !.at = "read"] \in Calls
    BY <1>1 DEF Calls
  <2>6. call' \in [Callers -> Calls \cup {NULL}]
    BY <2>1, <2>5 DEF QueriesInv
  <2>7. Waited(c) \in Sessions
    BY DEF Waited, Sessions
  <2>8. call'[c] # NULL /\ call'[c].at = "read"
    BY <1>1, <2>1, <2>5, QueriesAssumption DEF QueriesInv, Calls
  <2>9. ASSUME NEW b \in Callers
        PROVE  Waited(b) \in open' <=> (Is(b, "read") \/ Is(b, "close"))'
    <3>1. CASE b = c
      BY <2>1, <2>8, <3>1 DEF Is
    <3>2. CASE b # c
      <4>1. call'[b] = call[b] /\ Waited(b) # Waited(c)
        BY <2>1, <3>2 DEF QueriesInv, Waited
      <4>. QED
        BY <2>1, <4>1 DEF QueriesInv, Is
    <3>. QED
      BY <3>1, <3>2
  <2>. QED
    BY <2>1, <2>2, <2>4, <2>6, <2>7, <2>9 DEF QueriesInv, Waited
<1>. QED
  BY <1>2, <1>3

LEMMA GivesUpKeepsSlots ==
    ASSUME QueriesInv, NEW c \in Callers, GivesUp(c)
    PROVE  QueriesInv'
<1>1. /\ open' = (open \ {Waited(c)}) \cup {Left(c)} /\ running' = running
      /\ call' = [call EXCEPT ![c] = NULL] /\ Left(c) \notin open
  BY DEF GivesUp, Waited, Left, Over
<1>2. Waited(c) \in open
  BY DEF GivesUp, QueriesInv
<1>3. /\ IsFiniteSet(open \ {Waited(c)})
      /\ Cardinality(open \ {Waited(c)}) = Cardinality(open) - 1
  BY <1>2, FS_RemoveElement DEF QueriesInv
<1>4. Left(c) \notin open \ {Waited(c)}
  BY <1>1
<1>5. IsFiniteSet(open') /\ Cardinality(open') = Cardinality(open) - 1 + 1
  BY <1>1, <1>3, <1>4, FS_AddElement
<1>6. Cardinality(open) \in Nat
  BY FS_CardinalityType DEF QueriesInv
<1>7. Left(c) \in Sessions
  BY DEF Left, Sessions
<1>8. call' \in [Callers -> Calls \cup {NULL}]
  BY <1>1 DEF QueriesInv
<1>9. ASSUME NEW b \in Callers
      PROVE  Waited(b) \in open' <=> (Is(b, "read") \/ Is(b, "close"))'
  <2>1. Waited(b) # Left(c)
    BY DEF Waited, Left
  <2>2. CASE b = c
    BY <1>1, <2>1, <2>2 DEF Is, QueriesInv
  <2>3. CASE b # c
    <3>1. call'[b] = call[b] /\ Waited(b) # Waited(c)
      BY <1>1, <2>3 DEF QueriesInv, Waited
    <3>. QED
      BY <1>1, <2>1, <3>1 DEF QueriesInv, Is
  <2>. QED
    BY <2>2, <2>3
<1>10. Cardinality(open') = Cardinality(open)
  BY <1>5, <1>6
<1>. QED
  BY <1>1, <1>5, <1>7, <1>8, <1>9, <1>10 DEF QueriesInv, Waited

LEMMA ClosingKeepsSlots ==
    ASSUME QueriesInv, NEW s \in open, SessionCloses(s)
    PROVE  QueriesInv'
<1>1. IsFiniteSet(open') /\ Cardinality(open') = Cardinality(open) - 1
  BY FS_RemoveElement DEF QueriesInv, SessionCloses
<1>2. Cardinality(open) \in Nat
  BY FS_CardinalityType DEF QueriesInv
<1>3. running' = Cardinality(open') /\ running' <= MaxConcurrent
  BY <1>1, <1>2, QueriesAssumption DEF QueriesInv, SessionCloses
<1>4. PICK c \in Callers, w \in BOOLEAN : s = [of |-> c, waited |-> w]
  BY DEF QueriesInv, Sessions
<1>5. call' = IF w THEN [call EXCEPT ![c] = NULL] ELSE call
  BY <1>4 DEF SessionCloses
<1>6. call' \in [Callers -> Calls \cup {NULL}]
  BY <1>5 DEF QueriesInv
<1>7. ASSUME NEW b \in Callers
      PROVE  Waited(b) \in open' <=> (Is(b, "read") \/ Is(b, "close"))'
  <2>1. Waited(b) \in open' <=> Waited(b) \in open /\ Waited(b) # s
    BY DEF SessionCloses
  <2>2. CASE w /\ b = c
    BY <1>4, <1>5, <2>1, <2>2 DEF Is, QueriesInv, Waited
  <2>3. CASE ~(w /\ b = c)
    <3>1. call'[b] = call[b] /\ Waited(b) # s
      BY <1>4, <1>5, <2>3 DEF QueriesInv, Waited
    <3>. QED
      BY <2>1, <3>1 DEF QueriesInv, Is
  <2>. QED
    BY <2>2, <2>3
<1>. QED
  BY <1>1, <1>3, <1>6, <1>7 DEF QueriesInv, Waited, SessionCloses

LEMMA QueriesStep == QueriesInv /\ (QueriesNext \/ UNCHANGED queryVars) => QueriesInv'
<1> SUFFICES ASSUME QueriesInv, QueriesNext \/ UNCHANGED queryVars PROVE QueriesInv'
  OBVIOUS
<1>1. ASSUME NEW c \in Callers, NEW text \in Texts, PostQuery(c, text) \/ GraphQuery(c, text)
      PROVE  QueriesInv'
  BY <1>1, BegunKeepsSessions DEF PostQuery, GraphQuery
<1>2. ASSUME NEW c \in Callers, RevokeToken(c) \/ Midnight \/ UNCHANGED queryVars
      PROVE  QueriesInv'
  BY <1>2 DEF RevokeToken, Midnight, queryVars, QueriesInv, Is, Waited
<1>3. ASSUME NEW c \in Callers, EnterOrBusy(c) PROVE QueriesInv'
  BY <1>3, EnterKeepsSlots
<1>4. ASSUME NEW c \in Callers, ReadEnds(c) \/ \E internal \in BOOLEAN : ReadRow(c, internal)
      PROVE  QueriesInv'
  <2>1. call[c] \in Calls /\ call[c].at = "read"
    BY <1>4 DEF ReadEnds, ReadRow, Is, QueriesInv
  <2>2. PICK r \in Calls : r.at \in {"read", "close"} /\ call' = [call EXCEPT ![c] = r]
    <3>1. CASE ReadEnds(c)
      <4>1. [call[c] EXCEPT !.at = "close"] \in Calls
        BY <2>1 DEF Calls
      <4>. QED
        BY <3>1, <4>1 DEF ReadEnds, Calls
    <3>2. CASE \E internal \in BOOLEAN : ReadRow(c, internal)
      <4>1. call[c].rows \in 0 .. RowLimit /\ call[c].rows < RowLimit
        BY <2>1, <3>2 DEF Calls, ReadRow
      <4>2. call[c].rows + 1 \in 0 .. RowLimit
        BY <4>1, QueriesAssumption
      <4>3. [call[c] EXCEPT !.rows = call[c].rows + 1] \in Calls
        BY <2>1, <4>2 DEF Calls
      <4>4. [call[c] EXCEPT !.rows = call[c].rows + 1].at = "read"
        BY <2>1 DEF Calls
      <4>. QED
        BY <3>2, <4>3, <4>4 DEF ReadRow
    <3>. QED
      BY <1>4, <3>1, <3>2
  <2>3. call' \in [Callers -> Calls \cup {NULL}] /\ UNCHANGED <<running, open>>
    BY <1>4, <2>2 DEF ReadEnds, ReadRow, QueriesInv
  <2>4. \A b \in Callers : (Is(b, "read") \/ Is(b, "close")) <=> (Is(b, "read") \/ Is(b, "close"))'
    BY <2>1, <2>2, QueriesAssumption DEF QueriesInv, Is
  <2>. QED
    BY <2>3, <2>4, SessionsKept
<1>5. ASSUME NEW c \in Callers, GivesUp(c) PROVE QueriesInv'
  BY <1>5, GivesUpKeepsSlots
<1>6. ASSUME NEW s \in open, SessionCloses(s) PROVE QueriesInv'
  BY <1>6, ClosingKeepsSlots
<1>7. CASE Midnight \/ UNCHANGED queryVars
  BY <1>7 DEF Midnight, queryVars, QueriesInv, Is, Waited
<1>. QED
  BY <1>1, <1>2, <1>3, <1>4, <1>5, <1>6, <1>7 DEF QueriesNext

(* A slow database is never given more queries than the limit: the counter of *)
(* runReadOnlyQuery() counts the driver sessions that are not closed.         *)
THEOREM SlotsAreHeld == Spec => []SlotsAreSessions
<1> DEFINE Inv == part = "queries" => QueriesInv
<1>1. Init => Inv
  BY QueriesInitInv DEF Init
<1>2. Inv /\ [Next]_vars => Inv'
  BY PartKept, PartSteps, QueriesStep
<1>3. Inv => SlotsAreSessions
  BY DEF QueriesInv, SlotsAreSessions
<1>. QED
  BY <1>1, <1>2, <1>3, PTL DEF Spec

-----------------------------------------------------------------------------
(* ACCESS.  An attempt whose state is in Redis has not been exchanged and no  *)
(* callback is about to; one that a callback is about to exchange has been    *)
(* taken out of Redis by that callback alone.                                 *)
Exchanging(c) == callback[c] # NULL /\ callback[c].at = "exchange"
Attempt(c) == callback[c].attempt

AccessTypes ==
    /\ logins \in Nat /\ states \subseteq 1 .. logins
    /\ callback \in [Callbacks -> [attempt : Nat, at : {"consume", "exchange"}] \cup {NULL}]
    /\ exchanged \in Seq(1 .. logins)

AccessInv ==
    /\ AccessTypes
    /\ \A i \in 1 .. Len(exchanged) : exchanged[i] \notin states
    /\ \A i, j \in 1 .. Len(exchanged) : exchanged[i] = exchanged[j] => i = j
    /\ \A c \in Callbacks : callback[c] # NULL => Attempt(c) <= logins
    /\ \A c \in Callbacks : Exchanging(c) =>
          /\ Attempt(c) \in 1 .. logins /\ Attempt(c) \notin states
          /\ \A i \in 1 .. Len(exchanged) : exchanged[i] # Attempt(c)
          /\ \A d \in Callbacks : Exchanging(d) /\ Attempt(d) = Attempt(c) => d = c

LEMMA AccessInitInv == AccessInit => AccessInv
BY DEF AccessInit, AccessInv, AccessTypes, Exchanging

LEMMA StartKeepsAccess ==
    ASSUME AccessInv, StartAuthorization
    PROVE  AccessInv'
<1>1. logins + 1 \in Nat /\ logins' = logins + 1 /\ states' = states \cup {logins + 1}
  BY DEF AccessInv, AccessTypes, StartAuthorization
<1>2. UNCHANGED <<callback, exchanged>>
  BY DEF StartAuthorization
<1>3. exchanged' \in Seq(1 .. logins')
  BY <1>1, <1>2 DEF AccessInv, AccessTypes
<1>4. \A i \in 1 .. Len(exchanged) : exchanged[i] \in 1 .. logins
  BY DEF AccessInv, AccessTypes
<1>. QED
  BY <1>1, <1>2, <1>3, <1>4 DEF AccessInv, AccessTypes, Exchanging, Attempt

LEMMA ConsumeKeepsAccess ==
    ASSUME AccessInv, NEW c \in Callbacks, Consume(c)
    PROVE  AccessInv'
<1>1. PICK n \in Nat : n = Attempt(c) /\ callback[c] = [attempt |-> n, at |-> "consume"] /\ n <= logins
  BY DEF Consume, AccessInv, AccessTypes, Attempt
<1>2. /\ states' = states \ {n} /\ UNCHANGED <<logins, exchanged>>
      /\ callback' = [callback EXCEPT
            ![c] = IF n \in states THEN [attempt |-> n, at |-> "exchange"] ELSE NULL]
  <2>1. [callback[c] EXCEPT !.at = "exchange"] = [attempt |-> n, at |-> "exchange"]
    BY <1>1
  <2>2. callback[c].attempt = n
    BY <1>1
  <2>. QED
    BY <2>1, <2>2 DEF Consume
<1>3. AccessTypes'
  BY <1>2 DEF AccessInv, AccessTypes
<1>4. \A d \in Callbacks : d # c => callback'[d] = callback[d]
  BY <1>2 DEF AccessInv, AccessTypes
<1>5. CASE n \in states
  <2>1. callback'[c] = [attempt |-> n, at |-> "exchange"]
    BY <1>2, <1>5 DEF AccessInv, AccessTypes
  <2>2. n \in 1 .. logins /\ \A i \in 1 .. Len(exchanged) : exchanged[i] # n
    BY <1>5 DEF AccessInv, AccessTypes
  <2>3. \A d \in Callbacks : Exchanging(d) => Attempt(d) # n
    BY <1>5 DEF AccessInv
  <2>. QED
    BY <1>2, <1>3, <1>4, <2>1, <2>2, <2>3 DEF AccessInv, Exchanging, Attempt
<1>6. CASE n \notin states
  <2>1. callback'[c] = NULL
    BY <1>2, <1>6 DEF AccessInv, AccessTypes
  <2>. QED
    BY <1>2, <1>3, <1>4, <2>1 DEF AccessInv, Exchanging, Attempt
<1>. QED
  BY <1>5, <1>6

LEMMA ExchangeKeepsAccess ==
    ASSUME AccessInv, NEW c \in Callbacks, NEW p \in People, Exchange(c, p)
    PROVE  AccessInv'
<1>1. PICK n \in 1 .. logins : n = Attempt(c)
  BY DEF Exchange, AccessInv, Exchanging
<1>2. /\ Exchanging(c) /\ callback' = [callback EXCEPT ![c] = NULL]
      /\ exchanged' = Append(exchanged, n) /\ UNCHANGED <<logins, states>>
  BY <1>1 DEF Exchange, Exchanging, Attempt
<1>3. /\ n \notin states
      /\ \A i \in 1 .. Len(exchanged) : exchanged[i] # n
      /\ \A d \in Callbacks : Exchanging(d) /\ d # c => Attempt(d) # n
  BY <1>1, <1>2 DEF AccessInv
<1>4. /\ exchanged' \in Seq(1 .. logins) /\ Len(exchanged') = Len(exchanged) + 1
      /\ \A i \in 1 .. Len(exchanged) : exchanged'[i] = exchanged[i]
      /\ exchanged'[Len(exchanged) + 1] = n
  BY <1>2, AppendProperties DEF AccessInv, AccessTypes
<1>5. \A i \in 1 .. Len(exchanged') : i \in 1 .. Len(exchanged) \/ i = Len(exchanged) + 1
  BY <1>4, LenProperties DEF AccessInv, AccessTypes
<1>6. AccessTypes'
  BY <1>2, <1>4 DEF AccessInv, AccessTypes
<1>7. callback'[c] = NULL /\ \A d \in Callbacks : d # c => callback'[d] = callback[d]
  BY <1>2 DEF AccessInv, AccessTypes
<1>8. \A i \in 1 .. Len(exchanged') : exchanged'[i] \notin states'
  BY <1>2, <1>3, <1>4, <1>5 DEF AccessInv
<1>9. \A i, j \in 1 .. Len(exchanged') : exchanged'[i] = exchanged'[j] => i = j
  BY <1>3, <1>4, <1>5 DEF AccessInv
<1>10. ASSUME NEW d \in Callbacks, Exchanging(d)'
       PROVE  /\ Attempt(d)' \in 1 .. logins' /\ Attempt(d)' \notin states'
              /\ \A i \in 1 .. Len(exchanged') : exchanged'[i] # Attempt(d)'
              /\ \A e \in Callbacks : Exchanging(e)' /\ Attempt(e)' = Attempt(d)' => e = d
  <2>1. d # c /\ Exchanging(d) /\ Attempt(d)' = Attempt(d)
    BY <1>7, <1>10 DEF Exchanging, Attempt
  <2>2. \A e \in Callbacks : Exchanging(e)' => Exchanging(e) /\ Attempt(e)' = Attempt(e)
    BY <1>7 DEF Exchanging, Attempt
  <2>. QED
    BY <1>2, <1>3, <1>4, <1>5, <2>1, <2>2 DEF AccessInv
<1>11. \A d \in Callbacks : callback'[d] # NULL => Attempt(d)' <= logins'
  BY <1>2, <1>7 DEF AccessInv, Attempt
<1>. QED
  BY <1>6, <1>8, <1>9, <1>10, <1>11 DEF AccessInv

LEMMA AccessStep == AccessInv /\ (AccessNext \/ UNCHANGED accessVars) => AccessInv'
<1> SUFFICES ASSUME AccessInv, AccessNext \/ UNCHANGED accessVars PROVE AccessInv'
  OBVIOUS
<1>1. CASE StartAuthorization
  BY <1>1, StartKeepsAccess
<1>2. ASSUME NEW c \in Callbacks, NEW n \in 1 .. MaxLogins, Callback(c, n) PROVE AccessInv'
  <2>1. n \in Nat /\ n <= logins
    BY <1>2, AccessAssumption DEF Callback, AccessInv, AccessTypes
  <2>2. /\ callback' = [callback EXCEPT ![c] = [attempt |-> n, at |-> "consume"]]
        /\ UNCHANGED <<logins, states, exchanged>>
    BY <1>2 DEF Callback
  <2>. QED
    BY <2>1, <2>2 DEF AccessInv, AccessTypes, Exchanging, Attempt
<1>3. ASSUME NEW c \in Callbacks, Consume(c) PROVE AccessInv'
  BY <1>3, ConsumeKeepsAccess
<1>4. ASSUME NEW c \in Callbacks, NEW p \in People, Exchange(c, p) PROVE AccessInv'
  BY <1>4, ExchangeKeepsAccess
<1>5. ASSUME NEW c \in Callbacks, ExchangeFailed(c) PROVE AccessInv'
  BY <1>5 DEF ExchangeFailed, AccessInv, AccessTypes, Exchanging, Attempt
<1>6. ASSUME NEW n \in 1 .. MaxLogins, StateExpires(n) PROVE AccessInv'
  BY <1>6 DEF StateExpires, AccessInv, AccessTypes, Exchanging, Attempt
<1>7. ASSUME NEW as \in SUBSET People, NEW ls \in SUBSET People, RestartWithLists(as, ls)
      PROVE  AccessInv'
  BY <1>7 DEF RestartWithLists, AccessInv, AccessTypes, Exchanging, Attempt
<1>8. CASE \/ CreateToken
           \/ \E p \in People : SessionEnds(p)
           \/ \E ctx \in Contexts :
                 \/ \E scopes \in SUBSET TokenScopes : Mint(ctx, scopes)
                 \/ \E k \in 1 .. MaxTokens : Revoke(ctx, k)
           \/ UNCHANGED accessVars
  <2>1. UNCHANGED loginVars
    BY <1>8 DEF CreateToken, SessionEnds, Mint, Revoke, accessVars
  <2>. QED
    BY <2>1 DEF loginVars, AccessInv, AccessTypes, Exchanging, Attempt
<1>. QED
  BY <1>1, <1>2, <1>3, <1>4, <1>5, <1>6, <1>7, <1>8 DEF AccessNext

(* However often the callback of a sign-in attempt is requested and however   *)
(* these requests overlap, its code is exchanged at most once.                *)
THEOREM AttemptsAreExchangedOnce == Spec => []OneExchangePerAttempt
<1> DEFINE Inv == part = "access" => AccessInv
<1>1. Init => Inv
  BY AccessInitInv DEF Init
<1>2. Inv /\ [Next]_vars => Inv'
  BY PartKept, PartSteps, AccessStep
<1>3. Inv => OneExchangePerAttempt
  BY DEF AccessInv, OneExchangePerAttempt
<1>. QED
  BY <1>1, <1>2, <1>3, PTL DEF Spec

-----------------------------------------------------------------------------
(* FEEDBACK.  In each life of the key one report at most was let through, and *)
(* nothing has been filed under it while that report is on its way; while the *)
(* key is free, nobody was let through in the life that is to come.           *)
OnItsWay(w) == report[w] # NULL /\ report[w].at \in {"allowed", "authenticating"}
LetIn(w, nth) == OnItsWay(w) /\ report[w].life = nth

ReportTypes ==
    /\ DOMAIN report = Widgets
    /\ \A w \in Widgets : report[w] # NULL =>
          /\ DOMAIN report[w] = {"text", "at", "life", "answer"}
          /\ report[w].life \in 0 .. Len(issues)
          /\ report[w].at = "route" => report[w].life = 0
IssueTypes == issues \in Seq(Nat) /\ Len(issues) >= 1

FeedbackInv ==
    /\ ReportTypes /\ IssueTypes
    /\ \A nth \in 1 .. Len(issues) :
          /\ issues[nth] \in {0, 1}
          /\ \A w \in Widgets : LetIn(w, nth) =>
                issues[nth] = 0 /\ \A v \in Widgets : LetIn(v, nth) => v = w
    /\ ~cooldown => issues[Len(issues)] = 0 /\ \A w \in Widgets : ~LetIn(w, Len(issues))

LEMMA FeedbackInitInv == FeedbackInit => FeedbackInv
<1> SUFFICES ASSUME FeedbackInit PROVE FeedbackInv
  OBVIOUS
<1>1. issues = <<0>> /\ report = [w \in Widgets |-> NULL]
  BY DEF FeedbackInit
<1>2. issues \in Seq(Nat) /\ Len(issues) = 1 /\ issues[1] = 0
  BY <1>1
<1>. QED
  BY <1>1, <1>2 DEF FeedbackInv, ReportTypes, IssueTypes, LetIn, OnItsWay

(* A report that changes leaves the others what they were.                    *)
LEMMA ReportChanges ==
    ASSUME ReportTypes, NEW w \in Widgets, report[w] # NULL, NEW to,
           \/ ReportGoes(w, to)
           \/ \E code : Replies(w, code) /\ to = "answered"
    PROVE  /\ DOMAIN report' = Widgets /\ report'[w].at = to /\ report'[w].life = report[w].life
           /\ DOMAIN report'[w] = {"text", "at", "life", "answer"}
           /\ \A v \in Widgets : v # w => report'[v] = report[v]
<1>1. /\ DOMAIN report = Widgets /\ DOMAIN report[w] = {"text", "at", "life", "answer"}
  BY DEF ReportTypes
<1>2. CASE ReportGoes(w, to)
  BY <1>1, <1>2 DEF ReportGoes
<1>3. CASE \E code : Replies(w, code) /\ to = "answered"
  <2>1. PICK code : Replies(w, code) /\ to = "answered"
    BY <1>3
  <2>2. PICK q : q = [report EXCEPT ![w].answer = code]
    OBVIOUS
  <2>3. /\ DOMAIN q = Widgets /\ \A v \in Widgets : v # w => q[v] = report[v]
        /\ DOMAIN q[w] = {"text", "at", "life", "answer"} /\ q[w].life = report[w].life
    BY <1>1, <2>2
  <2>4. report' = [q EXCEPT ![w].at = "answered"]
    BY <2>1, <2>2 DEF Replies
  <2>. QED
    BY <2>1, <2>3, <2>4
<1>. QED
  BY <1>2, <1>3

(* ... and is let through no more than it was.                                *)
LEMMA ChangeKeepsFeedback ==
    ASSUME FeedbackInv, NEW w \in Widgets, report[w] # NULL, NEW to,
           \/ ReportGoes(w, to)
           \/ \E code : Replies(w, code) /\ to = "answered",
           to # "route", to = "answered" \/ OnItsWay(w) \/ report[w].life = 0,
           cooldown => cooldown', UNCHANGED issues
    PROVE  FeedbackInv'
<1>1. ReportTypes /\ IssueTypes
  BY DEF FeedbackInv
<1>2. /\ DOMAIN report' = Widgets /\ report'[w].at = to /\ report'[w].life = report[w].life
      /\ DOMAIN report'[w] = {"text", "at", "life", "answer"}
      /\ \A v \in Widgets : v # w => report'[v] = report[v]
  BY <1>1, ReportChanges
<1>3. ReportTypes' /\ IssueTypes'
  BY <1>1, <1>2 DEF ReportTypes, IssueTypes
<1>4. ASSUME NEW v \in Widgets, NEW nth \in 1 .. Len(issues), LetIn(v, nth)'
      PROVE  LetIn(v, nth)
  BY <1>2, <1>4 DEF LetIn, OnItsWay
<1>5. Len(issues) \in 1 .. Len(issues)
  BY <1>1 DEF IssueTypes
<1>. QED
  BY <1>3, <1>4, <1>5 DEF FeedbackInv

(* A report on its way that ends, having filed an issue or not.               *)
LEMMA EndKeepsFeedback ==
    ASSUME FeedbackInv, NEW w \in Widgets, OnItsWay(w), NEW code, Replies(w, code),
           cooldown' = cooldown,
           \/ issues' = issues
           \/ report[w].life # 0 /\ issues' = [issues EXCEPT ![report[w].life] = @ + 1]
    PROVE  FeedbackInv'
<1>1. ReportTypes /\ IssueTypes /\ report[w] # NULL
  BY DEF FeedbackInv, OnItsWay
<1>2. /\ DOMAIN report' = Widgets /\ report'[w].at = "answered" /\ report'[w].life = report[w].life
      /\ DOMAIN report'[w] = {"text", "at", "life", "answer"}
      /\ \A v \in Widgets : v # w => report'[v] = report[v]
  BY <1>1, ReportChanges
<1>3. CASE issues' = issues
  BY <1>1, <1>3, ChangeKeepsFeedback
<1>4. CASE report[w].life # 0 /\ issues' = [issues EXCEPT ![report[w].life] = @ + 1]
  <2>1. PICK mine : mine = report[w].life
    OBVIOUS
  <2>2. mine \in 1 .. Len(issues) /\ LetIn(w, mine)
    BY <1>1, <1>4, <2>1 DEF ReportTypes, IssueTypes, LetIn
  <2>3. issues[mine] = 0 /\ \A v \in Widgets : LetIn(v, mine) => v = w
    BY <2>2 DEF FeedbackInv
  <2>4. PICK i : i = issues'
    OBVIOUS
  <2>5. /\ i \in Seq(Nat) /\ Len(i) = Len(issues) /\ i[mine] = 1
        /\ \A nth \in 1 .. Len(issues) : nth # mine => i[nth] = issues[nth]
    BY <1>1, <1>4, <2>1, <2>2, <2>3, <2>4 DEF IssueTypes
  <2>6. ReportTypes' /\ IssueTypes'
    BY <1>1, <1>2, <2>4, <2>5 DEF ReportTypes, IssueTypes
  <2>7. ASSUME NEW v \in Widgets, NEW nth \in 1 .. Len(issues), LetIn(v, nth)'
        PROVE  LetIn(v, nth) /\ v # w
    BY <1>2, <2>7 DEF LetIn, OnItsWay
  <2>8. cooldown \/ mine # Len(issues)
    BY <2>2 DEF FeedbackInv
  <2>9. ASSUME NEW nth \in 1 .. Len(issues)
        PROVE  /\ i[nth] \in {0, 1}
               /\ \A v \in Widgets : LetIn(v, nth)' =>
                     i[nth] = 0 /\ \A u \in Widgets : LetIn(u, nth)' => u = v
    BY <2>3, <2>5, <2>7 DEF FeedbackInv
  <2>10. Len(issues) \in 1 .. Len(issues)
    BY <1>1 DEF IssueTypes
  <2>11. ~cooldown' => i[Len(i)] = 0 /\ \A v \in Widgets : ~LetIn(v, Len(issues))'
    BY <2>5, <2>7, <2>8, <2>10 DEF FeedbackInv
  <2>. QED
    BY <2>4, <2>5, <2>6, <2>9, <2>11 DEF FeedbackInv
<1>. QED
  BY <1>3, <1>4

LEMMA FeedbackStep == FeedbackInv /\ (FeedbackNext \/ UNCHANGED feedbackVars) => FeedbackInv'
<1> SUFFICES ASSUME FeedbackInv, FeedbackNext \/ UNCHANGED feedbackVars PROVE FeedbackInv'
  OBVIOUS
<1>0. ReportTypes /\ IssueTypes
  BY DEF FeedbackInv
<1>1. ASSUME UNCHANGED <<report, cooldown, issues>> PROVE FeedbackInv'
  BY <1>1 DEF FeedbackInv, ReportTypes, IssueTypes, LetIn, OnItsWay
<1>2. CASE \/ \E f \in [on : BOOLEAN, token : BOOLEAN] : Configure(f)
           \/ LimiterTurns
           \/ \E w \in Widgets : SeeLauncher(w) \/ OpenForm(w) \/ CancelForm(w)
           \/ \E w \in Widgets, t \in ReportTexts : Write(w, t)
           \/ UNCHANGED feedbackVars
  BY <1>1, <1>2 DEF Configure, LimiterTurns, SeeLauncher, OpenForm, CancelForm, Write,
                    OnlyForm, feedbackVars
<1>3. CASE KeyExpires
  <2>1. PICK i : i = Append(issues, 0)
    OBVIOUS
  <2>2. PICK n \in Nat : n = Len(issues) /\ n >= 1
    BY <1>0 DEF IssueTypes
  <2>3. i \in Seq(Nat) /\ Len(i) = n + 1 /\ i[n + 1] = 0 /\ \A nth \in 1 .. n : i[nth] = issues[nth]
    BY <1>0, <2>1, <2>2 DEF IssueTypes
  <2>4. issues' = i /\ report' = report
    BY <1>3, <2>1 DEF KeyExpires
  <2>5. ReportTypes' /\ IssueTypes'
    BY <1>0, <2>2, <2>3, <2>4 DEF ReportTypes, IssueTypes
  <2>6. \A w \in Widgets : ~LetIn(w, n + 1)
    BY <1>0, <2>2 DEF ReportTypes, LetIn, OnItsWay
  <2>7. \A w \in Widgets : \A nth : LetIn(w, nth)' <=> LetIn(w, nth)
    BY <2>4 DEF LetIn, OnItsWay
  <2>8. ASSUME NEW nth \in 1 .. n + 1
        PROVE  /\ i[nth] \in {0, 1}
               /\ \A w \in Widgets : LetIn(w, nth)' =>
                     i[nth] = 0 /\ \A v \in Widgets : LetIn(v, nth)' => v = w
    <3>1. CASE nth = n + 1
      BY <2>3, <2>6, <2>7, <3>1
    <3>2. CASE nth # n + 1
      <4>1. nth \in 1 .. n
        BY <2>2, <3>2
      <4>. QED
        BY <2>2, <2>3, <2>7, <4>1 DEF FeedbackInv
    <3>. QED
      BY <3>1, <3>2
  <2>. QED
    BY <2>2, <2>3, <2>4, <2>5, <2>6, <2>7, <2>8 DEF FeedbackInv
<1>4. ASSUME NEW w \in Widgets, SendReport(w) PROVE FeedbackInv'
  <2>1. PICK q : q = [text |-> form[w].text, at |-> "route", life |-> 0, answer |-> NULL]
    OBVIOUS
  <2>2. DOMAIN q = {"text", "at", "life", "answer"} /\ q.life = 0 /\ q.at = "route"
    BY <2>1
  <2>3. report' = [report EXCEPT ![w] = q] /\ UNCHANGED <<cooldown, issues>>
    BY <1>4, <2>1 DEF SendReport
  <2>4. ReportTypes' /\ IssueTypes'
    BY <1>0, <2>2, <2>3 DEF ReportTypes, IssueTypes
  <2>5. \A v \in Widgets : \A nth : LetIn(v, nth)' => LetIn(v, nth)
    BY <1>0, <2>2, <2>3 DEF ReportTypes, LetIn, OnItsWay
  <2>. QED
    BY <2>3, <2>4, <2>5 DEF FeedbackInv
<1>5. ASSUME NEW w \in Widgets, ReportAnswered(w) PROVE FeedbackInv'
  <2>1. report' = [report EXCEPT ![w] = NULL] /\ UNCHANGED <<cooldown, issues>>
    BY <1>5 DEF ReportAnswered, OnlyForm
  <2>2. ReportTypes' /\ IssueTypes'
    BY <1>0, <2>1 DEF ReportTypes, IssueTypes
  <2>3. \A v \in Widgets : \A nth : LetIn(v, nth)' => LetIn(v, nth)
    BY <1>0, <2>1 DEF ReportTypes, LetIn, OnItsWay
  <2>. QED
    BY <2>1, <2>2, <2>3 DEF FeedbackInv
<1>6. ASSUME NEW w \in Widgets, Rejected(w) \/ NotFiled(w) PROVE FeedbackInv'
  <2>1. report[w] # NULL /\ UNCHANGED <<cooldown, issues>> /\ \E code : Replies(w, code)
    BY <1>6 DEF Rejected, NotFiled, Arrived
  <2>. QED
    BY <2>1, ChangeKeepsFeedback
<1>7. ASSUME NEW w \in Widgets, CheckRateLimit(w) PROVE FeedbackInv'
  <2>1. report[w] # NULL /\ cooldown' = TRUE /\ UNCHANGED issues
    BY <1>7 DEF CheckRateLimit, Limited, Arrived
  <2>2. CASE cooldown
    BY <1>7, <2>1, <2>2, ChangeKeepsFeedback DEF CheckRateLimit
  <2>3. CASE ~cooldown
    <3>1. PICK n \in Nat : n = Len(issues) /\ n >= 1
      BY <1>0 DEF IssueTypes
    <3>2. issues[n] = 0 /\ \A v \in Widgets : ~LetIn(v, n)
      BY <2>3, <3>1 DEF FeedbackInv
    <3>3. PICK q : q = [report EXCEPT ![w].at = "allowed"]
      OBVIOUS
    <3>4. report' = [q EXCEPT ![w].life = n]
      BY <1>7, <2>3, <3>1, <3>3 DEF CheckRateLimit
    <3>5. /\ DOMAIN q = Widgets /\ \A v \in Widgets : v # w => q[v] = report[v]
          /\ DOMAIN q[w] = {"text", "at", "life", "answer"} /\ q[w].at = "allowed"
      BY <1>0, <2>1, <3>3 DEF ReportTypes
    <3>6. /\ DOMAIN report' = Widgets /\ \A v \in Widgets : v # w => report'[v] = report[v]
          /\ DOMAIN report'[w] = {"text", "at", "life", "answer"}
          /\ report'[w].life = n /\ report'[w].at = "allowed"
      BY <3>4, <3>5
    <3>7. ReportTypes' /\ IssueTypes'
      BY <1>0, <2>1, <3>1, <3>6 DEF ReportTypes, IssueTypes
    <3>8. ASSUME NEW v \in Widgets, NEW nth, LetIn(v, nth)'
          PROVE  (v = w /\ nth = n) \/ (v # w /\ nth # n /\ LetIn(v, nth))
      BY <3>2, <3>6, <3>8 DEF LetIn, OnItsWay
    <3>9. ASSUME NEW nth \in 1 .. n
          PROVE  /\ issues[nth] \in {0, 1}
                 /\ \A v \in Widgets : LetIn(v, nth)' =>
                       issues[nth] = 0 /\ \A u \in Widgets : LetIn(u, nth)' => u = v
      BY <3>1, <3>2, <3>8 DEF FeedbackInv
    <3>. QED
      BY <2>1, <3>1, <3>7, <3>9 DEF FeedbackInv
  <2>. QED
    BY <2>2, <2>3
<1>8. ASSUME NEW w \in Widgets, Unlimited(w) \/ AskIdentity(w) PROVE FeedbackInv'
  <2>1. report[w] # NULL /\ UNCHANGED issues
    BY <1>8 DEF Unlimited, AskIdentity, Limited, Arrived
  <2>2. cooldown' = cooldown \/ cooldown' = TRUE
    BY <1>8, Zenon DEF Unlimited, AskIdentity
  <2>3. cooldown => cooldown'
    BY <2>2, Zenon
  <2>4. OnItsWay(w) \/ report[w].life = 0
    BY <1>0, <1>8 DEF Unlimited, AskIdentity, Limited, Arrived, OnItsWay, ReportTypes
  <2>5. \E to \in {"allowed", "authenticating"} : ReportGoes(w, to)
    BY <1>8 DEF Unlimited, AskIdentity
  <2>. QED
    BY <2>1, <2>3, <2>4, <2>5, ChangeKeepsFeedback
<1>9. ASSUME NEW w \in Widgets, IdentityRefused(w) \/ CreateReport(w) PROVE FeedbackInv'
  <2>1. OnItsWay(w) /\ cooldown' = cooldown /\ \E code : Replies(w, code)
    BY <1>9 DEF IdentityRefused, CreateReport, Arrived, AfterFailure, OnItsWay
  <2>2. \/ issues' = issues
        \/ report[w].life # 0 /\ issues' = [issues EXCEPT ![report[w].life] = @ + 1]
    BY <1>9 DEF IdentityRefused, CreateReport
  <2>. QED
    BY <2>1, <2>2, EndKeepsFeedback
<1>. QED
  BY <1>2, <1>3, <1>4, <1>5, <1>6, <1>7, <1>8, <1>9 DEF FeedbackNext

(* However many tabs report and retry, the reports that Redis let through in  *)
(* one life of the person's key file at most one issue.                       *)
THEOREM IssuesAreLimited == Spec => []OneIssuePerCooldown
<1> DEFINE Inv == part = "feedback" => FeedbackInv
<1>1. Init => Inv
  BY FeedbackInitInv DEF Init
<1>2. Inv /\ [Next]_vars => Inv'
  BY PartKept, PartSteps, FeedbackStep
<1>3. Inv => OneIssuePerCooldown
  BY DEF FeedbackInv, IssueTypes, OneIssuePerCooldown
<1>. QED
  BY <1>1, <1>2, <1>3, PTL DEF Spec

-----------------------------------------------------------------------------
(* SETUP.  What the process resolved is in the store already, so what         *)
(* complete() finds bootable is bootable for the next boot too; no version is *)
(* ever taken out of the store and no gate is ever closed.                    *)
Pages ==
    [at : {"probing", "wizard", "restarting", "login", "unreachable", "restart-timeout"},
     step : {"admin", "github", "finish"}, busy : BOOLEAN, loaded : BOOLEAN]
Items == Secrets \cup {"done"}
Works == [kind : {"admin", "github", "finish"}, left : Seq(Items)]
Owes(left, s) == \E i \in 1 .. Len(left) : left[i] = s
Completable == Bootable(vault \cap Secrets, "session" \in operator)

SetupInv ==
    /\ env \subseteq vault /\ env \subseteq Secrets /\ vault \subseteq Items
    /\ session \in BOOLEAN /\ (session => "session" \in operator)
    /\ page \in [Browsers -> Pages]
    /\ request \in [Browsers -> Works \cup {NULL}]
    /\ \A b \in Browsers : request[b] # NULL =>
          /\ \A s \in Sets(request[b].kind) : s \in vault \/ Owes(request[b].left, s)
          /\ Owes(request[b].left, "done") => request[b].kind = "finish"
          /\ request[b].kind = "finish" => Completable
    /\ "done" \in vault => Completable

(* What bootable means, and that it only ever becomes truer.                  *)
LEMMA BootableNeeds ==
    ASSUME NEW secrets, NEW signed \in BOOLEAN
    PROVE  Bootable(secrets, signed) <=>
              {"id", "secret", "admins"} \subseteq secrets /\ "origins" \in operator /\ signed
<1>1. Bootable(secrets, signed) <=>
        \A g \in {"provider", "admins", "origins", "session"} : g \notin Missing(secrets, signed)
  BY DEF Bootable, Missing
<1>2. "provider" \in Missing(secrets, signed) <=> ~ProviderDerived(secrets)
  BY DEF Missing
<1>3. "admins" \in Missing(secrets, signed) <=> ~AdminsDerived(secrets)
  BY DEF Missing
<1>4. "origins" \in Missing(secrets, signed) <=> "origins" \notin operator
  BY DEF Missing
<1>5. "session" \in Missing(secrets, signed) <=> ~signed
  BY DEF Missing
<1>. QED
  BY <1>1, <1>2, <1>3, <1>4, <1>5 DEF ProviderDerived, AdminsDerived

LEMMA CompletableNeeds ==
    Completable <=> /\ {"id", "secret", "admins"} \subseteq vault
                    /\ {"origins", "session"} \subseteq operator
<1>1. ("session" \in operator) \in BOOLEAN
  OBVIOUS
<1>2. Completable <=> /\ {"id", "secret", "admins"} \subseteq vault \cap Secrets
                      /\ "origins" \in operator /\ "session" \in operator
  BY <1>1, BootableNeeds DEF Completable
<1>. QED
  BY <1>2 DEF Secrets

LEMMA CompletableStays ==
    ASSUME Completable, vault \subseteq vault', operator \subseteq operator'
    PROVE  Completable'
<1>1. {"id", "secret", "admins"} \subseteq vault' /\ {"origins", "session"} \subseteq operator'
  BY CompletableNeeds
<1>2. (Completable <=> /\ {"id", "secret", "admins"} \subseteq vault
                       /\ {"origins", "session"} \subseteq operator)'
  BY CompletableNeeds, PTL
<1>. QED
  BY <1>1, <1>2

(* What a request writes, and what one write leaves of it.                    *)
LEMMA WritesOf ==
    ASSUME NEW kind \in {"admin", "github", "finish"}
    PROVE  /\ Writes(kind) \in Seq(Items) /\ Sets(kind) \subseteq Secrets
           /\ \A s \in Sets(kind) : Owes(Writes(kind), s)
           /\ Owes(Writes(kind), "done") => kind = "finish"
<1>1. \A s \in Items : /\ <<s>> \in Seq(Items) /\ Len(<<s>>) = 1 /\ <<s>>[1] = s
  OBVIOUS
<1>2. \A s, t \in Items : /\ <<s, t>> \in Seq(Items) /\ Len(<<s, t>>) = 2
                           /\ <<s, t>>[1] = s /\ <<s, t>>[2] = t
  OBVIOUS
<1>3. CASE kind = "admin"
  <2>1. Writes(kind) = <<"admins">> /\ Sets(kind) = {"admins"} /\ "admins" \in Items
    BY <1>3 DEF Writes, Sets, Items, Secrets
  <2>2. \A u : Owes(Writes(kind), u) <=> u = "admins"
    BY <1>1, <2>1 DEF Owes
  <2>. QED
    BY <1>1, <2>1, <2>2 DEF Secrets
<1>4. CASE kind = "github"
  <2>1. /\ Writes(kind) = <<"id", "secret">> /\ Sets(kind) = {"id", "secret"}
        /\ "id" \in Items /\ "secret" \in Items
    BY <1>4 DEF Writes, Sets, Items, Secrets
  <2>. QED
    BY <1>2, <1>4, <2>1 DEF Owes, Secrets
<1>5. CASE kind = "finish"
  <2>1. Writes(kind) = <<"done">> /\ Sets(kind) = {} /\ "done" \in Items
    BY <1>5 DEF Writes, Sets, Items
  <2>. QED
    BY <1>1, <1>5, <2>1 DEF Owes
<1>. QED
  BY <1>3, <1>4, <1>5

LEMMA WriteLeaves ==
    ASSUME NEW left \in Seq(Items), left # <<>>
    PROVE  /\ Tail(left) \in Seq(Items) /\ Head(left) \in Items /\ Owes(left, Head(left))
           /\ \A s : Owes(left, s) => s = Head(left) \/ Owes(Tail(left), s)
           /\ \A s : Owes(Tail(left), s) => Owes(left, s)
<1>1. /\ Tail(left) \in Seq(Items) /\ Head(left) \in Items /\ Head(left) = left[1]
      /\ Len(Tail(left)) = Len(left) - 1
      /\ \A i \in 1 .. Len(Tail(left)) : Tail(left)[i] = left[i + 1]
  BY HeadTailProperties
<1>2. Len(left) \in Nat /\ Len(left) >= 1
  BY EmptySeq, LenProperties
<1>3. \A k, i \in Int : i \in 1 .. k => i = 1 \/ (i - 1 \in 1 .. k - 1 /\ i - 1 + 1 = i)
  OBVIOUS
<1>4. \A k, i \in Int : i \in 1 .. k - 1 => i + 1 \in 1 .. k
  OBVIOUS
<1>5. ASSUME NEW s, NEW i \in 1 .. Len(left), left[i] = s
      PROVE  s = Head(left) \/ Owes(Tail(left), s)
  <2>1. i = 1 \/ (i - 1 \in 1 .. Len(Tail(left)) /\ i - 1 + 1 = i)
    BY <1>1, <1>2, <1>3
  <2>. QED
    BY <1>1, <1>5, <2>1 DEF Owes
<1>6. ASSUME NEW s, NEW i \in 1 .. Len(Tail(left)), Tail(left)[i] = s
      PROVE  Owes(left, s)
  <2>1. i + 1 \in 1 .. Len(left)
    BY <1>1, <1>2, <1>4
  <2>. QED
    BY <1>1, <1>6, <2>1 DEF Owes
<1>7. Owes(left, Head(left))
  BY <1>1, <1>2 DEF Owes
<1>. QED
  BY <1>1, <1>5, <1>6, <1>7 DEF Owes

LEMMA SubmitKeepsSetup ==
    ASSUME SetupInv, NEW b \in Browsers, Submit(b)
    PROVE  SetupInv'
<1>1. PICK kind \in {"admin", "github", "finish"} : kind = page[b].step
  BY DEF SetupInv, Pages
<1>2. /\ request' = [request EXCEPT ![b] = [kind |-> kind, left |-> Writes(kind)]]
      /\ UNCHANGED <<vault, operator, env, session>>
      /\ kind = "finish" => Bootable(env, session)
  BY <1>1 DEF Submit, processVars, Accepted
<1>3. kind = "finish" => Completable
  <2>1. ASSUME kind = "finish"
        PROVE  {"id", "secret", "admins"} \subseteq vault /\ {"origins", "session"} \subseteq operator
    BY <1>2, <2>1, BootableNeeds DEF SetupInv
  <2>. QED
    BY <2>1, CompletableNeeds
<1>4. Completable' <=> Completable
  BY <1>2 DEF Completable, Bootable, Missing
<1>5. page' \in [Browsers -> Pages]
  <2>1. [page[b] EXCEPT !.busy = TRUE] \in Pages
    BY DEF SetupInv, Pages
  <2>. QED
    BY <2>1 DEF Submit, SetupInv
<1>6. [kind |-> kind, left |-> Writes(kind)] \in Works
  BY WritesOf DEF Works
<1>7. request' \in [Browsers -> Works \cup {NULL}]
  BY <1>2, <1>6 DEF SetupInv
<1>8. ASSUME NEW c \in Browsers, request'[c] # NULL
      PROVE  /\ \A s \in Sets(request'[c].kind) : s \in vault \/ Owes(request'[c].left, s)
             /\ Owes(request'[c].left, "done") => request'[c].kind = "finish"
             /\ request'[c].kind = "finish" => Completable
  <2>1. CASE c = b
    <3>1. request'[c].kind = kind /\ request'[c].left = Writes(kind)
      BY <1>2, <2>1 DEF SetupInv
    <3>. QED
      BY <1>3, <3>1, WritesOf
  <2>2. CASE c # b
    <3>1. request'[c] = request[c]
      BY <1>2, <2>2 DEF SetupInv
    <3>. QED
      BY <1>8, <3>1 DEF SetupInv
  <2>. QED
    BY <2>1, <2>2
<1>. QED
  BY <1>2, <1>4, <1>5, <1>7, <1>8 DEF SetupInv

(* One write, made or failed: what it adds is owed no longer, and "done" is   *)
(* added only when what complete() checked is in the store.                   *)
LEMMA VaultGrows ==
    ASSUME SetupInv, NEW b \in Browsers, request[b] # NULL, request[b].left # <<>>,
           vault' = vault \cup {Head(request[b].left)}, UNCHANGED operator
    PROVE  /\ vault' \subseteq Items /\ (Completable => Completable')
           /\ "done" \in vault' => Completable'
<1>1. request[b] \in Works
  BY DEF SetupInv
<1>2. request[b].left \in Seq(Items)
  BY <1>1 DEF Works
<1>3. Head(request[b].left) \in Items /\ Owes(request[b].left, Head(request[b].left))
  BY <1>2, WriteLeaves
<1>4. Completable => Completable'
  BY CompletableStays
<1>5. Head(request[b].left) = "done" => Completable
  BY <1>3 DEF SetupInv
<1>. QED
  BY <1>3, <1>4, <1>5 DEF SetupInv

LEMMA StoreWriteKeepsSetup ==
    ASSUME SetupInv, NEW b \in Browsers, StoreWrite(b)
    PROVE  SetupInv'
<1>1. /\ request[b] # NULL /\ request[b].left # <<>>
      /\ vault' = vault \cup {Head(request[b].left)}
      /\ request' = [request EXCEPT ![b].left = Tail(@)]
      /\ UNCHANGED <<operator, env, session, page>>
  BY DEF StoreWrite, processVars
<1>2. PICK kind \in {"admin", "github", "finish"}, left \in Seq(Items) :
         request[b] = [kind |-> kind, left |-> left]
  BY <1>1 DEF SetupInv, Works
<1>3. left # <<>> /\ vault' = vault \cup {Head(left)}
  BY <1>1, <1>2
<1>4. request' = [request EXCEPT ![b] = [kind |-> kind, left |-> Tail(left)]]
  <2>1. request[b].left = left
    BY <1>2
  <2>2. \A t : [request[b] EXCEPT !.left = t] = [kind |-> kind, left |-> t]
    BY <1>2
  <2>3. request' = [request EXCEPT ![b] = [request[b] EXCEPT !.left = Tail(left)]]
    BY <1>1, <2>1
  <2>. QED
    BY <2>2, <2>3
<1>5. /\ vault' \subseteq Items /\ (Completable => Completable')
      /\ "done" \in vault' => Completable'
  BY <1>1, VaultGrows
<1>6. [kind |-> kind, left |-> Tail(left)] \in Works
  BY <1>3, WriteLeaves DEF Works
<1>7. request' \in [Browsers -> Works \cup {NULL}]
  BY <1>4, <1>6 DEF SetupInv
<1>8. ASSUME NEW c \in Browsers, request'[c] # NULL
      PROVE  /\ \A s \in Sets(request'[c].kind) : s \in vault' \/ Owes(request'[c].left, s)
             /\ Owes(request'[c].left, "done") => request'[c].kind = "finish"
             /\ request'[c].kind = "finish" => Completable'
  <2>1. CASE c = b
    <3>1. request'[c].kind = kind /\ request'[c].left = Tail(left)
      BY <1>4, <2>1 DEF SetupInv
    <3>2. /\ \A s \in Sets(kind) : s \in vault \/ Owes(left, s)
          /\ Owes(left, "done") => kind = "finish"
          /\ kind = "finish" => Completable
      BY <1>1, <1>2 DEF SetupInv
    <3>. QED
      BY <1>3, <1>5, <3>1, <3>2, WriteLeaves
  <2>2. CASE c # b
    <3>1. request'[c] = request[c]
      BY <1>4, <2>2 DEF SetupInv
    <3>. QED
      BY <1>3, <1>5, <1>8, <3>1 DEF SetupInv
  <2>. QED
    BY <2>1, <2>2
<1>. QED
  BY <1>1, <1>3, <1>5, <1>7, <1>8 DEF SetupInv

LEMMA AnswerKeepsPages ==
    ASSUME page \in [Browsers -> Pages], NEW b \in Browsers, NEW ok \in BOOLEAN, Answer(b, ok)
    PROVE  page' \in [Browsers -> Pages]
<1>1. PICK p : p = page[b]
  OBVIOUS
<1>2. p \in Pages
  BY <1>1
<1>3. /\ [p EXCEPT !.busy = FALSE] \in Pages
      /\ [p EXCEPT !.busy = FALSE, !.step = "github"] \in Pages
      /\ [p EXCEPT !.busy = FALSE, !.step = "finish"] \in Pages
      /\ [p EXCEPT !.busy = FALSE, !.at = "restarting"] \in Pages
  BY <1>2 DEF Pages
<1>4. \E q \in Pages : page' = [page EXCEPT ![b] = q]
  <2>1. page' = [page EXCEPT ![b] =
            IF ~p.busy THEN p
            ELSE IF ~ok THEN [p EXCEPT !.busy = FALSE]
            ELSE CASE p.step = "admin" -> [p EXCEPT !.busy = FALSE, !.step = "github"]
                   [] p.step = "github" -> [p EXCEPT !.busy = FALSE, !.step = "finish"]
                   [] OTHER -> [p EXCEPT !.busy = FALSE, !.at = "restarting"]]
    BY <1>1 DEF Answer
  <2>. QED
    BY <1>2, <1>3, <2>1
<1>. QED
  BY <1>4

LEMMA WriteFailsKeepsSetup ==
    ASSUME SetupInv, NEW b \in Browsers, NEW added \in BOOLEAN, WriteFails(b, added)
    PROVE  SetupInv'
<1>1. /\ request[b] # NULL /\ request[b].left # <<>>
      /\ vault' = vault \cup {Head(request[b].left)} \/ vault' = vault
      /\ request' = [request EXCEPT ![b] = NULL]
      /\ UNCHANGED <<operator, env, session>>
  BY DEF WriteFails, processVars
<1>2. page' \in [Browsers -> Pages]
  BY AnswerKeepsPages DEF WriteFails, SetupInv
<1>3. /\ vault' \subseteq Items /\ (Completable => Completable')
      /\ "done" \in vault' => Completable'
  <2>1. CASE vault' = vault
    BY <1>1, <2>1, CompletableStays DEF SetupInv
  <2>2. CASE vault' = vault \cup {Head(request[b].left)}
    BY <1>1, <2>2, VaultGrows
  <2>. QED
    BY <1>1, <2>1, <2>2
<1>4. vault \subseteq vault' /\ request' \in [Browsers -> Works \cup {NULL}]
  BY <1>1 DEF SetupInv
<1>5. \A c \in Browsers : request'[c] # NULL => request'[c] = request[c]
  BY <1>1 DEF SetupInv
<1>. QED
  BY <1>1, <1>2, <1>3, <1>4, <1>5 DEF SetupInv

LEMMA AcknowledgeKeepsSetup ==
    ASSUME SetupInv, NEW b \in Browsers, Acknowledge(b)
    PROVE  SetupInv'
<1>1. /\ request[b] # NULL /\ request[b].left = <<>>
      /\ env' = env \cup Sets(request[b].kind)
      /\ request' = [request EXCEPT ![b] = NULL]
      /\ UNCHANGED <<vault, operator, session>>
  BY DEF Acknowledge
<1>2. page' \in [Browsers -> Pages]
  BY AnswerKeepsPages DEF Acknowledge, SetupInv
<1>3. \A s : ~Owes(request[b].left, s)
  BY <1>1 DEF Owes
<1>4. request[b].kind \in {"admin", "github", "finish"}
  BY <1>1 DEF SetupInv, Works
<1>5. Sets(request[b].kind) \subseteq vault /\ Sets(request[b].kind) \subseteq Secrets
  BY <1>1, <1>3, <1>4, WritesOf DEF SetupInv
<1>6. request' \in [Browsers -> Works \cup {NULL}]
  BY <1>1 DEF SetupInv
<1>7. \A c \in Browsers : request'[c] # NULL => request'[c] = request[c]
  BY <1>1 DEF SetupInv
<1>8. Completable' <=> Completable
  BY <1>1 DEF Completable, Bootable, Missing
<1>. QED
  BY <1>1, <1>2, <1>5, <1>6, <1>7, <1>8 DEF SetupInv

(* The process starts or ends, an operator opens a gate: the store is kept.   *)
LEMMA ProcessKeepsSetup ==
    ASSUME SetupInv, Boot \/ ProcessEnds \/ \E g \in Gates : OperatorOpens(g)
    PROVE  SetupInv'
<1>1. /\ vault' = vault /\ operator \subseteq operator'
      /\ \A b \in Browsers : request'[b] # NULL => request'[b] = request[b]
      /\ request' \in [Browsers -> Works \cup {NULL}]
  BY DEF Boot, ProcessEnds, OperatorOpens, SetupInv
<1>2. Completable => Completable'
  BY <1>1, CompletableStays
<1>3. page' \in [Browsers -> Pages]
  <2>1. CASE ProcessEnds
    <3>1. \A b \in Browsers : [page[b] EXCEPT !.busy = FALSE] \in Pages
      BY DEF SetupInv, Pages
    <3>. QED
      BY <2>1, <3>1 DEF ProcessEnds
  <2>. QED
    BY <2>1 DEF Boot, OperatorOpens, SetupInv
<1>4. /\ env' \subseteq vault' /\ env' \subseteq Secrets
      /\ session' \in BOOLEAN /\ (session' => "session" \in operator')
  <2>1. CASE Boot
    <3>1. env' = vault \cap Secrets /\ operator' = operator
      BY <2>1 DEF Boot
    <3>2. session' \in BOOLEAN
      BY <2>1 DEF Boot
    <3>3. session' => "session" \in operator
      BY <2>1 DEF Boot
    <3>. QED
      BY <1>1, <3>1, <3>2, <3>3
  <2>2. CASE ProcessEnds
    BY <1>1, <2>2 DEF ProcessEnds
  <2>3. CASE \E g \in Gates : OperatorOpens(g)
    BY <1>1, <2>3 DEF OperatorOpens, processVars, SetupInv
  <2>. QED
    BY <2>1, <2>2, <2>3
<1>. QED
  BY <1>1, <1>2, <1>3, <1>4 DEF SetupInv

LEMMA PageKeepsSetup ==
    ASSUME SetupInv, NEW b \in Browsers,
           Probe(b) \/ FetchStatus(b) \/ PollRestart(b) \/ RestartTimesOut(b) \/ Reload(b)
    PROVE  SetupInv'
<1>1. UNCHANGED <<vault, operator, env, session, request>>
  BY DEF Probe, FetchStatus, PollRestart, RestartTimesOut, Reload, processVars
<1>2. PICK p : p = page[b]
  OBVIOUS
<1>3. p \in Pages
  BY <1>2 DEF SetupInv
<1>4. \E q \in Pages : page' = [page EXCEPT ![b] = q]
  <2>1. CASE Probe(b)
    <3>1. Wizard \in Pages /\ [p EXCEPT !.at = "login"] \in Pages
          /\ [p EXCEPT !.at = "unreachable"] \in Pages
      BY <1>3 DEF Pages, Wizard
    <3>2. page' = [page EXCEPT ![b] =
             CASE Mode = "setup" -> Wizard
               [] Mode = "active" -> [p EXCEPT !.at = "login"]
               [] OTHER -> [p EXCEPT !.at = "unreachable"]]
      BY <1>2, <2>1 DEF Probe
    <3>. QED
      BY <3>1, <3>2
  <2>2. CASE FetchStatus(b)
    <3>1. \A step \in {"admin", "github", "finish"} :
             [p EXCEPT !.loaded = TRUE, !.step = step] \in Pages
      BY <1>3 DEF Pages
    <3>2. \E step \in {"admin", "github", "finish"} :
             page' = [page EXCEPT ![b].loaded = TRUE, ![b].step = step]
      <4>1. p.step \in {"admin", "github", "finish"} /\ page[b].step = p.step
        BY <1>2, <1>3 DEF Pages
      <4>2. page' = [page EXCEPT ![b].loaded = TRUE,
                       ![b].step = IF "admins" \notin env THEN @
                                   ELSE IF ProviderDerived(env) THEN "finish" ELSE "github"]
        BY <2>2 DEF FetchStatus
      <4>3. [page EXCEPT ![b].loaded = TRUE][b].step = p.step
        BY <1>2, <1>3 DEF SetupInv, Pages
      <4>. QED
        BY <4>1, <4>2, <4>3
    <3>3. \A step : [page EXCEPT ![b].loaded = TRUE, ![b].step = step]
                     = [page EXCEPT ![b] = [p EXCEPT !.loaded = TRUE, !.step = step]]
      BY <1>2 DEF SetupInv
    <3>. QED
      BY <3>1, <3>2, <3>3
  <2>3. CASE PollRestart(b) \/ RestartTimesOut(b)
    <3>1. [p EXCEPT !.at = "login"] \in Pages /\ [p EXCEPT !.at = "restart-timeout"] \in Pages
      BY <1>3 DEF Pages
    <3>. QED
      BY <1>2, <2>3, <3>1 DEF PollRestart, RestartTimesOut
  <2>4. CASE Reload(b)
    <3>1. Probing \in Pages
      BY DEF Probing, Wizard, Pages
    <3>. QED
      BY <2>4, <3>1 DEF Reload
  <2>. QED
    BY <2>1, <2>2, <2>3, <2>4
<1>5. page' \in [Browsers -> Pages]
  BY <1>4 DEF SetupInv
<1>6. Completable' <=> Completable
  BY <1>1 DEF Completable, Bootable, Missing
<1>. QED
  BY <1>1, <1>5, <1>6 DEF SetupInv

LEMMA SetupInitInv == SetupInit => SetupInv
<1> SUFFICES ASSUME SetupInit PROVE SetupInv
  OBVIOUS
<1>1. Probing \in Pages
  BY DEF Probing, Wizard, Pages
<1>. QED
  BY <1>1 DEF SetupInit, SetupInv, Items

LEMMA SetupStep == SetupInv /\ (SetupNext \/ UNCHANGED setupVars) => SetupInv'
<1> SUFFICES ASSUME SetupInv, SetupNext \/ UNCHANGED setupVars PROVE SetupInv'
  OBVIOUS
<1>1. CASE UNCHANGED setupVars
  BY <1>1 DEF setupVars, processVars, SetupInv, Completable, Bootable, Missing
<1>. QED
  BY <1>1, SubmitKeepsSetup, StoreWriteKeepsSetup, WriteFailsKeepsSetup,
     AcknowledgeKeepsSetup, ProcessKeepsSetup, PageKeepsSetup DEF SetupNext

(* Once setup is recorded as completed, the next boot needs nothing more,     *)
(* whatever writes failed and wherever the process died.                      *)
THEOREM CompletedSetupBoots == Spec => []CompletedBoots
<1> DEFINE Inv == part = "setup" => SetupInv
<1>1. Init => Inv
  BY SetupInitInv DEF Init
<1>2. Inv /\ [Next]_vars => Inv'
  BY PartKept, PartSteps, SetupStep
<1>3. Inv => CompletedBoots
  BY DEF SetupInv, CompletedBoots, Completable
<1>. QED
  BY <1>1, <1>2, <1>3, PTL DEF Spec

-----------------------------------------------------------------------------
(* SCHEMA.  While the server works on one update at a time, an editor's base  *)
(* is one of the schemas it knows, the file is what memory holds except in an *)
(* update's last step, and what an editor knows does not shrink while its     *)
(* save is on its way.                                                        *)
EditorFields == {"shown", "draft", "base", "dialog", "impacts", "theirs", "waits"}

SchemaTypes ==
    /\ DOMAIN editor = Editors /\ DOMAIN known = Editors
    /\ \A e \in Editors : DOMAIN editor[e] = EditorFields
    /\ \A u \in updates : DOMAIN u = {"by", "kind", "schema", "at"}

SchemaInv ==
    /\ SchemaTypes
    /\ \A u, v \in updates : u = v
    /\ (\A u \in updates : u.at # "memory") => schemaFile = memory
    /\ \A u \in updates : u.at = "memory" => schemaFile = u.schema
    /\ \A u \in updates : u.by # NULL =>
          /\ u.by \in Editors /\ editor[u.by].waits
          /\ u.kind = "save" /\ u.at # "memory" => schemaFile \in known[u.by]
    /\ \A e \in Editors :
          /\ editor[e].base \in known[e]
          /\ editor[e].dialog = "conflict" => ~editor[e].waits

LEMMA SchemaInitInv == SchemaInit => SchemaInv
BY DEF SchemaInit, SchemaInv, SchemaTypes, EditorFields

(* A page changes; the server does not.                                       *)
LEMMA PageKeepsSchema ==
    ASSUME SchemaInv, NEW e \in Editors, NEW ed, editor' = [editor EXCEPT ![e] = ed],
           DOMAIN ed = EditorFields, UNCHANGED <<schemaFile, memory, updates>>,
           DOMAIN known' = Editors, \A d \in Editors : d # e => known'[d] = known[d],
           ed.base \in known'[e], ed.dialog = "conflict" => ~ed.waits,
           editor[e].waits => ed.waits /\ known[e] \subseteq known'[e]
    PROVE  SchemaInv'
<1>1. /\ DOMAIN editor' = Editors /\ editor'[e] = ed
      /\ \A d \in Editors : d # e => editor'[d] = editor[d]
  BY DEF SchemaInv, SchemaTypes
<1>2. SchemaTypes'
  BY <1>1 DEF SchemaInv, SchemaTypes
<1>3. ASSUME NEW u \in updates, u.by # NULL
      PROVE  /\ u.by \in Editors /\ editor'[u.by].waits
             /\ u.kind = "save" /\ u.at # "memory" => schemaFile \in known'[u.by]
  BY <1>1, <1>3 DEF SchemaInv
<1>4. \A d \in Editors : /\ editor'[d].base \in known'[d]
                         /\ editor'[d].dialog = "conflict" => ~editor'[d].waits
  BY <1>1 DEF SchemaInv
<1>. QED
  BY <1>2, <1>3, <1>4 DEF SchemaInv

(* An update begins: there is no other.                                       *)
LEMMA BeginKeepsSchema ==
    ASSUME SchemaInv, updates = {}, NEW by, NEW kind, NEW schema,
           updates' = updates \cup {Update(by, kind, schema)},
           UNCHANGED <<schemaFile, memory, known>>,
           DOMAIN editor' = Editors, \A e \in Editors : DOMAIN editor'[e] = EditorFields,
           \A e \in Editors : /\ editor'[e].base = editor[e].base
                              /\ editor'[e].dialog = "conflict" => ~editor'[e].waits,
           by # NULL => by \in Editors /\ editor'[by].waits,
           by # NULL /\ kind = "save" => memory \in known[by]
    PROVE  SchemaInv'
<1>1. PICK u : u = Update(by, kind, schema)
  OBVIOUS
<1>2. /\ u.by = by /\ u.kind = kind /\ u.schema = schema /\ u.at = "snapshot"
      /\ DOMAIN u = {"by", "kind", "schema", "at"} /\ updates' = {u}
  BY <1>1 DEF Update
<1>3. SchemaTypes'
  BY <1>2 DEF SchemaInv, SchemaTypes
<1>4. schemaFile = memory
  BY DEF SchemaInv
<1>. QED
  BY <1>2, <1>3, <1>4 DEF SchemaInv

LEMMA EditorStep ==
    ASSUME SchemaInv, ~OverlapSaves, NEW e \in Editors,
           \/ \E next \in Edits(editor[e].draft) : Edit(e, next)
           \/ Refetch(e) \/ OpenSaveDialog(e) \/ CloseDialog(e)
           \/ ConfirmSave(e) \/ SaveConflict(e)
           \/ KeepEditingAgainstNewBase(e) \/ DiscardAndReload(e)
           \/ OpenHistory(e)
           \/ \E k \in 1 .. HistoryLimit : RollbackTo(e, k)
    PROVE  SchemaInv'
<1>1. PICK prior : prior = editor[e]
  OBVIOUS
<1>2. /\ DOMAIN prior = EditorFields /\ DOMAIN editor = Editors /\ DOMAIN known = Editors
      /\ prior.base \in known[e] /\ (prior.dialog = "conflict" => ~prior.waits)
  BY <1>1 DEF SchemaInv, SchemaTypes
<1>3. ASSUME NEW next, Edit(e, next) PROVE SchemaInv'
  <2>1. PICK ed : ed = [prior EXCEPT !.draft = next]
    OBVIOUS
  <2>2. /\ DOMAIN ed = EditorFields /\ ed.base = prior.base /\ ed.dialog = prior.dialog
        /\ ed.waits = prior.waits
    BY <1>2, <2>1
  <2>3. editor' = [editor EXCEPT ![e] = ed] /\ UNCHANGED <<schemaFile, memory, updates, known>>
    BY <1>1, <1>3, <2>1 DEF Edit, schemaDisk
  <2>. QED
    BY <1>1, <1>2, <2>2, <2>3, PageKeepsSchema
<1>4. CASE Refetch(e)
  <2>1. PICK ed : ed = [prior EXCEPT !.shown = memory, !.draft = memory, !.base = memory]
    OBVIOUS
  <2>2. /\ DOMAIN ed = EditorFields /\ ed.base = memory /\ ed.dialog = prior.dialog
        /\ ed.waits = prior.waits
    BY <1>2, <2>1 DEF EditorFields
  <2>3. /\ editor' = [editor EXCEPT ![e] = ed] /\ UNCHANGED <<schemaFile, memory, updates>>
        /\ known' = [known EXCEPT ![e] = {memory}] /\ ~prior.waits
    BY <1>1, <1>4, <2>1 DEF Refetch, Shown, schemaDisk
  <2>. QED
    BY <1>1, <1>2, <2>2, <2>3, PageKeepsSchema
<1>5. CASE OpenSaveDialog(e)
  <2>1. PICK impacts : editor' = [editor EXCEPT ![e].dialog = "review", ![e].impacts = impacts]
    BY <1>5 DEF OpenSaveDialog
  <2>2. PICK ed : ed = [prior EXCEPT !.dialog = "review", !.impacts = impacts]
    OBVIOUS
  <2>3. /\ DOMAIN ed = EditorFields /\ ed.base = prior.base /\ ed.dialog = "review"
        /\ ed.waits = prior.waits
    BY <1>2, <2>2 DEF EditorFields
  <2>4. editor' = [editor EXCEPT ![e] = ed] /\ UNCHANGED <<schemaFile, memory, updates, known>>
    BY <1>1, <1>2, <1>5, <2>1, <2>2 DEF OpenSaveDialog, schemaDisk
  <2>. QED
    BY <1>1, <1>2, <2>3, <2>4, PageKeepsSchema
<1>6. CASE CloseDialog(e)
  <2>1. PICK ed : ed = [prior EXCEPT !.dialog = "none", !.impacts = {}, !.theirs = NULL]
    OBVIOUS
  <2>2. /\ DOMAIN ed = EditorFields /\ ed.base = prior.base /\ ed.dialog = "none"
        /\ ed.waits = prior.waits
    BY <1>2, <2>1 DEF EditorFields
  <2>3. editor' = [editor EXCEPT ![e] = ed] /\ UNCHANGED <<schemaFile, memory, updates, known>>
    BY <1>1, <1>2, <1>6, <2>1 DEF CloseDialog, schemaDisk
  <2>. QED
    BY <1>1, <1>2, <2>2, <2>3, PageKeepsSchema
<1>7. CASE SaveConflict(e)
  <2>1. PICK ed : ed = [prior EXCEPT !.dialog = "conflict", !.impacts = {}, !.theirs = memory]
    OBVIOUS
  <2>2. /\ DOMAIN ed = EditorFields /\ ed.base = prior.base /\ ed.waits = prior.waits
    BY <1>2, <2>1 DEF EditorFields
  <2>3. /\ editor' = [editor EXCEPT ![e] = ed] /\ UNCHANGED <<schemaFile, memory, updates, known>>
        /\ ~prior.waits
    BY <1>1, <1>2, <1>7, <2>1 DEF SaveConflict, schemaDisk
  <2>. QED
    BY <1>1, <1>2, <2>2, <2>3, PageKeepsSchema
<1>8. CASE KeepEditingAgainstNewBase(e)
  <2>1. PICK ed : ed = [prior EXCEPT !.base = prior.theirs, !.dialog = "none", !.theirs = NULL]
    OBVIOUS
  <2>2. /\ DOMAIN ed = EditorFields /\ ed.base = prior.theirs /\ ed.dialog = "none"
        /\ ed.waits = prior.waits
    BY <1>2, <2>1 DEF EditorFields
  <2>3. /\ editor' = [editor EXCEPT ![e] = ed] /\ UNCHANGED <<schemaFile, memory, updates>>
        /\ known' = [known EXCEPT ![e] = @ \cup {prior.theirs}]
    BY <1>1, <1>2, <1>8, <2>1 DEF KeepEditingAgainstNewBase, schemaDisk
  <2>. QED
    BY <1>1, <1>2, <2>2, <2>3, PageKeepsSchema
<1>9. CASE DiscardAndReload(e)
  <2>1. /\ editor' = [editor EXCEPT ![e] = [Shown(prior, memory) EXCEPT !.dialog = "none", !.theirs = NULL]]
        /\ known' = [known EXCEPT ![e] = IF memory = prior.shown THEN @ ELSE {memory}]
        /\ UNCHANGED <<schemaFile, memory, updates>> /\ ~prior.waits
    BY <1>1, <1>2, <1>9 DEF DiscardAndReload, schemaDisk
  <2>2. PICK ed : ed = [Shown(prior, memory) EXCEPT !.dialog = "none", !.theirs = NULL]
    OBVIOUS
  <2>3. /\ DOMAIN Shown(prior, memory) = EditorFields
        /\ Shown(prior, memory).base = IF memory = prior.shown THEN prior.base ELSE memory
        /\ Shown(prior, memory).waits = prior.waits
    BY <1>2 DEF Shown, EditorFields
  <2>4. /\ DOMAIN ed = EditorFields /\ ed.dialog = "none" /\ ed.waits = prior.waits
        /\ ed.base = IF memory = prior.shown THEN prior.base ELSE memory
    BY <2>2, <2>3 DEF EditorFields
  <2>5. ed.base \in known'[e]
    BY <1>2, <2>1, <2>4
  <2>. QED
    BY <1>1, <1>2, <2>1, <2>2, <2>4, <2>5, PageKeepsSchema
<1>10. CASE OpenHistory(e)
  <2>1. PICK ed : ed = [prior EXCEPT !.dialog = "history"]
    OBVIOUS
  <2>2. /\ DOMAIN ed = EditorFields /\ ed.base = prior.base /\ ed.dialog = "history"
        /\ ed.waits = prior.waits
    BY <1>2, <2>1 DEF EditorFields
  <2>3. editor' = [editor EXCEPT ![e] = ed] /\ UNCHANGED <<schemaFile, memory, updates, known>>
    BY <1>1, <1>2, <1>10, <2>1 DEF OpenHistory, schemaDisk
  <2>. QED
    BY <1>1, <1>2, <2>2, <2>3, PageKeepsSchema
<1>11. ASSUME ConfirmSave(e) \/ \E k \in 1 .. HistoryLimit : RollbackTo(e, k)
       PROVE  SchemaInv'
  <2>1. PICK ed : ed = [prior EXCEPT !.waits = TRUE]
    OBVIOUS
  <2>2. /\ DOMAIN ed = EditorFields /\ ed.base = prior.base /\ ed.dialog = prior.dialog
        /\ ed.waits = TRUE
    BY <1>2, <2>1 DEF EditorFields
  <2>3. /\ editor' = [editor EXCEPT ![e] = ed] /\ UNCHANGED <<schemaFile, memory, known>>
        /\ updates = {} /\ prior.dialog # "conflict"
    BY <1>1, <1>2, <1>11, <2>1 DEF ConfirmSave, RollbackTo, Begins, schemaDisk
  <2>4. \E kind, schema :
           /\ updates' = updates \cup {Update(e, kind, schema)}
           /\ kind = "save" => prior.base = memory
    <3>1. CASE ConfirmSave(e)
      <4>1. updates' = updates \cup {Update(e, "save", prior.draft)} /\ prior.base = memory
        BY <1>1, <3>1 DEF ConfirmSave
      <4>. QED
        BY <4>1
    <3>2. CASE \E k \in 1 .. HistoryLimit : RollbackTo(e, k)
      <4>1. PICK k \in 1 .. HistoryLimit : updates' = updates \cup {Update(e, "rollback", history[k])}
        BY <3>2 DEF RollbackTo
      <4>. QED
        BY <4>1
    <3>. QED
      BY <1>11, <3>1, <3>2
  <2>5. /\ DOMAIN editor' = Editors /\ editor'[e] = ed
        /\ \A d \in Editors : d # e => editor'[d] = editor[d]
    BY <1>2, <2>3
  <2>6. /\ \A d \in Editors : DOMAIN editor'[d] = EditorFields
        /\ \A d \in Editors : /\ editor'[d].base = editor[d].base
                              /\ editor'[d].dialog = "conflict" => ~editor'[d].waits
    BY <1>1, <2>2, <2>3, <2>5 DEF SchemaInv, SchemaTypes
  <2>. QED
    BY <1>1, <1>2, <2>2, <2>3, <2>4, <2>5, <2>6, BeginKeepsSchema
<1>. QED
  BY <1>3, <1>4, <1>5, <1>6, <1>7, <1>8, <1>9, <1>10, <1>11

(* An update takes a step, fails or ends.                                     *)
LEMMA UpdateStep ==
    ASSUME SchemaInv, NEW u \in updates,
           \/ WriteSnapshot(u) \/ SnapshotFails(u) \/ ReplaceFile(u) \/ ReplaceFails(u)
           \/ Settle(u)
    PROVE  SchemaInv'
<1>1. /\ updates = {u} /\ DOMAIN u = {"by", "kind", "schema", "at"}
      /\ DOMAIN editor = Editors /\ DOMAIN known = Editors
      /\ u.by # NULL => u.by \in Editors
  BY DEF SchemaInv, SchemaTypes
<1>2. ASSUME NEW at, MoveTo(u, at), UNCHANGED <<memory, editor, known>>,
             \/ at = "file" /\ u.at = "snapshot" /\ UNCHANGED schemaFile
             \/ at = "memory" /\ schemaFile' = u.schema
      PROVE  SchemaInv'
  <2>1. PICK v : v = [u EXCEPT !.at = at]
    OBVIOUS
  <2>2. /\ DOMAIN v = {"by", "kind", "schema", "at"} /\ v.by = u.by /\ v.kind = u.kind
        /\ v.schema = u.schema /\ v.at = at
    BY <1>1, <2>1
  <2>3. updates' = {v}
    BY <1>1, <1>2, <2>1 DEF MoveTo
  <2>. QED
    BY <1>1, <1>2, <2>2, <2>3 DEF SchemaInv, SchemaTypes
<1>3. CASE WriteSnapshot(u) \/ SnapshotFails(u) \/ ReplaceFile(u)
  BY <1>2, <1>3 DEF WriteSnapshot, SnapshotFails, ReplaceFile, schemaDisk
<1>4. CASE ReplaceFails(u)
  <2>1. updates' = {} /\ schemaFile = memory /\ UNCHANGED <<schemaFile, memory, known>>
    BY <1>1, <1>4 DEF ReplaceFails, schemaDisk, SchemaInv
  <2>2. /\ DOMAIN editor' = Editors
        /\ \A e \in Editors : /\ DOMAIN editor'[e] = EditorFields
                              /\ editor'[e].base = editor[e].base
                              /\ editor'[e].dialog = "conflict" => ~editor'[e].waits
    <3>1. CASE u.by = NULL
      BY <1>1, <1>4, <3>1 DEF ReplaceFails, Told, SchemaInv, SchemaTypes
    <3>2. CASE u.by # NULL
      <4>1. PICK ed : ed = [editor[u.by] EXCEPT !.waits = FALSE]
        OBVIOUS
      <4>2. /\ DOMAIN ed = EditorFields /\ ed.base = editor[u.by].base /\ ed.waits = FALSE
        BY <1>1, <3>2, <4>1 DEF SchemaInv, SchemaTypes, EditorFields
      <4>3. editor' = [editor EXCEPT ![u.by] = ed]
        BY <1>4, <3>2, <4>1 DEF ReplaceFails, Told, StillOpen
      <4>. QED
        BY <1>1, <4>2, <4>3 DEF SchemaInv, SchemaTypes
    <3>. QED
      BY <3>1, <3>2
  <2>. QED
    BY <1>1, <2>1, <2>2 DEF SchemaInv, SchemaTypes
<1>5. CASE Settle(u)
  <2>1. /\ updates' = {} /\ memory' = u.schema /\ schemaFile' = u.schema
    BY <1>1, <1>5 DEF Settle, SchemaInv
  <2>2. CASE u.by = NULL
    BY <1>1, <1>5, <2>1, <2>2 DEF Settle, Told, SchemaInv, SchemaTypes
  <2>3. CASE u.by # NULL
    <3>1. PICK prior : prior = editor[u.by]
      OBVIOUS
    <3>2. PICK ed : ed = [Shown(prior, u.schema) EXCEPT !.waits = FALSE, !.dialog = "none", !.impacts = {}]
      OBVIOUS
    <3>3. DOMAIN prior = EditorFields /\ prior.base \in known[u.by]
      BY <1>1, <2>3, <3>1 DEF SchemaInv, SchemaTypes
    <3>4. /\ DOMAIN Shown(prior, u.schema) = EditorFields
          /\ Shown(prior, u.schema).base = IF u.schema = prior.shown THEN prior.base ELSE u.schema
      BY <3>3 DEF Shown, EditorFields
    <3>5. /\ DOMAIN ed = EditorFields /\ ed.dialog = "none"
          /\ ed.base = IF u.schema = prior.shown THEN prior.base ELSE u.schema
      BY <3>2, <3>4 DEF EditorFields
    <3>6. editor' = [editor EXCEPT ![u.by] = ed]
      BY <1>5, <2>3, <3>1, <3>2 DEF Settle, Told
    <3>7. known' = [known EXCEPT ![u.by] = IF u.schema = prior.shown THEN @ ELSE {u.schema}]
      BY <1>5, <2>3, <3>1 DEF Settle
    <3>8. ed.base \in known'[u.by]
      BY <1>1, <2>3, <3>3, <3>5, <3>7
    <3>. QED
      BY <1>1, <2>1, <2>3, <3>5, <3>6, <3>7, <3>8 DEF SchemaInv, SchemaTypes
  <2>. QED
    BY <2>2, <2>3
<1>. QED
  BY <1>3, <1>4, <1>5

LEMMA SchemaStep ==
    ~OverlapSaves /\ SchemaInv /\ (SchemaNext \/ UNCHANGED schemaVars) => SchemaInv'
<1> SUFFICES ASSUME ~OverlapSaves, SchemaInv, SchemaNext \/ UNCHANGED schemaVars
             PROVE  SchemaInv'
  OBVIOUS
<1>1. ASSUME NEW next \in Edits(memory), PutSchema(next) PROVE SchemaInv'
  <2>1. /\ updates = {} /\ updates' = updates \cup {Update(NULL, "save", next)}
        /\ UNCHANGED <<schemaFile, memory, known, editor>>
    BY <1>1 DEF PutSchema, Begins, schemaDisk
  <2>. QED
    BY <2>1, BeginKeepsSchema DEF SchemaInv, SchemaTypes
<1>2. CASE ServerRestarts
  <2>1. \A e \in Editors : /\ DOMAIN editor'[e] = EditorFields
                           /\ editor'[e].base = editor[e].base /\ editor'[e].waits = FALSE
    BY <1>2 DEF ServerRestarts, StillOpen, SchemaInv, SchemaTypes, EditorFields
  <2>. QED
    BY <1>2, <2>1 DEF ServerRestarts, SchemaInv, SchemaTypes
<1>3. CASE UNCHANGED schemaVars
  BY <1>3 DEF schemaVars, SchemaInv, SchemaTypes
<1>. QED
  BY <1>1, <1>2, <1>3, EditorStep, UpdateStep DEF SchemaNext

(* While the server works on one update at a time, a save from the editor     *)
(* replaces only a schema its person was shown or chose to overwrite.         *)
THEOREM SavesAreNotBlind == ~OverlapSaves /\ Spec => []NoBlindOverwrite
<1> DEFINE Inv == part = "schema" => SchemaInv
<1>1. Init => Inv
  BY SchemaInitInv DEF Init
<1>2. ~OverlapSaves /\ Inv /\ [Next]_vars => Inv'
  BY PartKept, PartSteps, SchemaStep
<1>3. Inv => NoBlindOverwrite
  BY DEF SchemaInv, NoBlindOverwrite
<1>4. ASSUME ~OverlapSaves PROVE Spec => []NoBlindOverwrite
  <2>1. Inv /\ [Next]_vars => Inv'
    BY <1>2, <1>4
  <2>. QED
    BY <1>1, <1>3, <2>1, PTL DEF Spec
<1>. QED
  BY <1>4

-----------------------------------------------------------------------------
(* WEBHOOKS.  The key of a delivery belongs to a refetch that was accepted, to *)
(* a handler between setting it and settling it, or has outlived one.         *)
Holds(h, d) == (At(h, "enqueue") \/ At(h, "release")) /\ handler[h].delivery = d

WebhooksInv ==
    /\ handler \in [Handlers -> Deliveries \cup {NULL}]
    /\ \A d \in seen : d \in taken \/ d \in lapsed \/ \E h \in Handlers : Holds(h, d)

LEMMA WebhooksInitInv == WebhooksInit => WebhooksInv
BY DEF WebhooksInit, WebhooksInv

(* What a handler holds once it has moved or answered.                        *)
LEMMA MovedHolds ==
    ASSUME WebhooksInv, NEW h \in Handlers, handler[h] # NULL,
           NEW at \in {"record", "mark", "enqueue", "release"}, Moves(h, at)
    PROVE  /\ handler' \in [Handlers -> Deliveries \cup {NULL}]
           /\ at \in {"enqueue", "release"} => \A d : d = handler[h].delivery => Holds(h, d)'
           /\ \A g \in Handlers : \A d : g # h => (Holds(g, d)' <=> Holds(g, d))
<1>1. PICK r : r = [handler[h] EXCEPT !.at = at]
  OBVIOUS
<1>2. r \in Deliveries /\ r.at = at /\ r.delivery = handler[h].delivery
  BY <1>1 DEF WebhooksInv, Deliveries
<1>3. handler' = [handler EXCEPT ![h] = r]
  BY <1>1 DEF Moves
<1>4. handler'[h] = r /\ \A g \in Handlers : g # h => handler'[g] = handler[g]
  BY <1>3 DEF WebhooksInv
<1>5. r # NULL
  BY <1>2, WebhooksAssumption
<1>. QED
  BY <1>2, <1>3, <1>4, <1>5 DEF WebhooksInv, Holds, At

LEMMA AnsweredHolds ==
    ASSUME WebhooksInv, NEW h \in Handlers, Answers(h)
    PROVE  /\ handler' \in [Handlers -> Deliveries \cup {NULL}]
           /\ \A g \in Handlers : \A d : g # h => (Holds(g, d)' <=> Holds(g, d))
<1>1. handler' \in [Handlers -> Deliveries \cup {NULL}]
  BY DEF Answers, WebhooksInv
<1>2. \A g \in Handlers : g # h => handler'[g] = handler[g]
  BY DEF Answers, WebhooksInv
<1>. QED
  BY <1>1, <1>2 DEF Holds, At

LEMMA WebhooksStep == WebhooksInv /\ (WebhooksNext \/ UNCHANGED webhookVars) => WebhooksInv'
<1> SUFFICES ASSUME WebhooksInv, WebhooksNext \/ UNCHANGED webhookVars PROVE WebhooksInv'
  OBVIOUS
<1>1. CASE \/ Push \/ SecretSet
           \/ \E to \in {"on", "off", "gone"} : ConnectorChanges(to)
           \/ RefetchBegins \/ RefetchReads \/ RefetchPublishes \/ RefetchFails
           \/ RefetchForgotten
           \/ UNCHANGED webhookVars
  <2>1. UNCHANGED <<handler, seen, taken, lapsed>>
    BY <1>1 DEF Push, SecretSet, ConnectorChanges, RefetchBegins, RefetchReads,
                RefetchPublishes, RefetchFails, RefetchForgotten, webhookVars
  <2>. QED
    BY <2>1 DEF WebhooksInv, Holds, At
<1>2. ASSUME NEW h \in Handlers, NEW d \in 1 .. MaxPushes, NEW c \in {"on", "off"},
             NEW signed \in {"per-app", "global"}, Receive(h, d, c, signed)
      PROVE  WebhooksInv'
  <2>1. PICK r : r = [delivery |-> d, on |-> c = "on", at |-> "record"]
    OBVIOUS
  <2>2. r \in Deliveries
    BY <2>1 DEF Deliveries
  <2>3. /\ handler' = [handler EXCEPT ![h] = r] /\ handler[h] = NULL
        /\ UNCHANGED <<seen, taken, lapsed>>
    BY <1>2, <2>1 DEF Receive
  <2>4. \A g \in Handlers : \A e : Holds(g, e) => Holds(g, e)'
    BY <2>3 DEF WebhooksInv, Holds, At
  <2>. QED
    BY <2>2, <2>3, <2>4 DEF WebhooksInv
<1>3. ASSUME NEW h \in Handlers, RecordVerifiedDelivery(h) PROVE WebhooksInv'
  <2>1. \A d : ~Holds(h, d)
    BY <1>3 DEF RecordVerifiedDelivery, Holds, At
  <2>. QED
    BY <1>3, <2>1, MovedHolds, AnsweredHolds DEF RecordVerifiedDelivery, WebhooksInv, At
<1>4. ASSUME NEW h \in Handlers, MarkDeliverySeen(h) PROVE WebhooksInv'
  <2>1. \A d : ~Holds(h, d)
    BY <1>4 DEF MarkDeliverySeen, Holds, At
  <2>2. CASE handler[h].delivery \in seen
    BY <1>4, <2>1, <2>2, AnsweredHolds DEF MarkDeliverySeen, WebhooksInv
  <2>3. CASE handler[h].delivery \notin seen
    BY <1>4, <2>1, <2>3, MovedHolds DEF MarkDeliverySeen, WebhooksInv, At
  <2>. QED
    BY <2>2, <2>3
<1>5. ASSUME NEW h \in Handlers, Enqueue(h) PROVE WebhooksInv'
  BY <1>5, AnsweredHolds DEF Enqueue, WebhooksInv, Holds
<1>6. ASSUME NEW h \in Handlers, ProcessingFails(h) PROVE WebhooksInv'
  BY <1>6, MovedHolds DEF ProcessingFails, WebhooksInv, Holds
<1>7. ASSUME NEW h \in Handlers, ReleaseDelivery(h) \/ ReleaseFails(h) PROVE WebhooksInv'
  BY <1>7, AnsweredHolds DEF ReleaseDelivery, ReleaseFails, WebhooksInv, Holds
<1>8. ASSUME NEW d \in 1 .. MaxPushes, DeliveryExpires(d) PROVE WebhooksInv'
  BY <1>8 DEF DeliveryExpires, WebhooksInv, Holds, At
<1>9. CASE ReceiverDies
  <2>1. \A h \in Handlers : \A d : Holds(h, d) => d \in lapsed'
    BY <1>9 DEF ReceiverDies, Holds, At
  <2>. QED
    BY <1>9, <2>1 DEF ReceiverDies, WebhooksInv
<1>. QED
  BY <1>1, <1>2, <1>3, <1>4, <1>5, <1>6, <1>7, <1>8, <1>9 DEF WebhooksNext

(* A delivery is refused as a duplicate only when its refetch was accepted,   *)
(* is being handled, or its handler died or lost Redis with the key set.      *)
THEOREM DuplicatesWereTaken == Spec => []DuplicateWasTaken
<1> DEFINE Inv == part = "webhooks" => WebhooksInv
<1>1. Init => Inv
  BY WebhooksInitInv DEF Init
<1>2. Inv /\ [Next]_vars => Inv'
  BY PartKept, PartSteps, WebhooksStep
<1>3. Inv => DuplicateWasTaken
  BY DEF WebhooksInv, DuplicateWasTaken, Handled, Holds, At
<1>. QED
  BY <1>1, <1>2, <1>3, PTL DEF Spec

-----------------------------------------------------------------------------
(* AGENTS.  A revision never comes back, and a draft never changes under one: *)
(* what a publish request found valid at the revision it names is what is     *)
(* there if that revision is still there.                                     *)
AllowedVersions ==
    {v \in [def : Definitions, by : Authors \cup {System}, matched : BOOLEAN, offered : SUBSET Models] :
        v.matched => v.def.model \in v.offered /\ Grantable(v.by, v.def)}
Rows ==
    [draft : Definitions, slug : {"own", "builtin"}, revision : Nat, live : BOOLEAN,
     enabled : BOOLEAN, published : Nat, versions : Seq(AllowedVersions)]

ReadStands(a) ==
    reads[a] # NULL => /\ reads[a].id \in 1 .. Len(agents)
                       /\ reads[a].revision <= agents[reads[a].id].revision
CheckStands(a) ==
    LET p == publishing[a]
    IN  p # NULL =>
            /\ p.id \in 1 .. Len(agents)
            /\ p.expected # NULL =>
                  /\ p.expected <= agents[p.id].revision
                  /\ p.expected = agents[p.id].revision => ValidDefinition(a, agents[p.id].draft)

AgentsInv ==
    /\ agents \in Seq(Rows) /\ allowed \subseteq Models
    /\ reads \in [Authors -> [id : Nat, revision : Nat] \cup {NULL}]
    /\ publishing \in [Authors -> [id : Nat, expected : Nat \cup {NULL}] \cup {NULL}]
    /\ \A a \in Authors : ReadStands(a) /\ CheckStands(a)

LEMMA AgentsInitInv == AgentsInit => AgentsInv
BY DEF AgentsInit, AgentsInv, ReadStands, CheckStands

LEMMA RowTypes ==
    ASSUME NEW table \in Seq(Rows)
    PROVE  /\ Len(table) \in Nat
           /\ \A i \in 1 .. Len(table) : table[i] \in Rows /\ table[i].revision \in Nat
<1>1. Len(table) \in Nat /\ \A i \in 1 .. Len(table) : table[i] \in Rows
  BY ElementOfSeq, LenProperties
<1>2. \A entry \in Rows : entry.revision \in Nat
  BY DEF Rows
<1>. QED
  BY <1>1, <1>2

(* The rows go on: none is lost, no revision falls, no draft changes under one. *)
RowsGoOn ==
    /\ agents' \in Seq(Rows) /\ Len(agents) <= Len(agents') /\ allowed' = allowed
    /\ \A i \in 1 .. Len(agents) :
          /\ agents[i].revision <= agents'[i].revision
          /\ agents'[i].revision = agents[i].revision => agents'[i].draft = agents[i].draft

LEMMA RowsGoOnKeeps ==
    ASSUME AgentsInv, RowsGoOn, NEW a \in Authors
    PROVE  /\ reads'[a] = reads[a] => ReadStands(a)'
           /\ publishing'[a] = publishing[a] => CheckStands(a)'
<1>1. /\ Len(agents) \in Nat /\ Len(agents') \in Nat
      /\ \A i \in 1 .. Len(agents) : i \in 1 .. Len(agents')
      /\ \A i \in 1 .. Len(agents) : agents[i].revision \in Nat
      /\ \A i \in 1 .. Len(agents') : agents'[i].revision \in Nat
  BY RowTypes DEF AgentsInv, RowsGoOn
<1>2. ReadStands(a) /\ CheckStands(a)
  BY DEF AgentsInv
<1>3. ASSUME reads'[a] = reads[a], reads[a] # NULL
      PROVE  /\ reads'[a].id \in 1 .. Len(agents')
             /\ reads'[a].revision <= agents'[reads'[a].id].revision
  <2>1. PICK r \in [id : Nat, revision : Nat] : r = reads[a]
    BY <1>3 DEF AgentsInv
  <2>2. r.id \in 1 .. Len(agents) /\ r.revision <= agents[r.id].revision /\ r.revision \in Nat
    BY <1>2, <1>3, <2>1 DEF ReadStands
  <2>3. agents[r.id].revision <= agents'[r.id].revision
    BY <2>2 DEF RowsGoOn
  <2>. QED
    BY <1>1, <1>3, <2>1, <2>2, <2>3
<1>4. ASSUME publishing'[a] = publishing[a], publishing[a] # NULL
      PROVE  CheckStands(a)'
  <2>1. PICK p \in [id : Nat, expected : Nat \cup {NULL}] : p = publishing[a]
    BY <1>4 DEF AgentsInv
  <2>2. p.id \in 1 .. Len(agents) /\ p.id \in 1 .. Len(agents')
    BY <1>1, <1>2, <1>4, <2>1 DEF CheckStands
  <2>3. ASSUME p.expected # NULL
        PROVE  /\ p.expected <= agents'[p.id].revision
               /\ p.expected = agents'[p.id].revision => ValidDefinition(a, agents[p.id].draft)'
    <3>1. /\ p.expected \in Nat /\ p.expected <= agents[p.id].revision
          /\ p.expected = agents[p.id].revision => ValidDefinition(a, agents[p.id].draft)
      BY <1>2, <1>4, <2>1, <2>3 DEF CheckStands
    <3>2. /\ agents[p.id].revision <= agents'[p.id].revision
          /\ agents'[p.id].revision = agents[p.id].revision => agents'[p.id].draft = agents[p.id].draft
      BY <2>2 DEF RowsGoOn
    <3>3. agents[p.id].revision \in Nat /\ agents'[p.id].revision \in Nat
      BY <1>1, <2>2
    <3>4. p.expected <= agents'[p.id].revision
      BY <3>1, <3>2, <3>3
    <3>5. ASSUME p.expected = agents'[p.id].revision
          PROVE  ValidDefinition(a, agents[p.id].draft)'
      <4>1. p.expected = agents[p.id].revision
        BY <3>1, <3>2, <3>3, <3>5
      <4>2. ValidDefinition(a, agents'[p.id].draft)
        BY <3>1, <3>2, <3>5, <4>1
      <4>. QED
        BY <4>2 DEF ValidDefinition, WithinPolicy, Grantable, RowsGoOn
    <3>. QED
      BY <3>4, <3>5
  <2>. QED
    BY <1>4, <2>1, <2>2, <2>3 DEF CheckStands
<1>. QED
  BY <1>3, <1>4 DEF ReadStands, CheckStands

(* Each of these ways to change the rows lets them go on.                     *)
LEMMA AppendedRow ==
    ASSUME AgentsInv, NEW entry \in Rows, agents' = Append(agents, entry), allowed' = allowed
    PROVE  /\ RowsGoOn /\ Len(agents') = Len(agents) + 1
           /\ agents'[Len(agents) + 1] = entry
<1>1. /\ agents' \in Seq(Rows) /\ Len(agents') = Len(agents) + 1
      /\ \A i \in 1 .. Len(agents) : agents'[i] = agents[i]
      /\ agents'[Len(agents) + 1] = entry
  BY AppendProperties DEF AgentsInv
<1>2. Len(agents) \in Nat
  BY RowTypes DEF AgentsInv
<1>3. \A i \in 1 .. Len(agents) : agents[i].revision \in Nat
  BY RowTypes DEF AgentsInv
<1>. QED
  BY <1>1, <1>2, <1>3 DEF RowsGoOn

LEMMA ReplacedRow ==
    ASSUME AgentsInv, NEW i \in 1 .. Len(agents), NEW entry \in Rows,
           entry.revision = agents[i].revision + 1,
           agents' = [agents EXCEPT ![i] = entry], allowed' = allowed
    PROVE  /\ RowsGoOn /\ Len(agents') = Len(agents) /\ agents'[i] = entry
<1>1. /\ agents' \in Seq(Rows) /\ Len(agents') = Len(agents) /\ agents'[i] = entry
      /\ \A j \in 1 .. Len(agents) : j # i => agents'[j] = agents[j]
  BY DEF AgentsInv
<1>2. Len(agents) \in Nat
  BY RowTypes DEF AgentsInv
<1>3. \A j \in 1 .. Len(agents) : agents[j].revision \in Nat
  BY RowTypes DEF AgentsInv
<1>4. ASSUME NEW j \in 1 .. Len(agents)
      PROVE  /\ agents[j].revision <= agents'[j].revision
             /\ agents'[j].revision = agents[j].revision => agents'[j].draft = agents[j].draft
  <2>1. CASE j = i
    BY <1>1, <1>3, <2>1
  <2>2. CASE j # i
    BY <1>1, <1>3, <2>2
  <2>. QED
    BY <2>1, <2>2
<1>. QED
  BY <1>1, <1>2, <1>4 DEF RowsGoOn

LEMMA PublishedRow ==
    ASSUME NEW entry \in Rows, NEW by \in Authors \cup {System}, NEW matched \in BOOLEAN,
           allowed \subseteq Models,
           matched => entry.draft.model \in allowed /\ Grantable(by, entry.draft)
    PROVE  Published(entry, by, matched) \in Rows /\ Published(entry, by, matched).revision = entry.revision + 1
<1>1. PICK v : v = [def |-> entry.draft, by |-> by, matched |-> matched, offered |-> allowed]
  OBVIOUS
<1>2. v \in AllowedVersions
  BY <1>1 DEF AllowedVersions, Rows
<1>3. PICK vs : vs = Append(entry.versions, v)
  OBVIOUS
<1>4. entry.versions \in Seq(AllowedVersions) /\ vs \in Seq(AllowedVersions)
  BY <1>2, <1>3, AppendProperties DEF Rows
<1>5. Len(entry.versions) + 1 \in Nat /\ entry.revision + 1 \in Nat
  BY <1>4, LenProperties DEF Rows
<1>6. Published(entry, by, matched) =
         [entry EXCEPT !.versions = vs, !.published = Len(entry.versions) + 1, !.revision = entry.revision + 1]
  BY <1>1, <1>3 DEF Published, Rows
<1>. QED
  BY <1>4, <1>5, <1>6 DEF Rows

(* An author changes a row, or reads one, and has then read it at a revision  *)
(* it still has.                                                              *)
LEMMA AuthorKeepsAgents ==
    ASSUME AgentsInv, RowsGoOn, NEW a \in Authors, NEW id \in 1 .. Len(agents'),
           NEW revision \in Nat, revision <= agents'[id].revision,
           reads' = reads \/ reads' = [reads EXCEPT ![a] = [id |-> id, revision |-> revision]],
           UNCHANGED publishing
    PROVE  AgentsInv'
<1>1. PICK r : r = [id |-> id, revision |-> revision]
  OBVIOUS
<1>2. r \in [id : Nat, revision : Nat] /\ r.id = id /\ r.revision = revision
  <2>1. id \in Nat
    OBVIOUS
  <2>. QED
    BY <1>1, <2>1
<1>3. reads' = reads \/ reads' = [reads EXCEPT ![a] = r]
  BY <1>1
<1>4. reads' \in [Authors -> [id : Nat, revision : Nat] \cup {NULL}]
  BY <1>2, <1>3 DEF AgentsInv
<1>5. ASSUME NEW b \in Authors PROVE ReadStands(b)' /\ CheckStands(b)'
  <2>1. CheckStands(b)'
    BY RowsGoOnKeeps
  <2>2. CASE reads'[b] = reads[b]
    BY <2>1, <2>2, RowsGoOnKeeps
  <2>3. CASE reads'[b] # reads[b]
    <3>1. reads'[b] = r
      BY <1>3, <2>3 DEF AgentsInv
    <3>. QED
      BY <1>2, <2>1, <3>1 DEF ReadStands
  <2>. QED
    BY <2>2, <2>3
<1>. QED
  BY <1>4, <1>5 DEF AgentsInv, RowsGoOn

LEMMA StillRows ==
    ASSUME AgentsInv, UNCHANGED <<agents, allowed>>
    PROVE  RowsGoOn
<1>1. Len(agents) \in Nat /\ \A i \in 1 .. Len(agents) : agents[i].revision \in Nat
  BY RowTypes DEF AgentsInv
<1>. QED
  BY <1>1 DEF RowsGoOn, AgentsInv

LEMMA NewRow ==
    ASSUME NEW d \in Definitions, NEW slug \in {"own", "builtin"}
    PROVE  Row(d, slug) \in Rows /\ Row(d, slug).revision = 1
<1>1. <<>> \in Seq(AllowedVersions)
  OBVIOUS
<1>. QED
  BY <1>1 DEF Row, Rows

LEMMA AuthorEdits ==
    ASSUME AgentsInv, NEW a \in Authors,
           \/ \E d \in Definitions : CreateAgent(a, d)
           \/ \E i \in 1 .. MaxAgents : Get(a, i)
           \/ \E with \in BOOLEAN :
                \/ \E d \in Definitions : UpdateDefinition(a, d, with)
                \/ UpdateEnabled(a, with) \/ Archive(a, with)
    PROVE  AgentsInv'
<1>1. Len(agents) \in Nat /\ \A i \in 1 .. Len(agents) : agents[i] \in Rows /\ agents[i].revision \in Nat
  BY RowTypes DEF AgentsInv
<1>2. ASSUME NEW d \in Definitions, CreateAgent(a, d) PROVE AgentsInv'
  <2>1. Row(d, "own") \in Rows /\ Row(d, "own").revision = 1
    BY NewRow
  <2>2. /\ agents' = Append(agents, Row(d, "own")) /\ allowed' = allowed
        /\ reads' = [reads EXCEPT ![a] = [id |-> Len(agents) + 1, revision |-> 1]]
        /\ UNCHANGED publishing
    BY <1>2 DEF CreateAgent
  <2>3. /\ RowsGoOn /\ Len(agents') = Len(agents) + 1
        /\ agents'[Len(agents) + 1] = Row(d, "own")
    BY <2>1, <2>2, AppendedRow
  <2>4. /\ Len(agents) + 1 \in 1 .. Len(agents') /\ 1 \in Nat
        /\ 1 <= agents'[Len(agents) + 1].revision
    BY <1>1, <2>1, <2>3
  <2>. QED
    BY <2>2, <2>3, <2>4, AuthorKeepsAgents
<1>3. ASSUME NEW i \in 1 .. MaxAgents, Get(a, i) PROVE AgentsInv'
  <2>1. /\ i \in 1 .. Len(agents) /\ UNCHANGED <<agents, allowed, publishing>>
        /\ reads' = [reads EXCEPT ![a] = [id |-> i, revision |-> agents[i].revision]]
    BY <1>3 DEF Get
  <2>2. RowsGoOn
    BY <2>1, StillRows
  <2>3. agents[i].revision \in Nat /\ agents[i].revision <= agents'[i].revision /\ i \in 1 .. Len(agents')
    BY <1>1, <2>1
  <2>. QED
    BY <2>1, <2>2, <2>3, AuthorKeepsAgents
<1>4. ASSUME NEW i \in 1 .. Len(agents), NEW entry \in Rows, entry.revision = agents[i].revision + 1,
             reads[a] # NULL, reads[a].id = i,
             agents' = [agents EXCEPT ![i] = entry], UNCHANGED <<allowed, publishing>>,
             reads' = reads \/ reads' = [reads EXCEPT ![a].revision = agents[i].revision + 1]
      PROVE  AgentsInv'
  <2>1. RowsGoOn /\ Len(agents') = Len(agents) /\ agents'[i] = entry
    BY <1>4, ReplacedRow
  <2>2. /\ agents[i].revision + 1 \in Nat /\ agents[i].revision + 1 <= agents'[i].revision
        /\ i \in 1 .. Len(agents')
    BY <1>1, <1>4, <2>1
  <2>3. PICK r \in [id : Nat, revision : Nat] : r = reads[a]
    BY <1>4 DEF AgentsInv
  <2>4. \A n : [r EXCEPT !.revision = n] = [id |-> i, revision |-> n]
    BY <1>4, <2>3
  <2>5. reads' = reads \/ reads' = [reads EXCEPT ![a] = [id |-> i, revision |-> agents[i].revision + 1]]
    BY <1>4, <2>3, <2>4
  <2>. QED
    BY <1>4, <2>1, <2>2, <2>5, AuthorKeepsAgents
<1>5. ASSUME NEW with \in BOOLEAN,
             \/ \E d \in Definitions : UpdateDefinition(a, d, with)
             \/ UpdateEnabled(a, with) \/ Archive(a, with)
      PROVE  AgentsInv'
  <2>1. reads[a] # NULL /\ UNCHANGED <<allowed, publishing>>
    BY <1>5 DEF UpdateDefinition, UpdateEnabled, Archive, Known
  <2>2. PICK i \in 1 .. Len(agents) : i = reads[a].id
    BY <2>1 DEF AgentsInv, ReadStands
  <2>3. PICK prior \in Rows : prior = agents[i] /\ prior.revision \in Nat
    BY <1>1
  <2>4. prior.revision + 1 \in Nat /\ (~prior.enabled) \in BOOLEAN
    BY <2>3
  <2>5. CASE \E d \in Definitions : UpdateDefinition(a, d, with)
    <3>1. PICK d \in Definitions : UpdateDefinition(a, d, with)
      BY <2>5
    <3>2. PICK entry : entry = [prior EXCEPT !.draft = d, !.revision = prior.revision + 1]
      OBVIOUS
    <3>3. entry \in Rows /\ entry.revision = prior.revision + 1
      BY <2>4, <3>2 DEF Rows
    <3>4. /\ agents' = [agents EXCEPT ![i].draft = d, ![i].revision = @ + 1]
          /\ reads' = [reads EXCEPT ![a].revision = agents[i].revision + 1]
      BY <2>2, <3>1 DEF UpdateDefinition
    <3>5. agents' = [agents EXCEPT ![i] = entry]
      BY <2>3, <3>2, <3>4 DEF AgentsInv, Rows
    <3>. QED
      BY <1>4, <2>1, <2>2, <2>3, <3>3, <3>4, <3>5
  <2>6. CASE UpdateEnabled(a, with)
    <3>1. PICK entry : entry = [prior EXCEPT !.enabled = ~prior.enabled, !.revision = prior.revision + 1]
      OBVIOUS
    <3>2. entry \in Rows /\ entry.revision = prior.revision + 1
      BY <2>4, <3>1 DEF Rows
    <3>3. /\ agents' = [agents EXCEPT ![i].enabled = ~@, ![i].revision = @ + 1]
          /\ reads' = [reads EXCEPT ![a].revision = agents[i].revision + 1]
      BY <2>2, <2>6 DEF UpdateEnabled
    <3>4. agents' = [agents EXCEPT ![i] = entry]
      BY <2>3, <3>1, <3>3 DEF AgentsInv, Rows
    <3>. QED
      BY <1>4, <2>1, <2>2, <2>3, <3>2, <3>3, <3>4
  <2>7. CASE Archive(a, with)
    <3>1. PICK entry : entry = [prior EXCEPT !.live = FALSE, !.enabled = FALSE, !.revision = prior.revision + 1]
      OBVIOUS
    <3>2. entry \in Rows /\ entry.revision = prior.revision + 1
      BY <2>4, <3>1 DEF Rows
    <3>3. agents' = [agents EXCEPT ![i].live = FALSE, ![i].enabled = FALSE, ![i].revision = @ + 1]
          /\ reads' = reads
      BY <2>2, <2>7 DEF Archive
    <3>4. agents' = [agents EXCEPT ![i] = entry]
      BY <2>3, <3>1, <3>3 DEF AgentsInv, Rows
    <3>. QED
      BY <1>4, <2>1, <2>2, <2>3, <3>2, <3>3, <3>4
  <2>. QED
    BY <1>5, <2>5, <2>6, <2>7
<1>. QED
  BY <1>2, <1>3, <1>5

(* The publish requests of the other authors, and the reads, stand as before. *)
LEMMA PublishingChanges ==
    ASSUME AgentsInv, RowsGoOn, NEW a \in Authors, UNCHANGED reads,
           NEW p \in [id : Nat, expected : Nat \cup {NULL}] \cup {NULL},
           publishing' = [publishing EXCEPT ![a] = p], CheckStands(a)'
    PROVE  AgentsInv'
<1>1. publishing' \in [Authors -> [id : Nat, expected : Nat \cup {NULL}] \cup {NULL}]
  BY DEF AgentsInv
<1>2. ASSUME NEW b \in Authors PROVE ReadStands(b)' /\ CheckStands(b)'
  <2>1. reads'[b] = reads[b] /\ (b # a => publishing'[b] = publishing[b])
    BY DEF AgentsInv
  <2>. QED
    BY <2>1, RowsGoOnKeeps
<1>. QED
  BY <1>1, <1>2 DEF AgentsInv, RowsGoOn

LEMMA CheckKeepsAgents ==
    ASSUME AgentsInv, NEW a \in Authors, NEW with \in BOOLEAN, PublishCheck(a, with)
    PROVE  AgentsInv'
<1>1. /\ reads[a] # NULL /\ ValidDefinition(a, agents[reads[a].id].draft)
      /\ publishing' = [publishing EXCEPT ![a] = [id |-> reads[a].id, expected |-> IfMatch(a, with)]]
      /\ UNCHANGED <<agents, allowed, reads>>
  BY DEF PublishCheck, Known
<1>2. PICK r \in [id : Nat, revision : Nat] : r = reads[a]
  BY <1>1 DEF AgentsInv
<1>3. r.id \in 1 .. Len(agents) /\ r.revision <= agents[r.id].revision
  BY <1>1, <1>2 DEF AgentsInv, ReadStands
<1>4. PICK p : p = [id |-> r.id, expected |-> IfMatch(a, with)]
  OBVIOUS
<1>5. /\ p \in [id : Nat, expected : Nat \cup {NULL}] /\ p.id = r.id
      /\ p.expected # NULL => p.expected = r.revision
  BY <1>2, <1>4 DEF IfMatch
<1>6. publishing' = [publishing EXCEPT ![a] = p]
  BY <1>1, <1>2, <1>4
<1>7. publishing'[a] = p
  BY <1>6 DEF AgentsInv
<1>8. ValidDefinition(a, agents'[p.id].draft)
  BY <1>1, <1>2, <1>5
<1>9. ValidDefinition(a, agents[p.id].draft)'
  BY <1>1, <1>8 DEF ValidDefinition, WithinPolicy, Grantable
<1>10. CheckStands(a)'
  BY <1>1, <1>3, <1>5, <1>7, <1>9 DEF CheckStands
<1>. QED
  BY <1>1, <1>5, <1>6, <1>10, StillRows, PublishingChanges

LEMMA PublishKeepsAgents ==
    ASSUME AgentsInv, NEW a \in Authors, Publish(a)
    PROVE  AgentsInv'
<1>1. /\ publishing[a] # NULL /\ UNCHANGED <<allowed, reads>>
      /\ publishing' = [publishing EXCEPT ![a] = NULL]
  BY DEF Publish
<1>2. PICK p \in [id : Nat, expected : Nat \cup {NULL}] : p = publishing[a]
  BY <1>1 DEF AgentsInv
<1>3. /\ p.id \in 1 .. Len(agents)
      /\ p.expected # NULL /\ p.expected = agents[p.id].revision
           => ValidDefinition(a, agents[p.id].draft)
  BY <1>1, <1>2 DEF AgentsInv, CheckStands
<1>4. agents' = IF Matches(p.id, p.expected)
                THEN [agents EXCEPT ![p.id] = Published(@, a, p.expected # NULL)] ELSE agents
  BY <1>2 DEF Publish
<1>5. RowsGoOn
  <2>1. CASE ~Matches(p.id, p.expected)
    BY <1>1, <1>4, <2>1, StillRows
  <2>2. CASE Matches(p.id, p.expected)
    <3>1. PICK prior \in Rows : prior = agents[p.id]
      BY <1>3, RowTypes DEF AgentsInv
    <3>2. PICK matched \in BOOLEAN : matched = (p.expected # NULL)
      OBVIOUS
    <3>3. PICK entry : entry = Published(prior, a, matched)
      OBVIOUS
    <3>4. matched => prior.draft.model \in allowed /\ Grantable(a, prior.draft)
      BY <1>3, <2>2, <3>1, <3>2 DEF Matches, ValidDefinition, WithinPolicy
    <3>5. entry \in Rows /\ entry.revision = prior.revision + 1
      BY <3>3, <3>4, PublishedRow DEF AgentsInv
    <3>6. agents' = [agents EXCEPT ![p.id] = entry]
      BY <1>3, <1>4, <2>2, <3>1, <3>2, <3>3 DEF AgentsInv
    <3>. QED
      BY <1>1, <1>3, <3>1, <3>5, <3>6, ReplacedRow
  <2>. QED
    BY <2>1, <2>2
<1>6. publishing'[a] = NULL
  BY <1>1 DEF AgentsInv
<1>7. CheckStands(a)'
  BY <1>6 DEF CheckStands
<1>. QED
  BY <1>1, <1>5, <1>7, PublishingChanges

(* The boot that makes sure of the built-in agent, and the one that restarts. *)
LEMMA StillAuthors ==
    ASSUME AgentsInv, RowsGoOn, UNCHANGED <<reads, publishing>>
    PROVE  AgentsInv'
BY RowsGoOnKeeps DEF AgentsInv, RowsGoOn

LEMMA BuiltinKeepsAgents ==
    ASSUME AgentsInv, EnsureBuiltin \/ PublishBuiltin
    PROVE  AgentsInv'
<1>1. UNCHANGED <<allowed, reads, publishing>> /\ allowed \subseteq Models
  BY DEF AgentsInv, EnsureBuiltin, PublishBuiltin
<1>2. CASE EnsureBuiltin
  <2>1. CASE UNCHANGED agents
    BY <1>1, <2>1, StillRows, StillAuthors
  <2>2. CASE ~UNCHANGED agents
    <3>1. /\ allowed # {}
          /\ agents' = Append(agents, Row([model |-> CHOOSE m \in allowed : TRUE, needs |-> FALSE], "builtin"))
      BY <1>2, <2>2 DEF EnsureBuiltin
    <3>2. PICK d : d = [model |-> CHOOSE m \in allowed : TRUE, needs |-> FALSE]
      OBVIOUS
    <3>3. d \in Definitions
      BY <1>1, <3>1, <3>2 DEF Definitions
    <3>4. PICK entry \in Rows : entry = Row(d, "builtin")
      BY <3>3, NewRow
    <3>5. agents' = Append(agents, entry)
      BY <3>1, <3>2, <3>4
    <3>6. RowsGoOn
      BY <1>1, <3>5, AppendedRow
    <3>. QED
      BY <1>1, <3>6, StillAuthors
  <2>. QED
    BY <2>1, <2>2
<1>3. CASE PublishBuiltin
  <2>1. agents' = [i \in 1 .. Len(agents) |->
                     IF i \in Builtin THEN Published(agents[i], System, FALSE) ELSE agents[i]]
    BY <1>3 DEF PublishBuiltin
  <2>2. Len(agents) \in Nat /\ \A i \in 1 .. Len(agents) : agents[i] \in Rows /\ agents[i].revision \in Nat
    BY RowTypes DEF AgentsInv
  <2>3. \A i \in 1 .. Len(agents) : /\ Published(agents[i], System, FALSE) \in Rows
                                    /\ Published(agents[i], System, FALSE).revision = agents[i].revision + 1
    BY <1>1, <2>2, PublishedRow
  <2>4. agents' \in Seq(Rows) /\ Len(agents') = Len(agents)
    <3>1. \A i \in 1 .. Len(agents) :
            (IF i \in Builtin THEN Published(agents[i], System, FALSE) ELSE agents[i]) \in Rows
      BY <2>2, <2>3
    <3>2. agents' \in [1 .. Len(agents) -> Rows]
      BY <2>1, <3>1
    <3>. QED
      BY <2>2, <3>2, SeqDef
  <2>5. ASSUME NEW i \in 1 .. Len(agents)
        PROVE  /\ agents[i].revision <= agents'[i].revision
               /\ agents'[i].revision = agents[i].revision => agents'[i].draft = agents[i].draft
    <3>1. CASE i \in Builtin
      <4>1. agents'[i] = Published(agents[i], System, FALSE)
        BY <2>1, <3>1
      <4>2. agents'[i].revision = agents[i].revision + 1 /\ agents[i].revision \in Nat
        BY <2>2, <2>3, <4>1
      <4>. QED
        BY <4>2
    <3>2. CASE i \notin Builtin
      <4>1. agents'[i] = agents[i] /\ agents[i].revision \in Nat
        BY <2>1, <2>2, <3>2
      <4>. QED
        BY <4>1
    <3>. QED
      BY <3>1, <3>2
  <2>6. RowsGoOn
    BY <1>1, <2>2, <2>4, <2>5 DEF RowsGoOn
  <2>. QED
    BY <1>1, <2>6, StillAuthors
<1>. QED
  BY <1>2, <1>3

LEMMA RestartKeepsAgents ==
    ASSUME AgentsInv, NEW ms \in SUBSET Models, RestartWith(ms)
    PROVE  AgentsInv'
BY DEF RestartWith, AgentsInv, ReadStands, CheckStands

LEMMA AgentsStep == AgentsInv /\ (AgentsNext \/ UNCHANGED agentVars) => AgentsInv'
<1> SUFFICES ASSUME AgentsInv, AgentsNext \/ UNCHANGED agentVars PROVE AgentsInv'
  OBVIOUS
<1>1. CASE UNCHANGED agentVars
  BY <1>1, StillRows, StillAuthors DEF agentVars
<1>. QED
  BY <1>1, AuthorEdits, CheckKeepsAgents, PublishKeepsAgents, BuiltinKeepsAgents, RestartKeepsAgents
  DEF AgentsNext

(* A version published under If-Match is a definition that was allowed then,  *)
(* with no grant its publisher lacks, whoever edited in between.              *)
THEOREM PublishedAreAllowed == Spec => []PublishedWasAllowed
<1> DEFINE Inv == part = "agents" => AgentsInv
<1>1. Init => Inv
  BY AgentsInitInv DEF Init
<1>2. Inv /\ [Next]_vars => Inv'
  BY PartKept, PartSteps, AgentsStep
<1>3. Inv => PublishedWasAllowed
  <2> SUFFICES ASSUME AgentsInv, NEW i \in 1 .. Len(agents), NEW k \in 1 .. Len(agents[i].versions),
                      agents[i].versions[k].matched
               PROVE  /\ agents[i].versions[k].def.model \in agents[i].versions[k].offered
                      /\ Grantable(agents[i].versions[k].by, agents[i].versions[k].def)
    BY DEF PublishedWasAllowed
  <2>1. agents[i] \in Rows
    BY RowTypes DEF AgentsInv
  <2>2. agents[i].versions \in Seq(AllowedVersions)
    BY <2>1 DEF Rows
  <2>3. agents[i].versions[k] \in AllowedVersions
    BY <2>2, ElementOfSeq
  <2>. QED
    BY <2>3 DEF AllowedVersions
<1>. QED
  BY <1>1, <1>2, <1>3, PTL DEF Spec

-----------------------------------------------------------------------------
(* THE DRAWER.  The hash of a poll is of the connector it read, so a request *)
(* carries the hash of what its form was filled from; a save that applies    *)
(* finds exactly that.                                                       *)
DrawerRows == [scope : Values, settings : Values, life : Nat]
Polls == [row : DrawerRows, hash : DrawerRows]
Drawers == [row : DrawerRows, hash : DrawerRows, runs : Nat]
Drafts == [now : Values \cup {NULL}, was : Values \cup {NULL}]
Sent ==
    [op : DrawerTabs \cup {"delete"}, value : Values \cup {NULL}, saw : DrawerRows,
     match : DrawerRows, answer : {NULL, "ok", "conflict", "not found"}, open : BOOLEAN]

PollIsWhole(a) == polling[a] # NULL => polling[a].row = polling[a].hash
FormIsShown(a) ==
    drawer[a] # NULL =>
        /\ drawer[a].row = drawer[a].hash
        /\ \A t \in DrawerTabs : draft[a][t].now \in Values /\ draft[a][t].was = drawer[a].row[t]
RequestIsOfShown(a) ==
    sent[a] # NULL => /\ sent[a].saw = sent[a].match
                      /\ sent[a].op \in DrawerTabs => sent[a].value \in Values

DrawerInv ==
    /\ row \in DrawerRows \cup {NULL} /\ life \in Nat /\ runsKept \in Nat /\ ~unseen
    /\ polling \in [Admins -> Polls \cup {NULL}]
    /\ drawer \in [Admins -> Drawers \cup {NULL}]
    /\ draft \in [Admins -> [DrawerTabs -> Drafts]]
    /\ sent \in [Admins -> Sent \cup {NULL}]
    /\ \A a \in Admins : PollIsWhole(a) /\ FormIsShown(a) /\ RequestIsOfShown(a)

LEMMA DrawerInitInv == DrawerInit => DrawerInv
<1>1. NoDraft \in [DrawerTabs -> Drafts]
  BY DEF NoDraft, Drafts
<1>. QED
  BY <1>1 DEF DrawerInit, DrawerInv, DrawerRows, Values, PollIsWhole, FormIsShown, RequestIsOfShown

(* The answer to a poll fills the form again where the connector is another. *)
LEMMA GetKeepsDrawer ==
    ASSUME DrawerInv, NEW a \in Admins, GetLands(a)
    PROVE  DrawerInv'
<1>1. PICK get \in Polls : get = polling[a] /\ get.row = get.hash
  BY DEF GetLands, DrawerInv, PollIsWhole
<1>2. PICK new : new = [row |-> get.row, hash |-> get.hash, runs |-> runsKept]
  OBVIOUS
<1>3. /\ new \in Drawers /\ new.row = new.hash
      /\ new.row.scope \in Values /\ new.row.settings \in Values
  BY <1>1, <1>2 DEF Drawers, Polls, DrawerRows, DrawerInv
<1>4. /\ drawer' = [drawer EXCEPT ![a] = new] /\ Reset(a, new)
      /\ polling' = [polling EXCEPT ![a] = NULL]
      /\ UNCHANGED <<row, life, runsKept, sent, unseen>>
  BY <1>1, <1>2 DEF GetLands, Etag
<1>5. PICK s : s = IF ResetScope(drawer[a], new)
                   THEN [now |-> new.row["scope"], was |-> new.row["scope"]] ELSE draft[a].scope
  OBVIOUS
<1>6. PICK e : e = IF ResetSettings(drawer[a], new)
                   THEN [now |-> new.row["settings"], was |-> new.row["settings"]]
                   ELSE draft[a].settings
  OBVIOUS
<1>7. PICK d : d = [scope |-> s, settings |-> e]
  OBVIOUS
<1>8. draft' = [draft EXCEPT ![a] = d]
  BY <1>4, <1>5, <1>6, <1>7 DEF Reset, DrawerInv
<1>9. draft[a] \in [DrawerTabs -> Drafts]
  BY DEF DrawerInv
<1>10. s \in Drafts /\ s.now \in Values /\ s.was = new.row["scope"]
  <2>1. CASE ResetScope(drawer[a], new)
    BY <1>3, <1>5, <2>1 DEF Drafts
  <2>2. CASE ~ResetScope(drawer[a], new)
    <3>1. /\ drawer[a] # NULL /\ drawer[a].row.scope = new.row.scope /\ s = draft[a]["scope"]
      BY <1>5, <2>2 DEF ResetScope
    <3>2. s.now \in Values /\ s.was = drawer[a].row["scope"] /\ s \in Drafts
      BY <1>9, <3>1 DEF DrawerInv, FormIsShown, DrawerTabs
    <3>. QED
      BY <3>1, <3>2
  <2>. QED
    BY <2>1, <2>2
<1>11. e \in Drafts /\ e.now \in Values /\ e.was = new.row["settings"]
  <2>1. CASE ResetSettings(drawer[a], new)
    BY <1>3, <1>6, <2>1 DEF Drafts
  <2>2. CASE ~ResetSettings(drawer[a], new)
    <3>1. drawer[a] # NULL /\ drawer[a].row = new.row /\ e = draft[a]["settings"]
      BY <1>6, <2>2 DEF ResetSettings
    <3>2. e.now \in Values /\ e.was = drawer[a].row["settings"] /\ e \in Drafts
      BY <1>9, <3>1 DEF DrawerInv, FormIsShown, DrawerTabs
    <3>. QED
      BY <3>1, <3>2
  <2>. QED
    BY <2>1, <2>2
<1>12. d \in [DrawerTabs -> Drafts] /\ d["scope"] = s /\ d["settings"] = e
  BY <1>7, <1>10, <1>11 DEF DrawerTabs
<1>13. /\ polling' \in [Admins -> Polls \cup {NULL}] /\ drawer' \in [Admins -> Drawers \cup {NULL}]
       /\ draft' \in [Admins -> [DrawerTabs -> Drafts]]
  BY <1>3, <1>4, <1>8, <1>12 DEF DrawerInv
<1>14. ASSUME NEW b \in Admins PROVE PollIsWhole(b)' /\ FormIsShown(b)' /\ RequestIsOfShown(b)'
  <2>1. CASE b = a
    <3>1. drawer'[a] = new /\ draft'[a] = d /\ polling'[a] = NULL /\ sent'[a] = sent[a]
      BY <1>4, <1>8 DEF DrawerInv
    <3>2. \A t \in DrawerTabs : d[t].now \in Values /\ d[t].was = new.row[t]
      BY <1>10, <1>11, <1>12 DEF DrawerTabs
    <3>. QED
      BY <1>3, <2>1, <3>1, <3>2 DEF DrawerInv, PollIsWhole, FormIsShown, RequestIsOfShown
  <2>2. CASE b # a
    <3>1. drawer'[b] = drawer[b] /\ draft'[b] = draft[b] /\ polling'[b] = polling[b] /\ sent'[b] = sent[b]
      BY <1>4, <1>8, <2>2 DEF DrawerInv
    <3>. QED
      BY <3>1 DEF DrawerInv, PollIsWhole, FormIsShown, RequestIsOfShown
  <2>. QED
    BY <2>1, <2>2
<1>. QED
  BY <1>4, <1>13, <1>14 DEF DrawerInv

(* The other steps of an admin fill or empty the form, never refill it.      *)
LEMMA FormKeepsDrawer ==
    ASSUME DrawerInv, NEW a \in Admins,
           \/ GetConnector(a) \/ SyncNow(a)
           \/ \E t \in DrawerTabs, v \in Values : EditDraft(a, t, v)
    PROVE  DrawerInv'
<1>1. CASE GetConnector(a)
  <2>1. PICK get : get = [row |-> row, hash |-> row]
    OBVIOUS
  <2>2. get \in Polls /\ get.row = get.hash
    BY <1>1, <2>1 DEF GetConnector, Polls, DrawerInv
  <2>3. /\ polling' = [polling EXCEPT ![a] = get]
        /\ UNCHANGED <<row, life, runsKept, drawer, draft, sent, unseen>>
    BY <1>1, <2>1 DEF GetConnector
  <2>4. \A b \in Admins : polling'[b] = get \/ polling'[b] = polling[b]
    BY <2>3 DEF DrawerInv
  <2>. QED
    BY <2>2, <2>3, <2>4 DEF DrawerInv, PollIsWhole, FormIsShown, RequestIsOfShown
<1>2. CASE SyncNow(a)
  <2>1. /\ polling' = [polling EXCEPT ![a] = NULL]
        /\ UNCHANGED <<row, life, runsKept, drawer, draft, sent, unseen>>
    BY <1>2 DEF SyncNow
  <2>2. \A b \in Admins : polling'[b] = NULL \/ polling'[b] = polling[b]
    BY <2>1 DEF DrawerInv
  <2>. QED
    BY <2>1, <2>2 DEF DrawerInv, PollIsWhole, FormIsShown, RequestIsOfShown
<1>3. ASSUME NEW t \in DrawerTabs, NEW v \in Values, EditDraft(a, t, v) PROVE DrawerInv'
  <2>1. /\ drawer[a] # NULL /\ draft' = [draft EXCEPT ![a][t].now = v]
        /\ UNCHANGED <<row, life, runsKept, drawer, polling, sent, unseen>>
    BY <1>3 DEF EditDraft
  <2>2. PICK d : d = [draft[a][t] EXCEPT !.now = v]
    OBVIOUS
  <2>3. draft[a] \in [DrawerTabs -> Drafts] /\ draft[a][t] \in Drafts
    BY DEF DrawerInv
  <2>4. d \in Drafts /\ d.now = v /\ d.was = draft[a][t].was
    BY <2>2, <2>3 DEF Drafts
  <2>5. PICK sheet : sheet = [draft[a] EXCEPT ![t] = d]
    OBVIOUS
  <2>6. /\ sheet \in [DrawerTabs -> Drafts] /\ sheet[t] = d
        /\ \A u \in DrawerTabs : u # t => sheet[u] = draft[a][u]
    BY <2>3, <2>4, <2>5
  <2>7. draft' = [draft EXCEPT ![a] = sheet]
    BY <2>1, <2>2, <2>5
  <2>8. draft' \in [Admins -> [DrawerTabs -> Drafts]]
    BY <2>6, <2>7 DEF DrawerInv
  <2>9. ASSUME NEW b \in Admins PROVE FormIsShown(b)'
    <3>1. CASE b = a
      <4>1. draft'[a] = sheet /\ drawer'[a] = drawer[a]
        BY <2>1, <2>7 DEF DrawerInv
      <4>2. \A u \in DrawerTabs : /\ draft[a][u].now \in Values
                                  /\ draft[a][u].was = drawer[a].row[u]
        BY <2>1 DEF DrawerInv, FormIsShown
      <4>3. \A u \in DrawerTabs : sheet[u].now \in Values /\ sheet[u].was = drawer[a].row[u]
        BY <2>4, <2>6, <4>2
      <4>. QED
        BY <2>1, <3>1, <4>1, <4>3 DEF DrawerInv, FormIsShown
    <3>2. CASE b # a
      <4>1. draft'[b] = draft[b] /\ drawer'[b] = drawer[b]
        BY <2>1, <2>7, <3>2 DEF DrawerInv
      <4>. QED
        BY <4>1 DEF DrawerInv, FormIsShown
    <3>. QED
      BY <3>1, <3>2
  <2>. QED
    BY <2>1, <2>8, <2>9 DEF DrawerInv, PollIsWhole, RequestIsOfShown
<1>. QED
  BY <1>1, <1>2, <1>3

(* One request is sent, answered or orphaned; everything else rests.         *)
LEMMA SentKeepsDrawer ==
    ASSUME DrawerInv, NEW a \in Admins, NEW s \in Sent \cup {NULL},
           sent' = [sent EXCEPT ![a] = s],
           s # NULL => s.saw = s.match /\ (s.op \in DrawerTabs => s.value \in Values),
           row' \in DrawerRows \cup {NULL}, runsKept' \in Nat, ~unseen',
           UNCHANGED <<life, drawer, draft, polling>>
    PROVE  DrawerInv'
<1>1. sent' \in [Admins -> Sent \cup {NULL}] /\ \A b \in Admins : sent'[b] = s \/ sent'[b] = sent[b]
  BY DEF DrawerInv
<1>. QED
  BY <1>1 DEF DrawerInv, PollIsWhole, FormIsShown, RequestIsOfShown

LEMMA RequestKeepsDrawer ==
    ASSUME DrawerInv, NEW a \in Admins,
           DeleteConnector(a) \/ \E t \in DrawerTabs : Save(a, t)
    PROVE  DrawerInv'
<1>1. ASSUME DeleteConnector(a) PROVE DrawerInv'
  <2>1. drawer[a] # NULL /\ UNCHANGED <<row, life, runsKept, drawer, draft, polling, unseen>>
    BY <1>1 DEF DeleteConnector, Request
  <2>2. PICK d \in Drawers : d = drawer[a] /\ d.row = d.hash
    BY <2>1 DEF DrawerInv, FormIsShown
  <2>3. PICK s : s = [op |-> "delete", value |-> NULL, saw |-> d.row, match |-> d.hash,
                      answer |-> NULL, open |-> TRUE]
    OBVIOUS
  <2>4. s \in Sent /\ s.saw = s.match /\ s.op \notin DrawerTabs
    BY <2>2, <2>3 DEF Sent, Drawers, DrawerTabs
  <2>5. sent' = [sent EXCEPT ![a] = s]
    BY <1>1, <2>2, <2>3 DEF DeleteConnector, Request
  <2>6. row' \in DrawerRows \cup {NULL} /\ runsKept' \in Nat /\ ~unseen'
    BY <2>1 DEF DrawerInv
  <2>. QED
    BY <2>1, <2>4, <2>5, <2>6, SentKeepsDrawer
<1>2. ASSUME NEW t \in DrawerTabs, Save(a, t) PROVE DrawerInv'
  <2>1. drawer[a] # NULL /\ UNCHANGED <<row, life, runsKept, drawer, draft, polling, unseen>>
    BY <1>2 DEF Save, Request
  <2>2. PICK d \in Drawers : d = drawer[a] /\ d.row = d.hash
    BY <2>1 DEF DrawerInv, FormIsShown
  <2>3. draft[a][t].now \in Values /\ draft[a][t].was = d.row[t]
    BY <2>1, <2>2 DEF DrawerInv, FormIsShown
  <2>4. [d.row EXCEPT ![t] = draft[a][t].was] = d.row
    BY <2>2, <2>3 DEF Drawers, DrawerRows, DrawerTabs
  <2>5. PICK s : s = [op |-> t, value |-> draft[a][t].now, saw |-> d.row, match |-> d.hash,
                      answer |-> NULL, open |-> TRUE]
    OBVIOUS
  <2>6. s \in Sent /\ s.saw = s.match /\ s.value \in Values
    BY <2>2, <2>3, <2>5 DEF Sent, Drawers
  <2>7. sent' = [sent EXCEPT ![a] = s]
    BY <1>2, <2>2, <2>4, <2>5 DEF Save, Request
  <2>8. row' \in DrawerRows \cup {NULL} /\ runsKept' \in Nat /\ ~unseen'
    BY <2>1 DEF DrawerInv
  <2>. QED
    BY <2>1, <2>6, <2>7, <2>8, SentKeepsDrawer
<1>. QED
  BY <1>1, <1>2

LEMMA ServerKeepsDrawer ==
    ASSUME DrawerInv, NEW a \in Admins, Refused(a) \/ PatchApplies(a) \/ DeleteApplies(a)
    PROVE  DrawerInv'
<1>1. sent[a] # NULL /\ UNCHANGED <<life, drawer, draft, polling>>
  BY DEF Refused, PatchApplies, DeleteApplies
<1>2. PICK s \in Sent : s = sent[a]
  BY <1>1 DEF DrawerInv
<1>3. s.saw = s.match /\ (s.op \in DrawerTabs => s.value \in Values)
  BY <1>1, <1>2 DEF DrawerInv, RequestIsOfShown
<1>4. PICK answer \in {"ok", "conflict", "not found"} : AnswerIs(a, answer)
  BY DEF Refused, PatchApplies, DeleteApplies
<1>5. PICK r : r = [s EXCEPT !.answer = answer]
  OBVIOUS
<1>6. r \in Sent /\ r.saw = r.match /\ (r.op \in DrawerTabs => r.value \in Values)
  BY <1>3, <1>5 DEF Sent
<1>7. sent' = [sent EXCEPT ![a] = r]
  BY <1>2, <1>4, <1>5 DEF AnswerIs
<1>8. row' \in DrawerRows \cup {NULL} /\ runsKept' \in Nat /\ ~unseen'
  <2>1. CASE Refused(a)
    BY <2>1 DEF Refused, DrawerInv
  <2>2. CASE PatchApplies(a)
    <3>1. /\ s.op \in DrawerTabs /\ row # NULL /\ row = s.match /\ UNCHANGED runsKept
          /\ row' = [row EXCEPT ![s.op] = s.value]
          /\ unseen' = (unseen \/ row[s.op] # s.saw[s.op])
      BY <1>2, <2>2 DEF PatchApplies
    <3>2. row \in DrawerRows /\ s.value \in Values
      BY <1>3, <3>1 DEF DrawerInv
    <3>3. row' \in DrawerRows
      BY <3>1, <3>2 DEF DrawerRows, DrawerTabs
    <3>. QED
      BY <1>3, <3>1, <3>3 DEF DrawerInv
  <2>3. CASE DeleteApplies(a)
    BY <1>2, <1>3, <2>3 DEF DeleteApplies, DrawerInv
  <2>. QED
    BY <2>1, <2>2, <2>3
<1>. QED
  BY <1>1, <1>6, <1>7, <1>8, SentKeepsDrawer

(* An answer that lands, and a drawer that closes, empty what they do not keep. *)
LEMMA EmptiedKeepsDrawer ==
    ASSUME DrawerInv, NEW a \in Admins, NEW s \in Sent \cup {NULL},
           sent' = [sent EXCEPT ![a] = s],
           s # NULL => s.saw = s.match /\ (s.op \in DrawerTabs => s.value \in Values),
           polling' = polling \/ polling' = [polling EXCEPT ![a] = NULL],
           \/ UNCHANGED <<drawer, draft>>
           \/ drawer' = [drawer EXCEPT ![a] = NULL] /\ draft' = [draft EXCEPT ![a] = NoDraft],
           UNCHANGED <<row, life, runsKept, unseen>>
    PROVE  DrawerInv'
<1>1. NoDraft \in [DrawerTabs -> Drafts]
  BY DEF NoDraft, Drafts
<1>2. /\ sent' \in [Admins -> Sent \cup {NULL}] /\ polling' \in [Admins -> Polls \cup {NULL}]
      /\ drawer' \in [Admins -> Drawers \cup {NULL}] /\ draft' \in [Admins -> [DrawerTabs -> Drafts]]
  BY <1>1 DEF DrawerInv
<1>3. ASSUME NEW b \in Admins
      PROVE  /\ sent'[b] = s \/ sent'[b] = sent[b]
             /\ polling'[b] = NULL \/ polling'[b] = polling[b]
             /\ drawer'[b] = NULL \/ (drawer'[b] = drawer[b] /\ draft'[b] = draft[b])
  <2>1. CASE b = a
    BY <2>1 DEF DrawerInv
  <2>2. CASE b # a
    BY <2>2 DEF DrawerInv
  <2>. QED
    BY <2>1, <2>2
<1>. QED
  BY <1>2, <1>3 DEF DrawerInv, PollIsWhole, FormIsShown, RequestIsOfShown

LEMMA EndingKeepsDrawer ==
    ASSUME DrawerInv, NEW a \in Admins, AnswerLands(a) \/ Close(a)
    PROVE  DrawerInv'
<1>1. UNCHANGED <<row, life, runsKept, unseen>>
  BY DEF AnswerLands, Close
<1>2. CASE AnswerLands(a)
  <2>1. /\ sent' = [sent EXCEPT ![a] = NULL]
        /\ polling' = polling \/ polling' = [polling EXCEPT ![a] = NULL]
    BY <1>2 DEF AnswerLands
  <2>2. \/ UNCHANGED <<drawer, draft>>
        \/ drawer' = [drawer EXCEPT ![a] = NULL] /\ draft' = [draft EXCEPT ![a] = NoDraft]
    BY <1>2 DEF AnswerLands
  <2>3. NULL \in Sent \cup {NULL}
    OBVIOUS
  <2>. QED
    BY <1>1, <2>1, <2>2, <2>3, EmptiedKeepsDrawer
<1>3. CASE Close(a)
  <2>1. PICK s : s = IF sent[a] = NULL THEN NULL ELSE [sent[a] EXCEPT !.open = FALSE]
    OBVIOUS
  <2>2. /\ sent' = [sent EXCEPT ![a] = s] /\ UNCHANGED polling
        /\ drawer' = [drawer EXCEPT ![a] = NULL] /\ draft' = [draft EXCEPT ![a] = NoDraft]
    BY <1>3, <2>1 DEF Close, DrawerInv
  <2>3. /\ s \in Sent \cup {NULL}
        /\ s # NULL => s.saw = s.match /\ (s.op \in DrawerTabs => s.value \in Values)
    <3>1. CASE sent[a] = NULL
      BY <2>1, <3>1
    <3>2. CASE sent[a] # NULL
      <4>1. PICK r \in Sent : r = sent[a]
        BY <3>2 DEF DrawerInv
      <4>2. r.saw = r.match /\ (r.op \in DrawerTabs => r.value \in Values)
        BY <3>2, <4>1 DEF DrawerInv, RequestIsOfShown
      <4>3. s = [r EXCEPT !.open = FALSE]
        BY <2>1, <3>2, <4>1
      <4>. QED
        BY <4>2, <4>3 DEF Sent
    <3>. QED
      BY <3>1, <3>2
  <2>. QED
    BY <1>1, <2>2, <2>3, EmptiedKeepsDrawer
<1>. QED
  BY <1>2, <1>3

LEMMA DrawerStep == DrawerInv /\ (DrawerNext \/ UNCHANGED drawerVars) => DrawerInv'
<1> SUFFICES ASSUME DrawerInv, DrawerNext \/ UNCHANGED drawerVars PROVE DrawerInv'
  OBVIOUS
<1>1. CASE UNCHANGED drawerVars
  BY <1>1 DEF drawerVars, DrawerInv, PollIsWhole, FormIsShown, RequestIsOfShown
<1>2. CASE RunRecorded
  BY <1>2 DEF RunRecorded, DrawerInv, PollIsWhole, FormIsShown, RequestIsOfShown
<1>3. CASE CreateAgain
  <2>1. row' \in DrawerRows /\ life' \in Nat
    BY <1>3 DEF CreateAgain, DrawerInv, DrawerRows, Values
  <2>. QED
    BY <1>3, <2>1 DEF CreateAgain, DrawerInv, PollIsWhole, FormIsShown, RequestIsOfShown
<1>4. ASSUME NEW a \in Admins, NEW t \in DrawerTabs, Save(a, t) \/ \E v \in Values : EditDraft(a, t, v)
      PROVE  DrawerInv'
  BY <1>4, RequestKeepsDrawer, FormKeepsDrawer
<1>5. ASSUME NEW a \in Admins,
             \/ GetConnector(a) \/ GetLands(a) \/ DeleteConnector(a) \/ Refused(a)
             \/ PatchApplies(a) \/ DeleteApplies(a) \/ AnswerLands(a) \/ SyncNow(a) \/ Close(a)
      PROVE  DrawerInv'
  BY <1>5, FormKeepsDrawer, GetKeepsDrawer, RequestKeepsDrawer, ServerKeepsDrawer, EndingKeepsDrawer
<1>. QED
  BY <1>1, <1>2, <1>3, <1>4, <1>5 DEF DrawerNext

(* However many drawers are open on a connector, a save or a delete replaces  *)
(* only values its admin's form was filled from.                              *)
THEOREM SavesReplaceWhatWasShown == Spec => []SavesWhatWasShown
<1> DEFINE Inv == part = "drawer" => DrawerInv
<1>1. Init => Inv
  BY DrawerInitInv DEF Init
<1>2. Inv /\ [Next]_vars => Inv'
  BY PartKept, PartSteps, DrawerStep
<1>3. Inv => SavesWhatWasShown
  BY DEF DrawerInv, SavesWhatWasShown
<1>. QED
  BY <1>1, <1>2, <1>3, PTL DEF Spec

-----------------------------------------------------------------------------
(* ONBOARDING.  The route that renames holds what is in the file, unless the *)
(* api-server may write it in between; a seed that is at an item has put all *)
(* the items before it into the graph, which only grows.                     *)
FileContents == [identity : Visitors \cup {NULL}, instances : BOOLEAN]
Wrote(g, next) == \A i \in 1 .. Len(Demo) : i < next => Demo[i] \in g

OnboardingInv ==
    /\ config \in FileContents \cup {NULL}
    /\ writing \in [by : Visitors, read : FileContents] \cup {NULL}
    /\ writing # NULL => writing.read = config
    /\ "saved" \in kept => config \in FileContents /\ config.identity \in Visitors
    /\ "instances" \in kept => config \in FileContents /\ config.instances
    /\ seedRuns \in [Seeds -> [for : Visitors \cup {NULL}, next : Nat, late : BOOLEAN]]
    /\ \A s \in Seeds : Wrote(graph, seedRuns[s].next)
    /\ "loaded" \in kept => Wrote(graph, Len(Demo) + 1)

LEMMA OnboardingInitInv == OnboardingInit => OnboardingInv
<1> SUFFICES ASSUME OnboardingInit PROVE OnboardingInv
  OBVIOUS
<1>1. NoSeed \in [for : Visitors \cup {NULL}, next : Nat, late : BOOLEAN] /\ NoSeed.next = 0
  BY DEF NoSeed
<1>2. Len(Demo) \in Nat
  BY OnboardingAssumption
<1>3. Wrote(graph, 0)
  BY <1>2 DEF Wrote
<1>. QED
  BY <1>1, <1>3 DEF OnboardingInit, OnboardingInv, FileContents

(* The checkout and the file.                                                *)
LEMMA FileKeepsOnboarding ==
    ASSUME OnboardingInv, ~BothWrite,
           \/ FileGoes \/ DirectoryLocks \/ InstancesSaved \/ Rename
           \/ \E v \in Visitors : WriteTemp(v)
    PROVE  OnboardingInv'
<1>1. UNCHANGED <<graph, seedRuns>>
  BY DEF FileGoes, DirectoryLocks, Checkout, InstancesSaved, Rename, WriteTemp
<1>2. \A n : Wrote(graph, n) => Wrote(graph', n)
  BY <1>1 DEF Wrote
<1>3. CASE FileGoes \/ DirectoryLocks
  BY <1>1, <1>2, <1>3 DEF FileGoes, DirectoryLocks, Checkout, OnboardingInv
<1>4. CASE InstancesSaved
  <2>1. PICK c \in FileContents : c = config
    BY <1>4 DEF InstancesSaved, OnboardingInv
  <2>2. PICK d : d = [c EXCEPT !.instances = TRUE]
    OBVIOUS
  <2>3. d \in FileContents /\ d.identity = c.identity /\ d.instances
    BY <2>2 DEF FileContents
  <2>4. config' = d /\ writing = NULL /\ UNCHANGED writing /\ kept' = kept \cup {"instances"}
    BY <1>4, <2>1, <2>2 DEF InstancesSaved
  <2>. QED
    BY <1>1, <1>2, <2>1, <2>3, <2>4 DEF OnboardingInv
<1>5. CASE Rename
  <2>1. PICK w \in [by : Visitors, read : FileContents] : w = writing
    BY <1>5 DEF Rename, OnboardingInv
  <2>2. PICK d : d = [w.read EXCEPT !.identity = w.by]
    OBVIOUS
  <2>3. d \in FileContents /\ d.identity \in Visitors /\ d.instances = w.read.instances
    BY <2>2 DEF FileContents
  <2>4. config' = d /\ writing' = NULL /\ w.read = config
    BY <1>5, <2>1, <2>2 DEF Rename, Renamed, OnboardingInv
  <2>5. kept' = kept \/ kept' = kept \cup {"saved"}
    BY <1>5 DEF Rename
  <2>. QED
    BY <1>1, <1>2, <2>3, <2>4, <2>5 DEF OnboardingInv
<1>6. ASSUME NEW v \in Visitors, WriteTemp(v) PROVE OnboardingInv'
  <2>1. PICK w : w = [by |-> v, read |-> config]
    OBVIOUS
  <2>2. config \in FileContents
    BY <1>6 DEF WriteTemp, OnboardingInv
  <2>3. writing' = w /\ UNCHANGED <<config, kept>>
    BY <1>6, <2>1 DEF WriteTemp
  <2>. QED
    BY <1>1, <1>2, <2>1, <2>2, <2>3 DEF OnboardingInv
<1>. QED
  BY <1>3, <1>4, <1>5, <1>6

(* The seeds, whose graph only grows.                                        *)
SeedRecords == [for : Visitors \cup {NULL}, next : Nat, late : BOOLEAN]

LEMMA SeedsKeepOnboarding ==
    ASSUME OnboardingInv, graph \subseteq graph', UNCHANGED config,
           writing' = writing \/ writing' = NULL, kept' \subseteq kept \cup {"loaded"},
           "loaded" \in kept' => "loaded" \in kept \/ Wrote(graph, Len(Demo) + 1),
           seedRuns' \in [Seeds -> SeedRecords],
           \A s \in Seeds : Wrote(graph', seedRuns'[s].next)
    PROVE  OnboardingInv'
<1>1. \A n : Wrote(graph, n) => Wrote(graph', n)
  BY DEF Wrote
<1>. QED
  BY <1>1 DEF OnboardingInv, SeedRecords

LEMMA SeedGoesOn ==
    ASSUME OnboardingInv, NEW s \in Seeds, NEW r \in SeedRecords, graph \subseteq graph',
           seedRuns' = [seedRuns EXCEPT ![s] = r], Wrote(graph', r.next),
           UNCHANGED <<config, writing>>, kept' \subseteq kept \cup {"loaded"},
           "loaded" \in kept' => "loaded" \in kept \/ Wrote(graph, Len(Demo) + 1)
    PROVE  OnboardingInv'
<1>1. seedRuns' \in [Seeds -> SeedRecords]
  BY DEF OnboardingInv, SeedRecords
<1>2. ASSUME NEW o \in Seeds PROVE Wrote(graph', seedRuns'[o].next)
  <2>1. CASE o = s
    BY <2>1 DEF OnboardingInv
  <2>2. CASE o # s
    <3>1. seedRuns'[o] = seedRuns[o] /\ Wrote(graph, seedRuns[o].next)
      BY <2>2 DEF OnboardingInv
    <3>. QED
      BY <3>1 DEF Wrote
  <2>. QED
    BY <2>1, <2>2
<1>. QED
  BY <1>1, <1>2, SeedsKeepOnboarding

LEMMA SpawnKeepsOnboarding ==
    ASSUME OnboardingInv, NEW v \in Visitors, SpawnSeed(v)
    PROVE  OnboardingInv'
<1>1. PICK s \in Seeds : seedRuns' = [seedRuns EXCEPT ![s] = [for |-> v, next |-> 1, late |-> FALSE]]
  BY DEF SpawnSeed
<1>2. PICK r : r = [for |-> v, next |-> 1, late |-> FALSE]
  OBVIOUS
<1>3. r \in SeedRecords /\ r.next = 1
  BY <1>2 DEF SeedRecords
<1>4. UNCHANGED <<graph, config, writing, kept>>
  BY DEF SpawnSeed
<1>5. Wrote(graph', 1)
  BY OnboardingAssumption DEF Wrote
<1>6. seedRuns' = [seedRuns EXCEPT ![s] = r]
  BY <1>1, <1>2
<1>. QED
  BY <1>3, <1>4, <1>5, <1>6, SeedGoesOn

LEMMA WriteKeepsOnboarding ==
    ASSUME OnboardingInv, NEW s \in Seeds, SeedWrites(s)
    PROVE  OnboardingInv'
<1>1. PICK r \in SeedRecords : r = seedRuns[s]
  BY DEF OnboardingInv, SeedRecords
<1>2. /\ r.next \in 1 .. Len(Demo) /\ graph' = Written(Demo[r.next])
      /\ seedRuns' = [seedRuns EXCEPT ![s].next = @ + 1]
      /\ UNCHANGED <<config, writing, kept>>
  BY <1>1, OnboardingAssumption DEF SeedWrites
<1>3. Wrote(graph, r.next)
  BY <1>1 DEF OnboardingInv
<1>4. graph' = graph \cup {Demo[r.next]}
  <2>1. CASE Demo[r.next][1] = "edge"
    <3>1. {<<"node", Demo[r.next][2]>>, <<"node", Demo[r.next][3]>>}
             \subseteq {Demo[j] : j \in 1 .. r.next - 1}
      BY <1>2, <2>1, OnboardingAssumption
    <3>2. \A j \in 1 .. r.next - 1 : j \in 1 .. Len(Demo) /\ j < r.next
      BY <1>2, OnboardingAssumption
    <3>3. {Demo[j] : j \in 1 .. r.next - 1} \subseteq graph
      BY <1>3, <3>2 DEF Wrote
    <3>. QED
      BY <1>2, <3>1, <3>3 DEF Written
  <2>2. CASE Demo[r.next][1] # "edge"
    BY <1>2, <2>2 DEF Written
  <2>. QED
    BY <2>1, <2>2
<1>5. PICK t : t = [r EXCEPT !.next = r.next + 1]
  OBVIOUS
<1>6. t \in SeedRecords /\ t.next = r.next + 1
  BY <1>2, <1>5, OnboardingAssumption DEF SeedRecords
<1>7. seedRuns' = [seedRuns EXCEPT ![s] = t]
  BY <1>1, <1>2, <1>5 DEF OnboardingInv
<1>8. ASSUME NEW i \in 1 .. Len(Demo), i < r.next + 1 PROVE Demo[i] \in graph'
  <2>1. i < r.next \/ i = r.next
    BY <1>2, <1>8, OnboardingAssumption
  <2>. QED
    BY <1>3, <1>4, <2>1 DEF Wrote
<1>9. Wrote(graph', t.next)
  BY <1>6, <1>8 DEF Wrote
<1>. QED
  BY <1>2, <1>4, <1>6, <1>7, <1>9, SeedGoesOn

LEMMA TimeoutKeepsOnboarding ==
    ASSUME OnboardingInv, NEW s \in Seeds, SeedTimesOut(s)
    PROVE  OnboardingInv'
<1>1. PICK r \in SeedRecords : r = seedRuns[s]
  BY DEF OnboardingInv, SeedRecords
<1>2. PICK t : t = [r EXCEPT !.late = TRUE]
  OBVIOUS
<1>3. t \in SeedRecords /\ t.next = r.next
  BY <1>2 DEF SeedRecords
<1>4. seedRuns' = [seedRuns EXCEPT ![s] = t] /\ UNCHANGED <<graph, config, writing, kept>>
  BY <1>1, <1>2 DEF SeedTimesOut, OnboardingInv
<1>5. Wrote(graph', t.next)
  BY <1>1, <1>3, <1>4 DEF OnboardingInv
<1>. QED
  BY <1>3, <1>4, <1>5, SeedGoesOn

LEMMA NothingWrote == Wrote(graph, 0) /\ NoSeed \in SeedRecords /\ NoSeed.next = 0
BY OnboardingAssumption DEF Wrote, NoSeed, SeedRecords

LEMMA EndKeepsOnboarding ==
    ASSUME OnboardingInv, NEW s \in Seeds, SeedEnds(s) \/ SeedFails(s)
    PROVE  OnboardingInv'
<1>1. /\ seedRuns' = [seedRuns EXCEPT ![s] = NoSeed] /\ UNCHANGED <<graph, config, writing>>
      /\ kept' = kept \/ kept' = kept \cup {"loaded"}
  BY DEF SeedEnds, SeedFails, SeedAnswers
<1>2. "loaded" \in kept' => "loaded" \in kept \/ Wrote(graph, Len(Demo) + 1)
  <2>1. CASE SeedEnds(s)
    <3>1. PICK r \in SeedRecords : r = seedRuns[s]
      BY DEF OnboardingInv, SeedRecords
    <3>2. r.next > Len(Demo) /\ Wrote(graph, r.next) /\ r.next \in Nat
      BY <2>1, <3>1 DEF SeedEnds, OnboardingInv, SeedRecords
    <3>3. \A i \in 1 .. Len(Demo) : i < r.next
      BY <3>2, OnboardingAssumption
    <3>. QED
      BY <3>2, <3>3 DEF Wrote
  <2>2. CASE SeedFails(s)
    BY <2>2 DEF SeedFails, SeedAnswers
  <2>. QED
    BY <2>1, <2>2
<1>3. NoSeed \in SeedRecords /\ Wrote(graph', NoSeed.next)
  BY <1>1, NothingWrote
<1>. QED
  BY <1>1, <1>2, <1>3, SeedGoesOn

LEMMA BreaksKeepOnboarding ==
    ASSUME OnboardingInv, ServersRestart \/ \E v \in Visitors : ConnectionBreaks(v)
    PROVE  OnboardingInv'
<1>1. UNCHANGED <<graph, config, kept>> /\ (writing' = writing \/ writing' = NULL)
  BY DEF ServersRestart, ConnectionBreaks
<1>2. \A s \in Seeds : \A r \in SeedRecords :
         r = seedRuns[s] => [r EXCEPT !.for = NULL] \in SeedRecords /\ [r EXCEPT !.for = NULL].next = r.next
  BY DEF SeedRecords
<1>3. \A s \in Seeds : seedRuns[s] \in SeedRecords /\ Wrote(graph, seedRuns[s].next)
  BY DEF OnboardingInv, SeedRecords
<1>4. DOMAIN seedRuns' = Seeds /\ seedRuns' = [s \in Seeds |-> seedRuns'[s]]
  BY DEF ServersRestart, ConnectionBreaks
<1>5. \A s \in Seeds : \/ seedRuns'[s] = NoSeed \/ seedRuns'[s] = seedRuns[s]
                       \/ seedRuns'[s] = [seedRuns[s] EXCEPT !.for = NULL]
  BY DEF ServersRestart, ConnectionBreaks
<1>6. \A s \in Seeds : seedRuns'[s] \in SeedRecords /\ Wrote(graph', seedRuns'[s].next)
  BY <1>1, <1>2, <1>3, <1>5, NothingWrote
<1>7. seedRuns' \in [Seeds -> SeedRecords]
  BY <1>4, <1>6
<1>. QED
  BY <1>1, <1>6, <1>7, SeedsKeepOnboarding

(* What changes neither the file, the graph, the seeds nor what was reported, *)
(* and what only adds to the graph.                                           *)
LEMMA RestKeepsOnboarding ==
    ASSUME OnboardingInv, graph \subseteq graph', UNCHANGED <<config, writing, seedRuns, kept>>
    PROVE  OnboardingInv'
<1>1. \A n : Wrote(graph, n) => Wrote(graph', n)
  BY DEF Wrote
<1>. QED
  BY <1>1 DEF OnboardingInv

LEMMA OnboardingStep ==
    ~BothWrite /\ OnboardingInv /\ (OnboardingNext \/ UNCHANGED onboardingVars) => OnboardingInv'
<1> SUFFICES ASSUME ~BothWrite, OnboardingInv, OnboardingNext \/ UNCHANGED onboardingVars
             PROVE  OnboardingInv'
  OBVIOUS
<1>1. CASE UNCHANGED onboardingVars
  BY <1>1, RestKeepsOnboarding DEF onboardingVars
<1>2. CASE Neo4jGoes \/ Neo4jComes \/ SyncWrites
  <2>1. graph \subseteq graph' /\ UNCHANGED <<config, writing, seedRuns, kept>>
    BY <1>2 DEF Neo4jGoes, Neo4jComes, SyncWrites, Infra
  <2>. QED
    BY <2>1, RestKeepsOnboarding
<1>3. ASSUME NEW v \in Visitors,
             \/ LoadPage(v) \/ FillIn(v) \/ WantsSeed(v) \/ StepForward(v) \/ StepBackward(v)
             \/ DontShowAgain(v) \/ PastedByHand(v) \/ ProbeGraph(v) \/ StatusLands(v)
             \/ SaveIdentity(v) \/ IdentityFails(v)
      PROVE  OnboardingInv'
  <2>1. \E d : Only(v, d)
    BY <1>3 DEF LoadPage, FillIn, WantsSeed, StepForward, StepBackward, DontShowAgain,
                PastedByHand, ProbeGraph, StatusLands, SaveIdentity, IdentityFails
  <2>2. UNCHANGED <<graph, config, writing, seedRuns, kept>>
    BY <2>1 DEF Only
  <2>. QED
    BY <2>2, RestKeepsOnboarding
<1>. QED
  BY <1>1, <1>2, <1>3, FileKeepsOnboarding, SpawnKeepsOnboarding, WriteKeepsOnboarding,
     TimeoutKeepsOnboarding, EndKeepsOnboarding, BreaksKeepOnboarding DEF OnboardingNext

(* What a dialog reported is so, as long as the api-server does not write the *)
(* file between the route's reading and renaming it: see BothWrite.           *)
THEOREM ReportsAreTrue == ~BothWrite /\ Spec => []ReportedIsDone
<1> DEFINE Inv == part = "onboarding" => OnboardingInv
<1>1. ASSUME ~BothWrite
      PROVE  Spec => []ReportedIsDone
  <2>1. Init => Inv
    BY OnboardingInitInv DEF Init
  <2>2. Inv /\ [Next]_vars => Inv'
    BY <1>1, PartKept, PartSteps, OnboardingStep
  <2>3. Inv => ReportedIsDone
    <3> SUFFICES ASSUME OnboardingInv
                 PROVE  /\ "loaded" \in kept => {Demo[i] : i \in DOMAIN Demo} \subseteq graph
                        /\ "saved" \in kept => config.identity # NULL
                        /\ "instances" \in kept => config.instances
      BY DEF ReportedIsDone
    <3>1. Len(Demo) \in Nat /\ DOMAIN Demo = 1 .. Len(Demo) /\ NULL \notin Visitors
      BY OnboardingAssumption
    <3>2. \A i \in 1 .. Len(Demo) : i < Len(Demo) + 1
      BY <3>1
    <3>3. Wrote(graph, Len(Demo) + 1) => {Demo[i] : i \in DOMAIN Demo} \subseteq graph
      BY <3>1, <3>2 DEF Wrote
    <3>. QED
      BY <3>1, <3>3 DEF OnboardingInv
  <2>. QED
    BY <2>1, <2>2, <2>3, PTL DEF Spec
<1>. QED
  BY <1>1

-----------------------------------------------------------------------------
(* KUBERNETES.  The cells of a run are in order, so that what lies before the *)
(* cell it is at has been listed; a run that neither failed nor was warned    *)
(* has listed, when it ends, every cell of its scope.                         *)
LEMMA LeastNatural ==
    ASSUME NEW S \in SUBSET Nat, S # {}
    PROVE  \E m \in S : \A k \in S : m <= k
<1> DEFINE R == {ss \in Nat \X Nat : ss[1] < ss[2]}
<1>1. IsWellFoundedOn(R, Nat)
  BY NatLessThanWellFounded DEF OpToRel
<1> HIDE DEF R
<1>2. PICK m \in S : \A k \in S : ~(<<k, m>> \in R)
  BY <1>1, WFMin
<1>3. \A k \in S : ~(k < m)
  BY <1>2 DEF R
<1>. QED
  BY <1>3

CellOf(w) == <<w[1], w[2]>>
Cells == Spaces \X Kinds

LEMMA CellTypes ==
    /\ Spaces \subseteq Nat /\ Kinds \subseteq Nat
    /\ \A w \in Workloads : CellOf(w) \in Cells /\ w[1] \in Spaces /\ w[2] \in Kinds /\ w[3] \in Nat
BY KubernetesAssumption DEF Spaces, Kinds, Cells, CellOf

LEMMA BeforeIsOrder ==
    ASSUME NEW c \in Cells, NEW d \in Cells
    PROVE  /\ Before(c, d) \/ Before(d, c) \/ c = d
           /\ ~(Before(c, d) /\ Before(d, c)) /\ ~Before(c, c)
<1>1. c[1] \in Nat /\ c[2] \in Nat /\ d[1] \in Nat /\ d[2] \in Nat
  BY CellTypes DEF Cells
<1>2. c = <<c[1], c[2]>> /\ d = <<d[1], d[2]>>
  BY DEF Cells
<1>3. c[1] = d[1] /\ c[2] = d[2] => c = d
  BY <1>2
<1>. QED
  BY <1>1, <1>3 DEF Before

LEMMA LeastCell ==
    ASSUME NEW S \in SUBSET Cells, S # {}
    PROVE  \E d \in S : \A o \in S \ {d} : Before(d, o)
<1>1. PICK m \in {d[1] : d \in S} : \A k \in {d[1] : d \in S} : m <= k
  <2>1. {d[1] : d \in S} \in SUBSET Nat /\ {d[1] : d \in S} # {}
    BY CellTypes DEF Cells
  <2>. QED
    BY <2>1, LeastNatural
<1>2. PICK T : T = {d \in S : d[1] = m}
  OBVIOUS
<1>3. T # {}
  BY <1>2
<1>4. PICK l \in {d[2] : d \in T} : \A k \in {d[2] : d \in T} : l <= k
  <2>1. {d[2] : d \in T} \in SUBSET Nat /\ {d[2] : d \in T} # {}
    BY <1>2, <1>3, CellTypes DEF Cells
  <2>. QED
    BY <2>1, LeastNatural
<1>5. PICK d \in T : d[2] = l
  OBVIOUS
<1>6. d \in S /\ d[1] = m
  BY <1>2
<1>7. ASSUME NEW o \in S \ {d} PROVE Before(d, o)
  <2>1. d \in Cells /\ o \in Cells
    BY <1>6
  <2>2. d[1] \in Nat /\ d[2] \in Nat /\ o[1] \in Nat /\ o[2] \in Nat
    BY <2>1, CellTypes DEF Cells
  <2>3. d[1] <= o[1]
    BY <1>1, <1>6
  <2>4. ~(o[1] = d[1] /\ o[2] = d[2])
    <3>1. d = <<d[1], d[2]>> /\ o = <<o[1], o[2]>>
      BY <2>1 DEF Cells
    <3>. QED
      BY <3>1
  <2>5. o[1] = d[1] => d[2] <= o[2]
    BY <1>2, <1>4, <1>5, <1>6
  <2>. QED
    BY <2>2, <2>3, <2>4, <2>5 DEF Before
<1>. QED
  BY <1>6, <1>7

(* What a run keeps about the workloads S that stand and the nodes n.         *)
Passed(r, w) ==
    r.doing = "ending" \/ (r.doing \in {"listing", "paging"} /\ Before(CellOf(w), r.cell))
RunStands(r, S, n) ==
    /\ S \subseteq InScope(r.scope)
    /\ \A w \in r.seen : n[w] # NULL /\ ~n[w].absent
    /\ r.forbidden # {} => r.warned
    /\ r.doing = "namespaces" => r.cell = NULL /\ r.seen = {}
    /\ r.doing \in {"listing", "paging"} => r.cell \in Cells
    /\ r.doing # "namespaces" /\ ~r.failed => r.spaces = Spaces \ r.scope.excluded
    /\ ~r.failed => \A w \in S : w[2] \notin r.forbidden =>
          /\ Passed(r, w) => w \in r.seen
          /\ r.doing = "paging" /\ CellOf(w) = r.cell => w \in r.seen \cup r.rest

LEMMA AdvanceStands ==
    ASSUME NEW r \in RunStates, NEW S, NEW n, S \subseteq InScope(r.scope),
           \A w \in r.seen : n[w] # NULL /\ ~n[w].absent,
           r.forbidden # {} => r.warned,
           ~r.failed => r.spaces = Spaces \ r.scope.excluded,
           ~r.failed => \A w \in S :
               /\ w[2] \notin r.forbidden /\ r.cell # NULL
               /\ Before(CellOf(w), r.cell) \/ CellOf(w) = r.cell
               => w \in r.seen
    PROVE  /\ Advance(r) \in RunStates /\ RunStands(Advance(r), S, n)
           /\ Advance(r).doing # "namespaces"
<1>1. PICK left : left = CellsAfter(r, r.cell)
  OBVIOUS
<1>2. left \in SUBSET Cells
  BY <1>1 DEF CellsAfter, Cells, RunStates, Clusters
<1>3. \A w \in S : w \in Workloads /\ w[1] \notin r.scope.excluded /\ w[2] \in r.scope.kinds
  BY DEF InScope
<1>4. ASSUME ~r.failed, NEW w \in S, w[2] \notin r.forbidden, CellOf(w) \notin left
      PROVE  w \in r.seen
  <2>1. CellOf(w) \in r.spaces \X r.scope.kinds /\ CellOf(w)[2] = w[2] /\ CellOf(w) \in Cells
    BY <1>3, <1>4, CellTypes DEF CellOf
  <2>2. r.cell # NULL /\ ~Before(r.cell, CellOf(w))
    BY <1>1, <1>4, <2>1 DEF CellsAfter
  <2>3. r.cell \in Cells
    BY <2>2 DEF RunStates, Cells
  <2>. QED
    BY <1>4, <2>1, <2>2, <2>3, BeforeIsOrder
<1>5. CASE left = {}
  <2>1. Advance(r) = [r EXCEPT !.doing = "ending"]
    BY <1>1, <1>5 DEF Advance
  <2>2. PICK t : t = [r EXCEPT !.doing = "ending"]
    OBVIOUS
  <2>3. /\ t \in RunStates /\ t.doing = "ending" /\ t.scope = r.scope /\ t.seen = r.seen
        /\ t.forbidden = r.forbidden /\ t.warned = r.warned /\ t.failed = r.failed
        /\ t.spaces = r.spaces
    BY <2>2 DEF RunStates
  <2>4. RunStands(t, S, n)
    BY <1>4, <1>5, <2>3 DEF RunStands
  <2>. QED
    BY <2>1, <2>2, <2>3, <2>4
<1>6. CASE left # {}
  <2>1. PICK d : d = CHOOSE e \in left : \A o \in left \ {e} : Before(e, o)
    OBVIOUS
  <2>2. d \in left /\ \A o \in left \ {d} : Before(d, o)
    BY <1>2, <1>6, <2>1, LeastCell
  <2>3. PICK t : t = [r EXCEPT !.doing = "listing", !.rest = {}, !.cell = d]
    OBVIOUS
  <2>4. Advance(r) = t
    BY <1>1, <1>6, <2>1, <2>3 DEF Advance
  <2>5. /\ t \in RunStates /\ t.doing = "listing" /\ t.scope = r.scope /\ t.seen = r.seen
        /\ t.forbidden = r.forbidden /\ t.warned = r.warned /\ t.failed = r.failed
        /\ t.spaces = r.spaces /\ t.cell = d
    BY <1>2, <2>2, <2>3 DEF RunStates, Cells
  <2>6. ASSUME ~r.failed, NEW w \in S, w[2] \notin r.forbidden, Before(CellOf(w), d)
        PROVE  w \in r.seen
    <3>1. CellOf(w) \in Cells /\ d \in Cells
      BY <1>2, <1>3, <2>2, CellTypes
    <3>2. CellOf(w) \notin left
      BY <2>2, <2>6, <3>1, BeforeIsOrder
    <3>. QED
      BY <1>4, <2>6, <3>2
  <2>7. RunStands(t, S, n)
    BY <1>2, <2>2, <2>5, <2>6 DEF RunStands, Passed
  <2>. QED
    BY <2>4, <2>5, <2>7
<1>. QED
  BY <1>5, <1>6

Picks == (SUBSET Kinds) \cup {NULL}
WizardTypes ==
    /\ file \in Accounts \cup {NULL}
    /\ wizard \in [at : {"access", "connect", "configure", "review"},
                   access : {NULL, "in-cluster", "file"}, probe : Picks, picked : Picks]
    /\ wizard.at \in {"configure", "review"} => wizard.probe # NULL
    /\ cluster \in Clusters \cup {NULL}
KubernetesTypes ==
    /\ exists \subseteq Workloads /\ crashed \subseteq Workloads /\ standing \subseteq exists
    /\ WizardTypes
    /\ run \in RunStates \cup {NULL}
    /\ node \in [Workloads -> NodeStates \cup {NULL}]
KubernetesInv ==
    /\ KubernetesTypes
    /\ run # NULL => RunStands(run, standing, node)
    /\ run = NULL /\ outcome = "success" => \A w \in standing : node[w] # NULL /\ ~node[w].absent

LEMMA KubernetesInitInv == KubernetesInit => KubernetesInv
BY DEF KubernetesInit, KubernetesInv, KubernetesTypes, WizardTypes, NoWizard, Picks

(* The cluster changes: what goes no longer stands.                           *)
LEMMA FewerStand ==
    ASSUME NEW r, NEW S, NEW n, RunStands(r, S, n), NEW T \in SUBSET S
    PROVE  RunStands(r, T, n)
BY DEF RunStands

LEMMA ClusterKeepsKubernetes ==
    ASSUME KubernetesInv,
           \/ \E w \in Workloads : WorkloadCreated(w) \/ WorkloadDeleted(w) \/ PodRestarts(w)
           \/ \E a \in Accounts : RoleChanges(a)
    PROVE  KubernetesInv'
<1>1. UNCHANGED <<file, wizard, cluster, run, node, outcome>>
  BY DEF WorkloadCreated, WorkloadDeleted, PodRestarts, RoleChanges
<1>2. /\ standing' \subseteq standing /\ standing' \subseteq exists'
      /\ exists' \subseteq Workloads /\ crashed' \subseteq Workloads
  BY DEF WorkloadCreated, WorkloadDeleted, PodRestarts, RoleChanges, KubernetesInv, KubernetesTypes
<1>3. run # NULL => RunStands(run, standing', node)
  BY <1>2, FewerStand DEF KubernetesInv
<1>. QED
  BY <1>1, <1>2, <1>3 DEF KubernetesInv, KubernetesTypes, WizardTypes

(* The wizard and the connector it makes.                                     *)
LEMMA EffectiveKindsArePicked ==
    ASSUME KubernetesTypes, wizard.at \in {"configure", "review"}
    PROVE  EffectiveKinds \in SUBSET Kinds
BY DEF KubernetesTypes, WizardTypes, EffectiveKinds, Picks

LEMMA WizardKeepsKubernetes ==
    ASSUME KubernetesInv,
           \/ \E a \in Accounts : StoreCredentials(a)
           \/ \E k \in Kinds : ToggleKind(k)
           \/ RunProbe \/ WizardGoesOn \/ WizardGoesBack \/ ConnectCluster \/ ScopeChanges
    PROVE  KubernetesInv'
<1>1. UNCHANGED <<exists, crashed, run, node, standing, outcome>>
  BY DEF StoreCredentials, ToggleKind, RunProbe, WizardGoesOn, WizardGoesBack, ConnectCluster,
         ScopeChanges
<1>2. SUFFICES WizardTypes'
  BY <1>1 DEF KubernetesInv, KubernetesTypes
<1>3. PICK w : w = wizard
  OBVIOUS
<1>4. /\ w \in [at : {"access", "connect", "configure", "review"},
                access : {NULL, "in-cluster", "file"}, probe : Picks, picked : Picks]
      /\ w.at \in {"configure", "review"} => w.probe # NULL
      /\ file \in Accounts \cup {NULL} /\ cluster \in Clusters \cup {NULL}
  BY <1>3 DEF KubernetesInv, KubernetesTypes, WizardTypes
<1>5. ASSUME NEW a \in Accounts, StoreCredentials(a) PROVE WizardTypes'
  <2>1. wizard' = [w EXCEPT !.at = "connect", !.access = IF a = Pod THEN "in-cluster" ELSE "file"]
    BY <1>3, <1>5 DEF StoreCredentials
  <2>. QED
    BY <1>4, <1>5, <2>1 DEF StoreCredentials, WizardTypes
<1>6. ASSUME NEW k \in Kinds, ToggleKind(k) PROVE WizardTypes'
  <2>1. EffectiveKinds \in SUBSET Kinds
    BY <1>6, EffectiveKindsArePicked DEF ToggleKind, KubernetesInv
  <2>2. PICK p \in SUBSET Kinds : p = (EffectiveKinds \ {k}) \cup ({k} \ EffectiveKinds)
    BY <2>1
  <2>3. wizard' = [w EXCEPT !.picked = p] /\ p \in Picks
    BY <1>3, <1>6, <2>2 DEF ToggleKind, Picks
  <2>. QED
    BY <1>4, <1>6, <2>3 DEF ToggleKind, WizardTypes
<1>7. ASSUME RunProbe PROVE WizardTypes'
  <2>1. PICK p : wizard' = [w EXCEPT !.probe = p] /\ p \in Picks
    <3>1. \A s : Probed(s) \in Picks
      BY DEF Probed, Picks
    <3>. QED
      BY <1>3, <1>7, <3>1 DEF RunProbe
  <2>2. w.at = "connect"
    BY <1>3, <1>7 DEF RunProbe
  <2>. QED
    BY <1>4, <1>7, <2>1, <2>2 DEF RunProbe, WizardTypes
<1>8. ASSUME WizardGoesOn PROVE WizardTypes'
  <2>1. \/ w.probe # NULL /\ wizard' = [w EXCEPT !.at = "configure"]
        \/ w.at = "configure" /\ wizard' = [w EXCEPT !.at = "review"]
    BY <1>3, <1>8 DEF WizardGoesOn
  <2>. QED
    BY <1>4, <1>8, <2>1 DEF WizardGoesOn, WizardTypes
<1>9. ASSUME WizardGoesBack PROVE WizardTypes'
  <2>1. wizard' = [w EXCEPT !.at = "access"]
    BY <1>3, <1>9 DEF WizardGoesBack
  <2>. QED
    BY <1>4, <1>9, <2>1 DEF WizardGoesBack, WizardTypes
<1>10. ASSUME ConnectCluster PROVE WizardTypes'
  <2>1. EffectiveKinds \in SUBSET Kinds
    BY <1>10, EffectiveKindsArePicked DEF ConnectCluster, KubernetesInv
  <2>2. cluster' = [access |-> w.access, kinds |-> EffectiveKinds, excluded |-> {}]
    BY <1>3, <1>10 DEF ConnectCluster
  <2>3. cluster' \in Clusters
    BY <1>4, <2>1, <2>2 DEF Clusters
  <2>. QED
    BY <1>3, <1>4, <1>10, <2>3 DEF ConnectCluster, WizardTypes
<1>11. ASSUME ScopeChanges PROVE WizardTypes'
  <2>1. PICK c \in Clusters : c = cluster
    BY <1>4, <1>11 DEF ScopeChanges
  <2>2. PICK s \in SUBSET Spaces : cluster' = [c EXCEPT !.excluded = s]
    BY <1>11, <2>1 DEF ScopeChanges
  <2>3. cluster' \in Clusters
    BY <2>2 DEF Clusters
  <2>. QED
    BY <1>3, <1>4, <1>11, <2>3 DEF ScopeChanges, WizardTypes
<1>. QED
  BY <1>5, <1>6, <1>7, <1>8, <1>9, <1>10, <1>11

(* A run.                                                                     *)
LEMMA RunGoesOn ==
    ASSUME KubernetesInv, NEW r \in RunStates, run' = r, RunStands(r, standing', node'),
           standing' \subseteq exists, node' \in [Workloads -> NodeStates \cup {NULL}],
           UNCHANGED <<exists, crashed, file, wizard, cluster>>
    PROVE  KubernetesInv'
BY KubernetesAssumption DEF KubernetesInv, KubernetesTypes, WizardTypes

LEMMA StartKeepsKubernetes ==
    ASSUME KubernetesInv, StartRun
    PROVE  KubernetesInv'
<1>1. PICK c \in Clusters : c = cluster
  BY DEF StartRun, KubernetesInv, KubernetesTypes, WizardTypes
<1>2. PICK account \in Accounts \cup {NULL} : account = AccountOf(c.access)
  BY KubernetesAssumption DEF AccountOf, KubernetesInv, KubernetesTypes, WizardTypes
<1>3. PICK r : r = [doing |-> "namespaces", account |-> account, scope |-> c,
                    spaces |-> {}, cell |-> NULL, rest |-> {}, forbidden |-> {}, unrolled |-> FALSE,
                    cache |-> NULL, warned |-> FALSE, failed |-> FALSE, seen |-> {}, crashed |-> crashed]
  OBVIOUS
<1>4. /\ r \in RunStates /\ r.doing = "namespaces" /\ r.scope = c /\ r.cell = NULL
      /\ r.seen = {} /\ r.forbidden = {}
  BY <1>3 DEF RunStates, KubernetesInv, KubernetesTypes
<1>5. /\ run' = r /\ standing' = exists \cap InScope(c)
      /\ UNCHANGED <<exists, crashed, file, wizard, cluster, node>>
  BY <1>1, <1>2, <1>3 DEF StartRun
<1>6. RunStands(r, standing', node')
  BY <1>4, <1>5 DEF RunStands, Passed
<1>. QED
  BY <1>4, <1>5, <1>6, RunGoesOn DEF KubernetesInv, KubernetesTypes

LEMMA ListKeepsKubernetes ==
    ASSUME KubernetesInv, ListNamespaces
    PROVE  KubernetesInv'
<1>1. PICK r \in RunStates : r = run /\ r.doing = "namespaces" /\ RunStands(r, standing, node)
  BY DEF ListNamespaces, KubernetesInv, KubernetesTypes
<1>2. PICK some \in SUBSET (Spaces \ r.scope.excluded) :
        RunGoesTo(Advance([r EXCEPT !.spaces = some,
                                    !.failed = ~(some = Spaces \ r.scope.excluded) \/ some = {}]))
  BY <1>1 DEF ListNamespaces
<1>3. PICK failed \in BOOLEAN : failed = (~(some = Spaces \ r.scope.excluded) \/ some = {})
  OBVIOUS
<1>4. PICK t : t = [r EXCEPT !.spaces = some, !.failed = failed]
  OBVIOUS
<1>5. /\ t \in RunStates /\ t.scope = r.scope /\ t.seen = r.seen /\ t.forbidden = r.forbidden
      /\ t.warned = r.warned /\ t.cell = r.cell /\ t.spaces = some /\ t.failed = failed
  BY <1>4 DEF RunStates
<1>6. run' = Advance(t) /\ UNCHANGED <<exists, crashed, file, wizard, cluster, standing, node>>
  BY <1>2, <1>3, <1>4 DEF RunGoesTo, ListNamespaces
<1>7. /\ standing \subseteq InScope(t.scope) /\ t.cell = NULL
      /\ \A w \in t.seen : node[w] # NULL /\ ~node[w].absent
      /\ t.forbidden # {} => t.warned
      /\ ~t.failed => t.spaces = Spaces \ t.scope.excluded
  BY <1>1, <1>3, <1>5 DEF RunStands
<1>8. Advance(t) \in RunStates /\ RunStands(Advance(t), standing, node)
  BY <1>5, <1>7, AdvanceStands
<1>. QED
  BY <1>6, <1>8, RunGoesOn DEF KubernetesInv, KubernetesTypes

LEMMA ForbiddenKeepsKubernetes ==
    ASSUME KubernetesInv, KindForbidden
    PROVE  KubernetesInv'
<1>1. PICK r \in RunStates : /\ r = run /\ r.doing \in {"listing", "paging"}
                             /\ RunStands(r, standing, node)
  BY DEF KindForbidden, KubernetesInv, KubernetesTypes
<1>2. r.cell \in Cells /\ r.cell[2] \in Kinds
  BY <1>1 DEF RunStands, Cells
<1>3. PICK t : t = [r EXCEPT !.forbidden = r.forbidden \cup {r.cell[2]}, !.warned = TRUE]
  OBVIOUS
<1>4. /\ t \in RunStates /\ t.scope = r.scope /\ t.seen = r.seen /\ t.warned
      /\ t.forbidden = r.forbidden \cup {r.cell[2]}
      /\ t.cell = r.cell /\ t.spaces = r.spaces /\ t.failed = r.failed
  BY <1>2, <1>3 DEF RunStates
<1>5. run' = Advance(t) /\ UNCHANGED <<exists, crashed, file, wizard, cluster, standing, node>>
  BY <1>1, <1>3 DEF RunGoesTo, KindForbidden
<1>6. ASSUME ~r.failed, NEW w \in standing, w[2] \notin t.forbidden,
             Before(CellOf(w), r.cell) \/ CellOf(w) = r.cell
      PROVE  w \in r.seen
  <2>1. CellOf(w) # r.cell
    BY <1>4, <1>6 DEF CellOf
  <2>. QED
    BY <1>1, <1>4, <1>6, <2>1 DEF RunStands, Passed
<1>7. /\ standing \subseteq InScope(t.scope)
      /\ \A w \in t.seen : node[w] # NULL /\ ~node[w].absent
      /\ ~t.failed => t.spaces = Spaces \ t.scope.excluded
  BY <1>1, <1>4 DEF RunStands
<1>8. ~t.failed => \A w \in standing :
         /\ w[2] \notin t.forbidden /\ t.cell # NULL
         /\ Before(CellOf(w), t.cell) \/ CellOf(w) = t.cell
         => w \in t.seen
  BY <1>4, <1>6
<1>9. Advance(t) \in RunStates /\ RunStands(Advance(t), standing, node)
  BY <1>4, <1>7, <1>8, AdvanceStands
<1>. QED
  BY <1>5, <1>9, RunGoesOn DEF KubernetesInv, KubernetesTypes

LEMMA FailKeepsKubernetes ==
    ASSUME KubernetesInv, FetchFails
    PROVE  KubernetesInv'
<1>1. PICK r \in RunStates : /\ r = run /\ r.doing \in {"listing", "paging"}
                             /\ RunStands(r, standing, node)
  BY DEF FetchFails, KubernetesInv, KubernetesTypes
<1>2. PICK t : t = [r EXCEPT !.doing = "ending", !.failed = TRUE]
  OBVIOUS
<1>3. /\ t \in RunStates /\ t.scope = r.scope /\ t.seen = r.seen /\ t.warned = r.warned
      /\ t.forbidden = r.forbidden /\ t.failed /\ t.doing = "ending"
  BY <1>2 DEF RunStates
<1>4. RunStands(t, standing, node)
  BY <1>1, <1>3 DEF RunStands
<1>5. run' = t /\ UNCHANGED <<exists, crashed, file, wizard, cluster, standing, node>>
  BY <1>1, <1>2 DEF RunGoesTo, FetchFails
<1>. QED
  BY <1>3, <1>4, <1>5, RunGoesOn DEF KubernetesInv, KubernetesTypes

LEMMA CacheTypes ==
    ASSUME KubernetesTypes, NEW r \in RunStates, r.cell \in Cells
    PROVE  /\ NamespaceCache(r) \in RunStates
           /\ NamespaceCache(r).doing = r.doing /\ NamespaceCache(r).scope = r.scope
           /\ NamespaceCache(r).seen = r.seen /\ NamespaceCache(r).rest = r.rest
           /\ NamespaceCache(r).forbidden = r.forbidden /\ NamespaceCache(r).failed = r.failed
           /\ NamespaceCache(r).cell = r.cell /\ NamespaceCache(r).spaces = r.spaces
           /\ r.warned => NamespaceCache(r).warned
<1>1. PICK pods : pods = [space |-> r.cell[1], crashed |-> {w \in crashed : w[1] = r.cell[1]}]
  OBVIOUS
<1>2. /\ pods \in [space : Spaces \cup {NULL}, crashed : SUBSET Workloads]
      /\ NoPods \in [space : Spaces \cup {NULL}, crashed : SUBSET Workloads]
  BY <1>1 DEF NoPods, Cells, KubernetesTypes
<1>3. PICK none : none = NoPods
  OBVIOUS
<1>4. \/ NamespaceCache(r) = r
      \/ NamespaceCache(r) = [r EXCEPT !.warned = TRUE, !.unrolled = TRUE, !.cache = none]
      \/ NamespaceCache(r) = [r EXCEPT !.cache = pods]
  BY <1>1, <1>3 DEF NamespaceCache
<1>5. CASE NamespaceCache(r) = r
  BY <1>5
<1>6. CASE NamespaceCache(r) = [r EXCEPT !.warned = TRUE, !.unrolled = TRUE, !.cache = none]
  <2>1. PICK t : t = [r EXCEPT !.warned = TRUE, !.unrolled = TRUE, !.cache = none]
    OBVIOUS
  <2>2. t \in RunStates
    BY <1>2, <1>3, <2>1 DEF RunStates
  <2>3. /\ t.doing = r.doing /\ t.scope = r.scope /\ t.seen = r.seen /\ t.rest = r.rest
        /\ t.forbidden = r.forbidden /\ t.failed = r.failed
    BY <2>1 DEF RunStates
  <2>4. t.cell = r.cell /\ t.spaces = r.spaces /\ t.warned
    BY <2>1 DEF RunStates
  <2>. QED
    BY <1>6, <2>1, <2>2, <2>3, <2>4
<1>7. CASE NamespaceCache(r) = [r EXCEPT !.cache = pods]
  BY <1>2, <1>7 DEF RunStates
<1>. QED
  BY <1>4, <1>5, <1>6, <1>7

LEMMA FirstOfList ==
    ASSUME NEW all \in SUBSET Workloads, all # {}
    PROVE  (CHOOSE w \in all : \A v \in all : w[3] <= v[3]) \in all
<1>1. {w[3] : w \in all} \in SUBSET Nat /\ {w[3] : w \in all} # {}
  BY CellTypes
<1>2. PICK m \in {w[3] : w \in all} : \A k \in {w[3] : w \in all} : m <= k
  BY <1>1, LeastNatural
<1>3. \E w \in all : \A v \in all : w[3] <= v[3]
  BY <1>2
<1>. QED
  BY <1>3

LEMMA PageKeepsKubernetes ==
    ASSUME KubernetesInv, FetchPage
    PROVE  KubernetesInv'
<1>1. PICK was \in RunStates : /\ was = run /\ was.doing \in {"listing", "paging"}
                                /\ RunStands(was, standing, node)
  BY DEF FetchPage, KubernetesInv, KubernetesTypes
<1>2. was.cell \in Cells
  BY <1>1 DEF RunStands
<1>3. PICK r : r = NamespaceCache(was)
  OBVIOUS
<1>4. /\ r \in RunStates /\ r.doing = was.doing /\ r.scope = was.scope /\ r.seen = was.seen
      /\ r.rest = was.rest /\ r.forbidden = was.forbidden /\ r.failed = was.failed
      /\ r.cell = was.cell /\ r.spaces = was.spaces /\ (was.warned => r.warned)
  BY <1>2, <1>3, CacheTypes DEF KubernetesInv
<1>5. PICK all : all = IF was.doing = "paging" THEN was.rest
                       ELSE {w \in exists : <<w[1], w[2]>> = was.cell}
  OBVIOUS
<1>6. /\ standing \subseteq InScope(r.scope) /\ standing \subseteq exists
      /\ \A w \in r.seen : node[w] # NULL /\ ~node[w].absent
      /\ r.forbidden # {} => r.warned
      /\ ~r.failed => r.spaces = Spaces \ r.scope.excluded
      /\ all \in SUBSET Workloads
  BY <1>1, <1>4, <1>5 DEF RunStands, KubernetesInv, KubernetesTypes, RunStates
<1>7. ASSUME ~r.failed, NEW w \in standing, w[2] \notin r.forbidden
      PROVE  /\ Before(CellOf(w), r.cell) => w \in r.seen
             /\ CellOf(w) = r.cell => w \in r.seen \cup all
  BY <1>1, <1>4, <1>5, <1>6, <1>7 DEF RunStands, Passed, CellOf
<1>8. UNCHANGED <<exists, crashed, file, wizard, cluster, standing>>
  BY DEF FetchPage, RunGoesTo
<1>9. CASE all = {}
  <2>1. run' = Advance(r) /\ UNCHANGED node
    BY <1>1, <1>3, <1>5, <1>9 DEF FetchPage, RunGoesTo
  <2>2. ~r.failed => \A w \in standing :
           /\ w[2] \notin r.forbidden /\ r.cell # NULL
           /\ Before(CellOf(w), r.cell) \/ CellOf(w) = r.cell
           => w \in r.seen
    BY <1>7, <1>9
  <2>3. Advance(r) \in RunStates /\ RunStands(Advance(r), standing, node)
    BY <1>4, <1>6, <2>2, AdvanceStands
  <2>. QED
    BY <1>8, <2>1, <2>3, RunGoesOn DEF KubernetesInv, KubernetesTypes
<1>10. CASE all # {}
  <2>1. PICK first \in all : first = CHOOSE w \in all : \A v \in all : w[3] <= v[3]
    BY <1>6, <1>10, FirstOfList
  <2>2. PICK t : t = [r EXCEPT !.seen = r.seen \cup {first}, !.rest = all \ {first}, !.doing = "paging"]
    OBVIOUS
  <2>3. /\ t \in RunStates /\ t.doing = "paging" /\ t.scope = r.scope
        /\ t.seen = r.seen \cup {first} /\ t.rest = all \ {first}
        /\ t.forbidden = r.forbidden /\ t.failed = r.failed /\ t.warned = r.warned
        /\ t.cell = r.cell /\ t.spaces = r.spaces
    <3>1. t \in RunStates
      <4>1. r.seen \cup {first} \in SUBSET Workloads /\ all \ {first} \in SUBSET Workloads /\ r \in RunStates
        BY <1>4, <1>6 DEF RunStates
      <4>. QED
        BY <2>2, <4>1 DEF RunStates
    <3>2. t.doing = "paging" /\ t.seen = r.seen \cup {first} /\ t.rest = all \ {first}
      BY <1>4, <2>2 DEF RunStates
    <3>3. t.scope = r.scope /\ t.forbidden = r.forbidden /\ t.failed = r.failed
      BY <1>4, <2>2 DEF RunStates
    <3>4. t.warned = r.warned /\ t.cell = r.cell /\ t.spaces = r.spaces
      BY <1>4, <2>2 DEF RunStates
    <3>. QED
      BY <3>1, <3>2, <3>3, <3>4
  <2>4. PICK n : n = [restarts |-> Restarts(r, first), absent |-> FALSE,
                      crashed |-> first \in was.crashed]
    OBVIOUS
  <2>5. n \in NodeStates /\ n # NULL /\ ~n.absent
    <3>1. (first \in was.crashed) \in BOOLEAN /\ Restarts(r, first) \in {NULL, 0, 1}
      BY DEF Restarts
    <3>2. n \in NodeStates /\ ~n.absent
      BY <2>4, <3>1 DEF NodeStates
    <3>. QED
      BY <3>2, KubernetesAssumption
  <2>6. /\ run' = IF t.rest = {} THEN Advance(t) ELSE t
        /\ node' = [node EXCEPT ![first] = n]
    <3>1. LET v == CHOOSE w \in all : \A u \in all : w[3] <= u[3]
              next == [r EXCEPT !.seen = @ \cup {v}, !.rest = all \ {v}, !.doing = "paging"]
          IN  /\ RunGoesTo(IF next.rest = {} THEN Advance(next) ELSE next)
              /\ node' = [node EXCEPT ![v] =
                    [restarts |-> Restarts(r, v), absent |-> FALSE, crashed |-> v \in was.crashed]]
      BY <1>1, <1>3, <1>5, <1>10 DEF FetchPage
    <3>2. /\ RunGoesTo(IF t.rest = {} THEN Advance(t) ELSE t)
          /\ node' = [node EXCEPT ![first] = n]
      BY <2>1, <2>2, <2>4, <3>1
    <3>. QED
      BY <3>2 DEF RunGoesTo
  <2>7. /\ node' \in [Workloads -> NodeStates \cup {NULL}]
        /\ \A w \in t.seen : node'[w] # NULL /\ ~node'[w].absent
    <3>1. node \in [Workloads -> NodeStates \cup {NULL}] /\ t.seen \subseteq Workloads
      BY <2>3 DEF KubernetesInv, KubernetesTypes, RunStates
    <3>. QED
      BY <1>6, <2>3, <2>5, <2>6, <3>1
  <2>8. ASSUME ~t.failed, NEW w \in standing, w[2] \notin t.forbidden
        PROVE  /\ Before(CellOf(w), t.cell) => w \in t.seen
               /\ CellOf(w) = t.cell => w \in t.seen \cup t.rest
    BY <1>7, <2>3, <2>8
  <2>9. CASE t.rest = {}
    <3>1. ~t.failed => \A w \in standing :
             /\ w[2] \notin t.forbidden /\ t.cell # NULL
             /\ Before(CellOf(w), t.cell) \/ CellOf(w) = t.cell
             => w \in t.seen
      BY <2>8, <2>9
    <3>2. /\ standing \subseteq InScope(t.scope) /\ (t.forbidden # {} => t.warned)
          /\ ~t.failed => t.spaces = Spaces \ t.scope.excluded
      BY <1>6, <2>3
    <3>3. \A m : (\A w \in t.seen : m[w] # NULL /\ ~m[w].absent) =>
             Advance(t) \in RunStates /\ RunStands(Advance(t), standing, m)
      BY <2>3, <3>1, <3>2, AdvanceStands
    <3>4. Advance(t) \in RunStates /\ RunStands(Advance(t), standing, node')
      BY <2>7, <3>3
    <3>. QED
      BY <1>8, <2>6, <2>7, <2>9, <3>4, RunGoesOn DEF KubernetesInv, KubernetesTypes
  <2>10. CASE t.rest # {}
    <3>1. RunStands(t, standing, node')
      BY <1>2, <1>4, <1>6, <2>3, <2>7, <2>8 DEF RunStands, Passed
    <3>. QED
      BY <1>8, <2>3, <2>6, <2>7, <2>10, <3>1, RunGoesOn DEF KubernetesInv, KubernetesTypes
  <2>. QED
    BY <2>9, <2>10
<1>. QED
  BY <1>9, <1>10

LEMMA EndKeepsKubernetes ==
    ASSUME KubernetesInv, RunEnds \/ NotAuthenticated
    PROVE  KubernetesInv'
<1>1. CASE NotAuthenticated
  BY <1>1 DEF NotAuthenticated, KubernetesInv, KubernetesTypes, WizardTypes
<1>2. CASE RunEnds
  <2>1. PICK r \in RunStates : r = run /\ r.doing = "ending" /\ RunStands(r, standing, node)
    BY <1>2 DEF RunEnds, KubernetesInv, KubernetesTypes
  <2>2. /\ run' = NULL /\ outcome' = RunOutcome(r)
        /\ node' = IF RunOutcome(r) = "success" THEN Swept(r) ELSE node
        /\ UNCHANGED <<exists, crashed, file, wizard, cluster, standing>>
    BY <1>2, <2>1 DEF RunEnds
  <2>3. ASSUME NEW w \in Workloads
        PROVE  /\ Swept(r)[w] \in NodeStates \cup {NULL}
               /\ w \in r.seen => Swept(r)[w] = node[w]
    <3>1. CASE node[w] = NULL \/ w \in r.seen
      BY <3>1 DEF Swept, KubernetesInv, KubernetesTypes
    <3>2. CASE node[w] # NULL /\ w \notin r.seen
      <4>1. PICK n \in NodeStates : n = node[w]
        BY <3>2 DEF KubernetesInv, KubernetesTypes
      <4>2. Swept(r)[w] = [n EXCEPT !.absent = TRUE]
        BY <3>2, <4>1 DEF Swept
      <4>. QED
        BY <3>2, <4>2 DEF NodeStates
    <3>. QED
      BY <3>1, <3>2
  <2>4. node' \in [Workloads -> NodeStates \cup {NULL}]
    BY <2>2, <2>3 DEF Swept, KubernetesInv, KubernetesTypes
  <2>5. ASSUME RunOutcome(r) = "success", NEW w \in standing
        PROVE  node'[w] # NULL /\ ~node'[w].absent
    <3>1. ~r.failed /\ r.forbidden = {}
      BY <2>1, <2>5 DEF RunOutcome, RunStands
    <3>2. w \in r.seen /\ w \in Workloads
      BY <2>1, <3>1 DEF RunStands, Passed, KubernetesInv, KubernetesTypes
    <3>3. node'[w] = node[w]
      BY <2>2, <2>3, <2>5, <3>2
    <3>. QED
      BY <2>1, <3>2, <3>3 DEF RunStands
  <2>. QED
    BY <2>2, <2>4, <2>5 DEF KubernetesInv, KubernetesTypes, WizardTypes
<1>. QED
  BY <1>1, <1>2

LEMMA KubernetesStep ==
    KubernetesInv /\ (KubernetesNext \/ UNCHANGED kubernetesVars) => KubernetesInv'
<1>1. KubernetesInv /\ UNCHANGED kubernetesVars => KubernetesInv'
  BY DEF kubernetesVars, KubernetesInv, KubernetesTypes, WizardTypes
<1>. QED
  BY <1>1, ClusterKeepsKubernetes, WizardKeepsKubernetes, StartKeepsKubernetes,
     ListKeepsKubernetes, ForbiddenKeepsKubernetes, PageKeepsKubernetes, FailKeepsKubernetes,
     EndKeepsKubernetes DEF KubernetesNext

(* A run that ends as a success has seen whatever stood in its scope while it *)
(* ran: none of it is missing from the graph or marked absent.                *)
THEOREM SuccessHasSeenAll == Spec => []SuccessIsExhaustive
<1> DEFINE Inv == part = "kubernetes" => KubernetesInv
<1>1. Init => Inv
  BY KubernetesInitInv DEF Init
<1>2. Inv /\ [Next]_vars => Inv'
  BY PartKept, PartSteps, KubernetesStep
<1>3. Inv => SuccessIsExhaustive
  BY DEF KubernetesInv, SuccessIsExhaustive
<1>. QED
  BY <1>1, <1>2, <1>3, PTL DEF Spec

-----------------------------------------------------------------------------
(* THE WIZARD, in one tab.  It asks for an owner only when it waits for       *)
(* nothing, has no App and finds no record, which stays so until the answer,  *)
(* and the polls that are still heard are those of the launch it waits for.   *)
OneTab == \A t, u \in Tabs : t = u
WizardFields ==
    {"open", "step", "mode", "waits", "app", "pasted", "shared", "manifest", "check", "inst",
     "probing", "probed", "polls", "sees"}
PollRecords == [nonce : Nat, got : Nat, live : BOOLEAN]
Latest(a, ls) == \A l \in 1 .. Len(ls) : ls[l] = "instance" => l <= a

WizardStands(w, ls) ==
    /\ DOMAIN w = WizardFields /\ w.polls \subseteq PollRecords
    /\ w.waits \in Nat /\ w.app \in Nat
    /\ w.app > 0 => Latest(w.app, ls)
    /\ w.waits # 0 => Latest(w.waits, ls)
    /\ \A p \in w.polls : p.live => /\ w.open /\ w.waits # 0
                                    /\ p.nonce = w.waits /\ p.got \in {0, p.nonce}
WizardChecks(w, rec) ==
    /\ w.check = "instance" => rec = NULL /\ w.waits = 0 /\ w.app = 0
    /\ w.open /\ rec # NULL => w.waits # 0 \/ w.app # 0
RecordStands(rec, ls) ==
    rec # NULL => /\ rec \in [nonce : Nat \ {0}, claimed : Nat] /\ Latest(rec.nonce, ls)
                  /\ rec.claimed # 0 => Latest(rec.claimed, ls)

AppInv ==
    /\ OneTab /\ launches \in Seq(LaunchTargets) /\ DOMAIN tab = Tabs
    /\ RecordStands(record, launches)
    /\ \A t \in Tabs : WizardStands(tab[t], launches) /\ WizardChecks(tab[t], record)

LEMMA AppInitInv == OneTab /\ AppInit => AppInv
BY GitHubAppAssumption
   DEF AppInit, AppInv, RecordStands, WizardStands, WizardChecks, WizardFields, Latest, LaunchTargets

LEMMA LaunchesAppend ==
    ASSUME NEW ls \in Seq(LaunchTargets), NEW target \in LaunchTargets
    PROVE  /\ Append(ls, target) \in Seq(LaunchTargets)
           /\ Latest(Len(ls) + 1, Append(ls, target)) /\ Len(ls) + 1 \in Nat \ {0}
           /\ target = "global" => \A a : Latest(a, ls) => Latest(a, Append(ls, target))
<1>1. /\ Append(ls, target) \in Seq(LaunchTargets) /\ Len(Append(ls, target)) = Len(ls) + 1
      /\ \A l \in 1 .. Len(ls) : Append(ls, target)[l] = ls[l]
      /\ Append(ls, target)[Len(ls) + 1] = target
  BY AppendProperties
<1>2. Len(ls) \in Nat
  BY LenProperties
<1>. QED
  BY <1>1, <1>2 DEF Latest

(* The tab goes on.                                                           *)
LEMMA TabGoesOn ==
    ASSUME AppInv, NEW t \in Tabs, NEW w, tab' = [tab EXCEPT ![t] = w],
           launches' \in Seq(LaunchTargets), WizardStands(w, launches'), WizardChecks(w, record'), RecordStands(record', launches')
    PROVE  AppInv'
<1>1. \A u \in Tabs : tab'[u] = w
  BY DEF AppInv, OneTab
<1>2. \A u \in Tabs : WizardStands(tab'[u], launches') /\ WizardChecks(tab'[u], record')
  BY <1>1
<1>3. DOMAIN tab' = Tabs /\ OneTab
  BY DEF AppInv
<1>. QED
  BY <1>2, <1>3 DEF AppInv

LEMMA SameLaunches ==
    ASSUME AppInv, NEW t \in Tabs, NEW w, tab' = [tab EXCEPT ![t] = w], UNCHANGED launches,
           WizardStands(w, launches), WizardChecks(w, record'), RecordStands(record', launches)
    PROVE  AppInv'
BY TabGoesOn DEF AppInv

LEMMA SameWizard ==
    ASSUME NEW w, NEW v, NEW ls, NEW rec, WizardStands(w, ls), WizardChecks(w, rec),
           DOMAIN v = WizardFields, v.open = w.open, v.waits = w.waits, v.app = w.app,
           v.polls = w.polls, v.check = w.check
    PROVE  WizardStands(v, ls) /\ WizardChecks(v, rec)
BY DEF WizardStands, WizardChecks

LEMMA MovesKeepWizard ==
    ASSUME AppInv, NEW t \in Tabs,
           \/ \E m \in {"per-org", "shared"} : SelectMode(t, m)
           \/ CancelManifest(t) \/ SeeAppStatus(t) \/ GoNext(t) \/ GoBack(t)
           \/ \E i \in Installations : ChooseInstallation(t, i)
           \/ ProbeConnector(t) \/ \E ok \in BOOLEAN : ProbeAnswer(t, ok)
    PROVE  AppInv'
<1>1. DOMAIN tab = Tabs /\ DOMAIN tab[t] = WizardFields
  BY DEF AppInv, WizardStands
<1>2. UNCHANGED <<launches, record>>
  BY DEF SelectMode, CancelManifest, SeeAppStatus, GoNext, GoBack, ChooseInstallation,
         ProbeConnector, ProbeAnswer
<1>3. ASSUME NEW v, tab' = [tab EXCEPT ![t] = v], DOMAIN v = WizardFields,
             v.open = tab[t].open, v.waits = tab[t].waits, v.app = tab[t].app,
             v.polls = tab[t].polls, v.check = tab[t].check
      PROVE  AppInv'
  BY <1>2, <1>3, SameWizard, SameLaunches DEF AppInv
<1>4. ASSUME NEW m, SelectMode(t, m) PROVE AppInv'
  <2>1. PICK v : v = [tab[t] EXCEPT !.mode = m]
    OBVIOUS
  <2>2. tab' = [tab EXCEPT ![t] = v]
    BY <1>1, <1>4, <2>1 DEF SelectMode
  <2>. QED
    BY <1>1, <1>3, <2>1, <2>2 DEF WizardFields
<1>5. ASSUME CancelManifest(t) PROVE AppInv'
  <2>1. PICK v : v = [tab[t] EXCEPT !.manifest = FALSE]
    OBVIOUS
  <2>2. tab' = [tab EXCEPT ![t] = v]
    BY <1>1, <1>5, <2>1 DEF CancelManifest
  <2>. QED
    BY <1>1, <1>3, <2>1, <2>2 DEF WizardFields
<1>6. ASSUME SeeAppStatus(t) PROVE AppInv'
  <2>1. PICK v : v = [tab[t] EXCEPT !.sees = globalApp, !.manifest = globalApp = 0]
    OBVIOUS
  <2>2. tab' = [tab EXCEPT ![t] = v]
    BY <1>1, <1>6, <2>1 DEF SeeAppStatus
  <2>. QED
    BY <1>1, <1>3, <2>1, <2>2 DEF WizardFields
<1>7. ASSUME GoNext(t) PROVE AppInv'
  <2>1. PICK v : v = [tab[t] EXCEPT !.step = @ + 1]
    OBVIOUS
  <2>2. tab' = [tab EXCEPT ![t] = v]
    BY <1>1, <1>7, <2>1 DEF GoNext
  <2>. QED
    BY <1>1, <1>3, <2>1, <2>2 DEF WizardFields
<1>8. ASSUME GoBack(t) PROVE AppInv'
  <2>1. PICK v : v = [tab[t] EXCEPT !.step = @ - 1]
    OBVIOUS
  <2>2. tab' = [tab EXCEPT ![t] = v]
    BY <1>1, <1>8, <2>1 DEF GoBack
  <2>. QED
    BY <1>1, <1>3, <2>1, <2>2 DEF WizardFields
<1>9. ASSUME NEW i, ChooseInstallation(t, i) PROVE AppInv'
  <2>1. PICK v : v = [tab[t] EXCEPT !.inst = i, !.probed = NULL]
    OBVIOUS
  <2>2. tab' = [tab EXCEPT ![t] = v]
    BY <1>1, <1>9, <2>1 DEF ChooseInstallation
  <2>. QED
    BY <1>1, <1>3, <2>1, <2>2 DEF WizardFields
<1>10. ASSUME ProbeConnector(t) PROVE AppInv'
  <2>1. PICK v : v = [tab[t] EXCEPT !.probing = [inst |-> tab[t].inst, app |-> Uses(t)]]
    OBVIOUS
  <2>2. tab' = [tab EXCEPT ![t] = v]
    BY <1>1, <1>10, <2>1 DEF ProbeConnector
  <2>. QED
    BY <1>1, <1>3, <2>1, <2>2 DEF WizardFields
<1>11. ASSUME NEW ok, ProbeAnswer(t, ok) PROVE AppInv'
  <2>1. PICK v : v = [tab[t] EXCEPT !.probing = NULL,
                              !.probed = [inst |-> tab[t].probing.inst,
                                          app |-> tab[t].probing.app, ok |-> ok]]
    OBVIOUS
  <2>2. tab' = [tab EXCEPT ![t] = v]
    BY <1>1, <1>11, <2>1 DEF ProbeAnswer
  <2>. QED
    BY <1>1, <1>3, <2>1, <2>2 DEF WizardFields
<1>. QED
  BY <1>4, <1>5, <1>6, <1>7, <1>8, <1>9, <1>10, <1>11

LEMMA DeadPolls ==
    ASSUME NEW P \in SUBSET PollRecords
    PROVE  LET dead == {[p EXCEPT !.live = FALSE] : p \in P}
           IN  dead \subseteq PollRecords /\ \A p \in dead : ~p.live
BY DEF PollRecords

(* The wizard that was reset, closed, holds nothing.                          *)
LEMMA ResetKeepsWizard ==
    ASSUME AppInv, NEW t \in Tabs, CloseWizard(t) \/ HandleCreate(t)
    PROVE  AppInv'
<1>1. PICK v : v = [Fresh(tab[t]) EXCEPT !.open = FALSE]
  OBVIOUS
<1>2. tab' = [tab EXCEPT ![t] = v] /\ UNCHANGED launches /\ (record' = record \/ record' = NULL)
  BY <1>1 DEF CloseWizard, HandleCreate, AppInv
<1>3. PICK w : w = tab[t] /\ WizardStands(w, launches) /\ WizardChecks(w, record)
  BY DEF AppInv
<1>4. PICK dead : dead = {[p EXCEPT !.live = FALSE] : p \in w.polls}
  OBVIOUS
<1>5. dead \subseteq PollRecords /\ \A p \in dead : ~p.live
  BY <1>3, <1>4, DeadPolls DEF WizardStands
<1>6. /\ DOMAIN v = WizardFields /\ v.waits = 0 /\ v.app = 0 /\ v.polls = dead
      /\ v.check = w.check /\ ~v.open
  BY <1>1, <1>3, <1>4 DEF Fresh, WizardStands, WizardFields
<1>7. WizardStands(v, launches)
  BY <1>5, <1>6 DEF WizardStands
<1>8. WizardChecks(v, record') /\ RecordStands(record', launches)
  BY <1>2, <1>3, <1>6 DEF AppInv, RecordStands, WizardChecks
<1>. QED
  BY <1>2, <1>7, <1>8, SameLaunches

LEMMA OpenKeepsWizard ==
    ASSUME AppInv, NEW t \in Tabs, OpenWizard(t)
    PROVE  AppInv'
<1>1. PICK w : w = tab[t] /\ WizardStands(w, launches) /\ WizardChecks(w, record)
  BY DEF AppInv
<1>2. PICK waits : waits = IF record = NULL THEN w.waits
                           ELSE IF record.claimed = 0 THEN record.nonce ELSE 0
  OBVIOUS
<1>3. PICK app : app = IF record = NULL THEN w.app ELSE record.claimed
  OBVIOUS
<1>4. /\ waits \in Nat /\ app \in Nat
      /\ app > 0 => Latest(app, launches)
      /\ waits # 0 => Latest(waits, launches)
      /\ record # NULL => waits # 0 \/ app # 0
      /\ record = NULL => waits = w.waits /\ app = w.app
  <2>1. CASE record = NULL
    BY <1>1, <1>2, <1>3, <2>1 DEF WizardStands
  <2>2. CASE record # NULL
    <3>1. PICK rec \in [nonce : Nat \ {0}, claimed : Nat] :
             rec = record /\ Latest(rec.nonce, launches)
             /\ (rec.claimed # 0 => Latest(rec.claimed, launches))
      BY <2>2 DEF AppInv, RecordStands
    <3>. QED
      BY <1>2, <1>3, <2>2, <3>1
  <2>. QED
    BY <2>1, <2>2
<1>5. PICK v : v = [w EXCEPT !.open = TRUE, !.sees = globalApp, !.manifest = FALSE,
                             !.waits = waits, !.app = app]
  OBVIOUS
<1>6. tab' = [tab EXCEPT ![t] = v] /\ UNCHANGED <<launches, record>> /\ ~w.open
  BY <1>1, <1>2, <1>3, <1>5 DEF OpenWizard
<1>7. /\ DOMAIN v = WizardFields /\ v.open /\ v.waits = waits /\ v.app = app
      /\ v.polls = w.polls /\ v.check = w.check
  BY <1>1, <1>5 DEF WizardStands, WizardFields
<1>8. \A p \in w.polls : ~p.live
  BY <1>1, <1>6 DEF WizardStands
<1>9. WizardStands(v, launches)
  BY <1>1, <1>4, <1>7, <1>8 DEF WizardStands
<1>10. WizardChecks(v, record')
  BY <1>1, <1>4, <1>6, <1>7 DEF WizardChecks
<1>. QED
  BY <1>6, <1>9, <1>10, SameLaunches DEF AppInv

(* A launch is the latest: while its owner was asked for nothing was attached *)
(* or waited for.                                                             *)
LEMMA LaunchKeepsWizard ==
    ASSUME AppInv, NEW t \in Tabs, NEW answer, CreateFromTemplate(t, answer) \/ CreateInstanceApp(t, answer)
    PROVE  AppInv'
<1>1. PICK w : w = tab[t] /\ WizardStands(w, launches) /\ WizardChecks(w, record)
  BY DEF AppInv
<1>2. launches \in Seq(LaunchTargets)
  BY DEF AppInv
<1>3. CASE CreateFromTemplate(t, answer)
  <2>1. PICK ls : ls = Append(launches, "global")
    OBVIOUS
  <2>2. /\ launches' = ls /\ UNCHANGED record
        /\ tab' = [tab EXCEPT ![t].check = NULL, ![t].manifest = TRUE]
    BY <1>3, <2>1 DEF CreateFromTemplate, IssueState
  <2>3. ls \in Seq(LaunchTargets) /\ \A a : Latest(a, launches) => Latest(a, ls)
    BY <1>2, <2>1, LaunchesAppend DEF LaunchTargets
  <2>4. PICK v : v = [w EXCEPT !.check = NULL, !.manifest = TRUE]
    OBVIOUS
  <2>5. tab' = [tab EXCEPT ![t] = v]
    BY <1>1, <2>2, <2>4 DEF AppInv
  <2>6. /\ DOMAIN v = WizardFields /\ v.open = w.open /\ v.waits = w.waits /\ v.app = w.app
        /\ v.polls = w.polls /\ v.check = NULL
    BY <1>1, <2>4 DEF WizardStands, WizardFields
  <2>7. WizardStands(v, ls)
    BY <1>1, <2>3, <2>6 DEF WizardStands
  <2>8. WizardChecks(v, record)
    BY <1>1, <2>6, GitHubAppAssumption DEF WizardChecks, LaunchTargets
  <2>9. RecordStands(record, ls)
    BY <2>3 DEF AppInv, RecordStands
  <2>. QED
    BY <2>2, <2>3, <2>5, <2>7, <2>8, <2>9, TabGoesOn
<1>4. CASE CreateInstanceApp(t, answer)
  <2>1. PICK ls : ls = Append(launches, "instance")
    OBVIOUS
  <2>2. PICK l : l = Len(launches) + 1
    OBVIOUS
  <2>3. /\ launches' = ls /\ record' = [nonce |-> l, claimed |-> 0]
        /\ tab' = [tab EXCEPT ![t].check = NULL, ![t].waits = l]
        /\ w.waits = 0 /\ w.app = 0
    BY <1>1, <1>4, <2>1, <2>2 DEF CreateInstanceApp, IssueState, WizardChecks
  <2>4. ls \in Seq(LaunchTargets) /\ Latest(l, ls) /\ l \in Nat \ {0}
    BY <1>2, <2>1, <2>2, LaunchesAppend DEF LaunchTargets
  <2>5. PICK v : v = [w EXCEPT !.check = NULL, !.waits = l]
    OBVIOUS
  <2>6. /\ tab' = [tab EXCEPT ![t] = v]
        /\ DOMAIN v = WizardFields /\ v.waits = l /\ v.app = 0 /\ v.polls = w.polls
        /\ v.check = NULL
    BY <1>1, <2>3, <2>5 DEF WizardStands, WizardFields, AppInv
  <2>7. \A p \in w.polls : ~p.live
    BY <1>1, <2>3 DEF WizardStands
  <2>8. WizardStands(v, ls)
    BY <1>1, <2>3, <2>4, <2>6, <2>7 DEF WizardStands
  <2>9. WizardChecks(v, record')
    BY <2>4, <2>6, GitHubAppAssumption DEF WizardChecks, LaunchTargets
  <2>10. RecordStands(record', ls)
    BY <2>3, <2>4 DEF RecordStands
  <2>. QED
    BY <2>3, <2>4, <2>6, <2>8, <2>9, <2>10, TabGoesOn
<1>. QED
  BY <1>3, <1>4

(* The owner is asked for where nothing is attached or waited for.            *)
LEMMA OwnerKeepsWizard ==
    ASSUME AppInv, NEW t \in Tabs, NEW to,
           (to \in LaunchTargets /\ CheckOwner(t, to)) \/ (to = NULL /\ \E answer \in OwnerAnswers : OwnerRefused(t, answer))
    PROVE  AppInv'
<1>1. PICK w : w = tab[t] /\ WizardStands(w, launches) /\ WizardChecks(w, record)
  BY DEF AppInv
<1>2. PICK v : v = [w EXCEPT !.check = to]
  OBVIOUS
<1>3. tab' = [tab EXCEPT ![t] = v] /\ UNCHANGED <<launches, record>>
  BY <1>1, <1>2 DEF CheckOwner, OwnerRefused
<1>4. /\ DOMAIN v = WizardFields /\ v.open = w.open /\ v.waits = w.waits /\ v.app = w.app
      /\ v.polls = w.polls /\ v.check = to
  BY <1>1, <1>2 DEF WizardStands, WizardFields
<1>5. WizardStands(v, launches)
  BY <1>1, <1>4 DEF WizardStands
<1>6. to = "instance" => w.open /\ w.waits = 0 /\ w.app = 0
  BY <1>1, GitHubAppAssumption DEF CheckOwner, MayLaunch, Showing, LaunchTargets
<1>7. WizardChecks(v, record)
  BY <1>1, <1>4, <1>6 DEF WizardChecks
<1>. QED
  BY <1>3, <1>5, <1>7, SameLaunches DEF AppInv

LEMMA AppsKeepWizard ==
    ASSUME AppInv, NEW t \in Tabs, CancelWait(t) \/ DiscardApp(t) \/ PasteApp(t)
    PROVE  AppInv'
<1>1. PICK w : w = tab[t] /\ WizardStands(w, launches) /\ WizardChecks(w, record)
  BY DEF AppInv
<1>2. /\ UNCHANGED launches /\ (record' = record \/ record' = NULL)
  BY DEF CancelWait, DiscardApp, PasteApp
<1>3. RecordStands(record', launches)
  BY <1>2 DEF AppInv, RecordStands
<1>4. CASE CancelWait(t)
  <2>1. PICK dead : dead = {[p EXCEPT !.live = FALSE] : p \in w.polls}
    OBVIOUS
  <2>2. dead \subseteq PollRecords /\ \A p \in dead : ~p.live
    BY <1>1, <2>1, DeadPolls DEF WizardStands
  <2>3. PICK v : v = [w EXCEPT !.waits = 0, !.polls = dead]
    OBVIOUS
  <2>4. tab' = [tab EXCEPT ![t] = v]
    BY <1>1, <1>4, <2>1, <2>3 DEF CancelWait, AppInv
  <2>5. /\ DOMAIN v = WizardFields /\ v.waits = 0 /\ v.app = w.app /\ v.polls = dead
        /\ v.check = w.check
    BY <1>1, <2>3 DEF WizardStands, WizardFields
  <2>6. WizardStands(v, launches)
    BY <1>1, <2>2, <2>5 DEF WizardStands
  <2>7. WizardChecks(v, record')
    BY <1>1, <1>4, <2>5 DEF WizardChecks, CancelWait
  <2>. QED
    BY <1>2, <1>3, <2>4, <2>6, <2>7, SameLaunches
<1>5. CASE DiscardApp(t)
  <2>1. PICK v : v = [w EXCEPT !.app = 0, !.pasted = FALSE, !.probed = NULL]
    OBVIOUS
  <2>2. tab' = [tab EXCEPT ![t] = v]
    BY <1>1, <1>5, <2>1 DEF DiscardApp, AppInv
  <2>3. /\ DOMAIN v = WizardFields /\ v.waits = w.waits /\ v.app = 0 /\ v.polls = w.polls
        /\ v.open = w.open /\ v.check = w.check
    BY <1>1, <2>1 DEF WizardStands, WizardFields
  <2>4. WizardStands(v, launches)
    BY <1>1, <2>3 DEF WizardStands
  <2>5. WizardChecks(v, record')
    BY <1>1, <1>5, <2>3 DEF WizardChecks, DiscardApp
  <2>. QED
    BY <1>2, <1>3, <2>2, <2>4, <2>5, SameLaunches
<1>6. CASE PasteApp(t)
  <2>1. PICK v : v = IF w.mode = "per-org" THEN [w EXCEPT !.pasted = TRUE, !.probed = NULL]
                     ELSE [w EXCEPT !.shared = Own, !.probed = NULL]
    OBVIOUS
  <2>2. tab' = [tab EXCEPT ![t] = v]
    BY <1>1, <1>6, <2>1 DEF PasteApp
  <2>3. /\ DOMAIN v = WizardFields /\ v.waits = w.waits /\ v.app = w.app
        /\ v.polls = w.polls /\ v.open = w.open /\ v.check = w.check
    BY <1>1, <2>1 DEF WizardStands, WizardFields
  <2>4. WizardStands(v, launches) /\ WizardChecks(v, record')
    BY <1>1, <1>6, <2>3, SameWizard DEF PasteApp
  <2>. QED
    BY <1>2, <1>3, <2>2, <2>4, SameLaunches
<1>. QED
  BY <1>4, <1>5, <1>6

LEMMA PollKeepsWizard ==
    ASSUME AppInv, NEW t \in Tabs, PollPending(t)
    PROVE  AppInv'
<1>1. PICK w : w = tab[t] /\ WizardStands(w, launches) /\ WizardChecks(w, record)
  BY DEF AppInv
<1>2. PICK got : got = IF w.waits \in slots THEN w.waits ELSE 0
  OBVIOUS
<1>3. PICK q : q = [nonce |-> w.waits, got |-> got, live |-> TRUE]
  OBVIOUS
<1>4. PICK v : v = [w EXCEPT !.polls = w.polls \cup {q}]
  OBVIOUS
<1>5. /\ tab' = [tab EXCEPT ![t] = v] /\ UNCHANGED <<launches, record>> /\ w.waits # 0 /\ w.open
  BY <1>1, <1>2, <1>3, <1>4 DEF PollPending, AppInv
<1>6. /\ DOMAIN v = WizardFields /\ v.waits = w.waits /\ v.app = w.app /\ v.open = w.open
      /\ v.polls = w.polls \cup {q} /\ v.check = w.check
  BY <1>1, <1>4 DEF WizardStands, WizardFields
<1>7. q \in PollRecords /\ q.nonce = w.waits /\ q.got \in {0, q.nonce}
  BY <1>1, <1>2, <1>3 DEF WizardStands, PollRecords
<1>8. WizardStands(v, launches)
  BY <1>1, <1>5, <1>6, <1>7 DEF WizardStands
<1>9. WizardChecks(v, record)
  BY <1>1, <1>6 DEF WizardChecks
<1>. QED
  BY <1>5, <1>8, <1>9, SameLaunches DEF AppInv

(* An answer that is still heard brings the App of the launch this tab waits  *)
(* for, or the one the record says was claimed.                               *)
LEMMA AnswerKeepsWizard ==
    ASSUME AppInv, NEW t \in Tabs, NEW p \in tab[t].polls, PollAnswer(t, p)
    PROVE  AppInv'
<1>1. PICK w : w = tab[t] /\ WizardStands(w, launches) /\ WizardChecks(w, record)
  BY DEF AppInv
<1>2. p \in w.polls /\ p \in PollRecords /\ p.nonce \in Nat /\ p.got \in Nat
  BY <1>1 DEF WizardStands, PollRecords
<1>3. PICK found : found = IF ~p.live THEN 0
                           ELSE IF p.got # 0 THEN p.got ELSE IF record # NULL THEN record.claimed ELSE 0
  OBVIOUS
<1>4. p.live /\ p.got # 0 => p.got = w.waits /\ w.waits # 0 /\ Latest(p.got, launches)
  BY <1>1, <1>2 DEF WizardStands
<1>5. found \in Nat /\ (found # 0 => Latest(found, launches))
  BY <1>2, <1>3, <1>4 DEF AppInv, RecordStands
<1>6. PICK v : v = IF found # 0 THEN Attach(w, found, p) ELSE Heard(w, p)
  OBVIOUS
<1>7. /\ tab' = [tab EXCEPT ![t] = v] /\ UNCHANGED launches
      /\ record' = IF p.live /\ p.got # 0 THEN MarkClaimed(record, p.got) ELSE record
  <2>1. tab' = [tab EXCEPT ![t] = IF found # 0 THEN Attach(@, found, p)
                                  ELSE Heard(@, p)]
    BY <1>3 DEF PollAnswer
  <2>2. tab' = [tab EXCEPT ![t] = IF found # 0 THEN Attach(w, found, p) ELSE Heard(w, p)]
    BY <1>1, <2>1
  <2>. QED
    BY <1>6, <2>2 DEF PollAnswer
<1>8. RecordStands(record', launches)
  <2>1. CASE record' = record
    BY <2>1 DEF AppInv
  <2>2. CASE record' # record
    <3>1. PICK r \in [nonce : Nat \ {0}, claimed : Nat] : r = record /\ Latest(r.nonce, launches)
      BY <1>7, <2>2 DEF MarkClaimed, AppInv, RecordStands
    <3>2. record' = [r EXCEPT !.claimed = p.got] /\ Latest(p.got, launches)
      BY <1>4, <1>7, <2>2, <3>1 DEF MarkClaimed
    <3>3. record' \in [nonce : Nat \ {0}, claimed : Nat] /\ record'.nonce = r.nonce /\ record'.claimed = p.got
      BY <1>2, <3>2
    <3>. QED
      BY <3>1, <3>2, <3>3 DEF RecordStands
  <2>. QED
    BY <2>1, <2>2
<1>9. WizardStands(v, launches)
  <2>1. CASE found # 0
    <3>1. PICK dead : dead = {[q EXCEPT !.live = FALSE] : q \in w.polls \ {p}}
      OBVIOUS
    <3>2. w.polls \ {p} \in SUBSET PollRecords
      BY <1>1 DEF WizardStands
    <3>3. dead \subseteq PollRecords /\ \A q \in dead : ~q.live
      BY <3>1, <3>2, DeadPolls
    <3>4. v = [w EXCEPT !.app = found, !.pasted = FALSE, !.waits = 0, !.probed = NULL, !.polls = dead]
      BY <1>6, <2>1, <3>1 DEF Attach
    <3>5. DOMAIN v = WizardFields /\ v.app = found /\ v.waits = 0 /\ v.polls = dead
      BY <1>1, <3>4 DEF WizardStands, WizardFields
    <3>. QED
      BY <1>5, <3>3, <3>5 DEF WizardStands
  <2>2. CASE found = 0
    <3>1. /\ DOMAIN v = WizardFields /\ v.app = w.app /\ v.waits = w.waits /\ v.open = w.open
          /\ v.polls = w.polls \ {p}
      BY <1>1, <1>6, <2>2 DEF Heard, WizardStands, WizardFields
    <3>. QED
      BY <1>1, <3>1 DEF WizardStands
  <2>. QED
    BY <2>1, <2>2
<1>10. WizardChecks(v, record')
  <2>1. CASE found # 0
    <3>1. w.waits # 0 /\ w.check # "instance"
      BY <1>1, <1>2, <1>3, <2>1 DEF WizardStands, WizardChecks
    <3>2. PICK dead : dead = {[q EXCEPT !.live = FALSE] : q \in w.polls \ {p}}
      OBVIOUS
    <3>3. v = [w EXCEPT !.app = found, !.pasted = FALSE, !.waits = 0, !.probed = NULL, !.polls = dead]
      BY <1>6, <2>1, <3>2 DEF Attach
    <3>4. v.app = found /\ v.check = w.check
      BY <1>1, <3>3 DEF WizardStands, WizardFields
    <3>. QED
      BY <2>1, <3>1, <3>4 DEF WizardChecks
  <2>2. CASE found = 0
    <3>1. v.app = w.app /\ v.waits = w.waits /\ v.open = w.open /\ v.check = w.check
      BY <1>1, <1>6, <2>2 DEF Heard, WizardStands, WizardFields
    <3>2. record' = record
      BY <1>3, <1>7, <2>2
    <3>. QED
      BY <1>1, <3>1, <3>2 DEF WizardChecks
  <2>. QED
    BY <2>1, <2>2
<1>. QED
  BY <1>7, <1>8, <1>9, <1>10, SameLaunches

LEMMA AppStep ==
    AppInv /\ (AppNext \/ UNCHANGED appVars) => AppInv'
<1> SUFFICES ASSUME AppInv, AppNext \/ UNCHANGED appVars PROVE AppInv'
  OBVIOUS
<1>1. CASE UNCHANGED appVars
  BY <1>1 DEF appVars, AppInv
<1>2. CASE \E l \in 1 .. MaxLaunches : ManifestCallback(l) \/ ExchangeAndPersist(l) \/ ExchangeFails(l)
  BY <1>2 DEF ManifestCallback, ExchangeAndPersist, ExchangeFails, AppInv
<1>3. CASE TokensExpire \/ RecordExpires
  BY <1>3 DEF TokensExpire, RecordExpires, AppInv, RecordStands, WizardChecks
<1>. QED
  BY <1>1, <1>2, <1>3, ResetKeepsWizard, OpenKeepsWizard, LaunchKeepsWizard, OwnerKeepsWizard,
     AppsKeepWizard, MovesKeepWizard, PollKeepsWizard, AnswerKeepsWizard DEF AppNext

(* In one tab the App attached is the one of the launch made last: a cancelled *)
(* wait, a late answer or an App claimed before never puts another in its      *)
(* place.  (A second tab keeps what it has when the first launches again.)     *)
THEOREM LatestIsAttached == (\A t, u \in Tabs : t = u) /\ Spec => []AttachedIsLatest
<1> DEFINE Inv == part = "wizard" => AppInv
<1>1. ASSUME \A t, u \in Tabs : t = u
      PROVE  Spec => []AttachedIsLatest
  <2>1. Init => Inv
    BY <1>1, AppInitInv DEF Init, OneTab
  <2>2. Inv /\ [Next]_vars => Inv'
    BY PartKept, PartSteps, AppStep
  <2>3. Inv => AttachedIsLatest
    BY DEF AppInv, WizardStands, Latest, AttachedIsLatest
  <2>. QED
    BY <2>1, <2>2, <2>3, PTL DEF Spec
<1>. QED
  BY <1>1

-----------------------------------------------------------------------------
(* THE REGISTRY.  Types first, for the requests between two of their steps.   *)
ConnectorsTyped ==
    /\ mem \in Instances /\ yaml \in Instances /\ blob \in Blobs \cup {NULL} /\ key \in [Ids -> Nat]
    /\ req \in [Requests -> ConnectorRequests \cup {NULL}] /\ chain \in Seq(Requests)
    /\ DOMAIN scheds = Ids /\ DOMAIN runs = Ids /\ behind \in BOOLEAN

(* Without overlap a connector has one request at a time, and a new webhook   *)
(* secret is alone.                                                           *)
OneEach ==
    /\ \A r, q \in InFlight : req[r].id = req[q].id => r = q
    /\ \A r \in InFlight : req[r].kind = "secret" => InFlight = {r} /\ req[r].at \in {"read", "write"}

(* The chain has the requests whose persist has not ended, and the first of   *)
(* them is the only one that may be past the file.                            *)
ChainStands ==
    /\ \A a \in 1 .. Len(chain) :
          /\ req[chain[a]] # NULL /\ req[chain[a]].kind # "secret"
          /\ req[chain[a]].at = "persist" \/ (a = 1 /\ req[chain[a]].at \in {"read", "write"})
    /\ \A a, b \in 1 .. Len(chain) : chain[a] = chain[b] => a = b
    /\ \A r \in InFlight : req[r].at \in {"persist", "read", "write"} /\ req[r].kind # "secret" =>
          \E a \in 1 .. Len(chain) : chain[a] = r

(* What a request has made of the registry.                                   *)
RequestStands(r) ==
    /\ req[r].kind = "create" =>
          /\ req[r].at \in {"persist", "read", "write", "start"}
          /\ mem[req[r].id] = req[r].new /\ req[r].new # NULL
    /\ req[r].kind = "patch" =>
          /\ req[r].at \in {"persist", "read", "write", "stop", "start"}
          /\ mem[req[r].id] = req[r].new /\ req[r].new # NULL
    /\ req[r].kind = "delete" =>
          /\ req[r].new = NULL
          /\ \/ req[r].at = "purge"
             \/ req[r].at \in {"persist", "read", "write", "stop", "clear"} /\ mem[req[r].id] = NULL
    /\ req[r].at = "start" => req[r].new.on

(* Redis, for a connector no request is about, and for the one that a request *)
(* is about to start or to forget.                                            *)
AsConfigured(i) ==
    /\ scheds[i] = IF mem[i] # NULL /\ mem[i].on THEN {mem[i].sched} ELSE {}
    /\ mem[i] = NULL => runs[i] = 0
Untouched(r) == req[r].kind = "secret" \/ req[r].at = "purge"
RuntimeStands ==
    \A i \in Ids \ torn :
        /\ (\A r \in InFlight : req[r].id = i => Untouched(r)) => AsConfigured(i)
        /\ \A r \in InFlight :
              req[r].id = i /\ (req[r].kind = "create" \/ req[r].at \in {"start", "clear"}) => scheds[i] = {}

(* Secret Manager: a request past the file has the list that the registry     *)
(* has, save where a later one waits; and what is stored is the registry,     *)
(* save where a request has yet to write, with every file it needs.           *)
Waits(i) == \E r \in InFlight : req[r].id = i /\ req[r].at = "persist"
Unstored(i) ==
    \E r \in InFlight : req[r].id = i /\ req[r].kind # "secret" /\ req[r].at \in {"persist", "read", "write"}
ListsStand ==
    \A r \in InFlight : req[r].at \in {"read", "write"} =>
        \A i \in Ids : ~Waits(i) => req[r].list[i] = mem[i]
StoredStand ==
    ~behind /\ blob # NULL =>
        \A i \in Ids :
            /\ ~Unstored(i) => blob.list[i] = mem[i]
            /\ blob.list[i] # NULL /\ blob.list[i].cred /\ key[i] # 0 => blob.secret[i] = key[i]

ConnectorsInv ==
    /\ ConnectorsTyped /\ OneEach /\ ChainStands /\ \A r \in InFlight : RequestStands(r)
    /\ RuntimeStands /\ ListsStand /\ StoredStand

LEMMA ConnectorsInitInv == ConnectorsInit => ConnectorsInv
<1> SUFFICES ASSUME ConnectorsInit PROVE ConnectorsInv
  OBVIOUS
<1>1. /\ mem = NoInstances /\ yaml = NoInstances /\ blob = NULL /\ key = [i \in Ids |-> 0]
      /\ req = [r \in Requests |-> NULL] /\ chain = <<>> /\ scheds = [i \in Ids |-> {}]
      /\ runs = [i \in Ids |-> 0] /\ behind = FALSE
  BY DEF ConnectorsInit
<1>2. InFlight = {} /\ Len(chain) = 0
  BY <1>1 DEF InFlight, Free
<1>3. ConnectorsTyped
  <2>1. mem \in Instances /\ yaml \in Instances
    BY <1>1 DEF NoInstances, Instances
  <2>2. key \in [Ids -> Nat] /\ req \in [Requests -> ConnectorRequests \cup {NULL}] /\ chain \in Seq(Requests)
    BY <1>1
  <2>3. DOMAIN scheds = Ids /\ DOMAIN runs = Ids /\ behind \in BOOLEAN
    BY <1>1
  <2>. QED
    BY <1>1, <2>1, <2>2, <2>3 DEF ConnectorsTyped
<1>4. RuntimeStands
  BY <1>1, <1>2 DEF RuntimeStands, AsConfigured, NoInstances
<1>5. OneEach /\ ChainStands /\ (\A r \in InFlight : RequestStands(r)) /\ ListsStand
  BY <1>2 DEF OneEach, ChainStands, ListsStand
<1>6. StoredStand
  BY <1>1 DEF StoredStand
<1>. QED
  BY <1>3, <1>4, <1>5, <1>6 DEF ConnectorsInv

LEMMA RequestTyped ==
    ASSUME ConnectorsInv, NEW r \in InFlight
    PROVE  r \in Requests /\ req[r] # NULL /\ req[r] \in ConnectorRequests /\ req[r].id \in Ids
BY DEF ConnectorsInv, ConnectorsTyped, InFlight, Free, ConnectorRequests

(* What the step of one request, about one connector, has to see to. *)
LEMMA MoveKeeps ==
    ASSUME ConnectorsInv, NEW r \in Requests, NEW i \in Ids,
           req[r] # NULL => req[r].id = i,
           \A x \in InFlight \ {r} : req[x].id # i /\ req[x].kind # "secret",
           \A x \in Requests \ {r} : req'[x] = req[x],
           req'[r] # NULL =>
              /\ req'[r].id = i /\ RequestStands(r)'
              /\ req'[r].kind = "secret" => InFlight \subseteq {r} /\ req'[r].at \in {"read", "write"},
           \A j \in Ids \ {i} : mem'[j] = mem[j] /\ scheds'[j] = scheds[j] /\ runs'[j] = runs[j],
           torn \subseteq torn',
           i \notin torn' =>
              /\ req'[r] = NULL \/ Untouched(r)' => AsConfigured(i)'
              /\ req'[r] # NULL /\ (req'[r].kind = "create" \/ req'[r].at \in {"start", "clear"})
                    => scheds'[i] = {}
    PROVE  OneEach' /\ (\A x \in InFlight' : RequestStands(x)') /\ RuntimeStands'
<1>1. OneEach /\ (\A x \in InFlight : RequestStands(x)) /\ RuntimeStands
  BY DEF ConnectorsInv
<1>2. \A x : x \in InFlight' <=> (x \in InFlight \ {r} \/ (x = r /\ req'[r] # NULL))
  BY DEF InFlight, Free
<1>3. \A x \in InFlight \ {r} : req'[x] = req[x] /\ req[x].id \in Ids \ {i}
  BY RequestTyped DEF InFlight
<1>4. OneEach'
  <2>1. \A x, q \in InFlight' : req'[x].id = req'[q].id => x = q
    <3>1. SUFFICES ASSUME NEW x \in InFlight', NEW q \in InFlight', req'[x].id = req'[q].id PROVE x = q
      OBVIOUS
    <3>2. CASE x # r /\ q # r
      BY <1>1, <1>2, <1>3, <3>1, <3>2 DEF OneEach
    <3>3. CASE x = r \/ q = r
      BY <1>2, <1>3, <3>1, <3>3
    <3>. QED
      BY <3>2, <3>3
  <2>2. \A x \in InFlight' : req'[x].kind = "secret" => InFlight' = {x} /\ req'[x].at \in {"read", "write"}
    <3>1. SUFFICES ASSUME NEW x \in InFlight', req'[x].kind = "secret"
                   PROVE  InFlight' = {x} /\ req'[x].at \in {"read", "write"}
      OBVIOUS
    <3>2. x = r
      BY <1>2, <1>3, <3>1
    <3>. QED
      BY <1>2, <3>1, <3>2
  <2>. QED
    BY <2>1, <2>2 DEF OneEach
<1>5. \A x \in InFlight' : RequestStands(x)'
  <2>1. SUFFICES ASSUME NEW x \in InFlight' PROVE RequestStands(x)'
    OBVIOUS
  <2>2. CASE x = r
    BY <1>2, <2>2
  <2>3. CASE x # r
    BY <1>1, <1>2, <1>3, <2>1, <2>3 DEF RequestStands
  <2>. QED
    BY <2>2, <2>3
<1>6. RuntimeStands'
  <2>1. SUFFICES ASSUME NEW j \in Ids \ torn'
                 PROVE  /\ (\A x \in InFlight' : req'[x].id = j => Untouched(x)') => AsConfigured(j)'
                        /\ \A x \in InFlight' :
                              req'[x].id = j /\ (req'[x].kind = "create" \/ req'[x].at \in {"start", "clear"})
                                 => scheds'[j] = {}
    BY DEF RuntimeStands, Untouched
  <2>2. CASE j = i
    <3>1. \A x \in InFlight' : req'[x].id = j => x = r
      BY <1>2, <1>3, <2>2
    <3>2. r \in InFlight' <=> req'[r] # NULL
      BY <1>2
    <3>. QED
      BY <2>1, <2>2, <3>1, <3>2
  <2>3. CASE j # i
    <3>1. AsConfigured(j)' <=> AsConfigured(j)
      BY <2>1, <2>3 DEF AsConfigured
    <3>2. \A x \in InFlight : req[x].id = j => x \in InFlight' /\ req'[x] = req[x]
      <4>1. \A x \in InFlight : req[x].id = j => x # r
        BY <2>3, RequestTyped
      <4>. QED
        BY <1>2, <1>3, <4>1
    <3>3. \A x \in InFlight' : req'[x].id = j => x \in InFlight /\ req'[x] = req[x]
      BY <1>2, <1>3, <2>3
    <3>. QED
      BY <1>1, <2>1, <2>3, <3>1, <3>2, <3>3 DEF RuntimeStands, Untouched
  <2>. QED
    BY <2>2, <2>3
<1>. QED
  BY <1>4, <1>5, <1>6

(* One request at most is past the file, and it is the first of the chain. *)
LEMMA OnePastTheFile ==
    ASSUME ConnectorsInv
    PROVE  /\ \A x, r \in InFlight :
                 req[x].at \in {"read", "write"} /\ req[r].at \in {"read", "write"} => x = r
           /\ \A x \in InFlight :
                 req[x].at \in {"read", "write"} /\ req[x].kind # "secret" =>
                    chain # <<>> /\ 1 \in 1 .. Len(chain) /\ Head(chain) = x /\ chain[1] = x
           /\ \A x \in InFlight : req[x].at \in {"read", "write"} /\ req[x].kind = "secret" => chain = <<>>
           /\ chain # <<>> => /\ 1 \in 1 .. Len(chain) /\ chain[1] \in InFlight /\ chain[1] = Head(chain)
                              /\ req[chain[1]].kind # "secret"
<1>1. chain \in Seq(Requests) /\ OneEach /\ ChainStands
  BY DEF ConnectorsInv, ConnectorsTyped
<1>2. Len(chain) \in Nat /\ \A a \in 1 .. Len(chain) : chain[a] \in InFlight
  BY <1>1, ElementOfSeq, LenProperties DEF ChainStands, InFlight, Free
<1>3. chain # <<>> => 1 \in 1 .. Len(chain) /\ chain[1] = Head(chain)
  BY <1>1, EmptySeq
<1>4. ASSUME NEW x \in InFlight, req[x].at \in {"read", "write"}, req[x].kind # "secret"
      PROVE  chain # <<>> /\ chain[1] = x
  <2>1. PICK a \in 1 .. Len(chain) : chain[a] = x
    BY <1>1, <1>4 DEF ChainStands
  <2>2. a = 1
    BY <1>1, <1>4, <2>1 DEF ChainStands
  <2>3. chain # <<>>
    BY <1>2, <2>1
  <2>. QED
    BY <2>1, <2>2, <2>3
<1>5. ASSUME NEW x \in InFlight, req[x].kind = "secret" PROVE chain = <<>>
  <2>1. InFlight = {x}
    BY <1>1, <1>5 DEF OneEach
  <2>2. chain # <<>> => chain[1] = x
    BY <1>2, <1>3, <2>1
  <2>. QED
    BY <1>1, <1>3, <1>5, <2>2 DEF ChainStands
<1>6. ASSUME NEW x \in InFlight, NEW r \in InFlight,
             req[x].at \in {"read", "write"}, req[r].at \in {"read", "write"}
      PROVE  x = r
  <2>1. CASE req[x].kind = "secret" \/ req[r].kind = "secret"
    BY <1>1, <1>6, <2>1 DEF OneEach
  <2>2. CASE req[x].kind # "secret" /\ req[r].kind # "secret"
    BY <1>4, <1>6, <2>2
  <2>. QED
    BY <2>1, <2>2
<1>7. chain # <<>> => req[chain[1]].kind # "secret"
  BY <1>1, <1>3 DEF ChainStands
<1>. QED
  BY <1>2, <1>3, <1>4, <1>5, <1>6, <1>7

(* A request that joins the chain, with what it has made of its connector. *)
LEMMA QueueKeeps ==
    ASSUME ConnectorsInv, NEW r \in Requests, NEW i \in Ids,
           req[r] = NULL \/ (req[r].id = i /\ req[r].at = "purge"),
           \A x \in Requests \ {r} : req'[x] = req[x],
           req'[r] # NULL, req'[r].id = i, req'[r].at = "persist", req'[r].kind # "secret",
           chain' = Append(chain, r), \A j \in Ids \ {i} : mem'[j] = mem[j],
           UNCHANGED <<blob, key, behind>>
    PROVE  ChainStands' /\ ListsStand' /\ StoredStand'
<1>1. chain \in Seq(Requests) /\ ChainStands /\ ListsStand /\ StoredStand
  BY DEF ConnectorsInv, ConnectorsTyped
<1>2. \A x : x \in InFlight' <=> (x \in InFlight \/ x = r)
  BY DEF InFlight, Free
<1>3. \A x \in InFlight \ {r} : req'[x] = req[x]
  BY DEF InFlight
<1>4. /\ Len(chain) \in Nat /\ Len(chain') = Len(chain) + 1 /\ chain'[Len(chain) + 1] = r
      /\ \A a \in 1 .. Len(chain) : chain'[a] = chain[a]
  BY <1>1, AppendProperties, LenProperties
<1>5. \A a \in 1 .. Len(chain) : chain[a] \in InFlight /\ chain[a] # r
  <2>1. \A a \in 1 .. Len(chain) : chain[a] \in InFlight
    BY <1>1, ElementOfSeq DEF ChainStands, InFlight, Free
  <2>2. \A a \in 1 .. Len(chain) : chain[a] # r
    BY <1>1 DEF ChainStands
  <2>. QED
    BY <2>1, <2>2
<1>6. \A a \in 1 .. Len(chain') : a \in 1 .. Len(chain) \/ a = Len(chain) + 1
  BY <1>4
<1>7. ChainStands'
  <2>1. ASSUME NEW a \in 1 .. Len(chain')
        PROVE  /\ req'[chain'[a]] # NULL /\ req'[chain'[a]].kind # "secret"
               /\ req'[chain'[a]].at = "persist" \/ (a = 1 /\ req'[chain'[a]].at \in {"read", "write"})
    <3>1. CASE a \in 1 .. Len(chain)
      BY <1>1, <1>3, <1>4, <1>5, <3>1 DEF ChainStands
    <3>2. CASE a = Len(chain) + 1
      BY <1>4, <3>2
    <3>. QED
      BY <1>6, <3>1, <3>2
  <2>2. ASSUME NEW a \in 1 .. Len(chain'), NEW b \in 1 .. Len(chain'), chain'[a] = chain'[b]
        PROVE  a = b
    BY <1>1, <1>4, <1>5, <1>6, <2>2 DEF ChainStands
  <2>3. ASSUME NEW x \in InFlight', req'[x].at \in {"persist", "read", "write"}, req'[x].kind # "secret"
        PROVE  \E a \in 1 .. Len(chain') : chain'[a] = x
    <3>1. CASE x = r
      <4>1. Len(chain) + 1 \in 1 .. Len(chain')
        BY <1>4
      <4>. QED
        BY <1>4, <3>1, <4>1
    <3>2. CASE x # r
      <4>1. PICK a \in 1 .. Len(chain) : chain[a] = x
        BY <1>1, <1>2, <1>3, <2>3, <3>2 DEF ChainStands
      <4>2. a \in 1 .. Len(chain')
        BY <1>4
      <4>. QED
        BY <1>4, <4>1, <4>2
    <3>. QED
      BY <3>1, <3>2
  <2>. QED
    BY <2>1, <2>2, <2>3 DEF ChainStands
<1>8. \A j \in Ids : Waits(j) => Waits(j)'
  <2>1. \A x \in InFlight : req[x].at = "persist" => x # r
    BY RequestTyped
  <2>. QED
    BY <1>2, <1>3, <2>1 DEF Waits
<1>9. Waits(i)' /\ Unstored(i)'
  BY <1>2 DEF Waits, Unstored
<1>10. ListsStand'
  <2>1. SUFFICES ASSUME NEW x \in InFlight', req'[x].at \in {"read", "write"}, NEW j \in Ids, ~Waits(j)'
                 PROVE  req'[x].list[j] = mem'[j]
    BY DEF ListsStand, Waits
  <2>2. x \in InFlight \ {r} /\ req'[x] = req[x] /\ j # i
    BY <1>2, <1>3, <1>9, <2>1
  <2>. QED
    BY <1>1, <1>8, <2>1, <2>2 DEF ListsStand
<1>11. \A j \in Ids : Unstored(j) => Unstored(j)'
  <2>1. \A x \in InFlight : req[x].at \in {"persist", "read", "write"} => x # r
    BY RequestTyped
  <2>. QED
    BY <1>2, <1>3, <2>1 DEF Unstored
<1>12. StoredStand'
  <2>1. \A j \in Ids : ~Unstored(j)' => j # i /\ ~Unstored(j)
    BY <1>9, <1>11
  <2>. QED
    BY <1>1, <2>1 DEF StoredStand, Unstored
<1>. QED
  BY <1>7, <1>10, <1>12

(* A step of a request that is neither in the chain nor comes to it. *)
LEMMA AsideKeeps ==
    ASSUME ConnectorsInv, NEW r \in Requests,
           req[r] # NULL => req[r].at \notin {"persist", "read", "write"},
           \A x \in Requests \ {r} : req'[x] = req[x],
           req'[r] # NULL => req'[r].at \notin {"persist", "read", "write"},
           UNCHANGED <<mem, blob, chain, behind>>, \A j \in Ids : key'[j] = key[j] \/ key'[j] = 0
    PROVE  ChainStands' /\ ListsStand' /\ StoredStand'
<1>1. chain \in Seq(Requests) /\ ChainStands /\ ListsStand /\ StoredStand
  BY DEF ConnectorsInv, ConnectorsTyped
<1>2. \A x : x \in InFlight' <=> (x \in InFlight \ {r} \/ (x = r /\ req'[r] # NULL))
  BY DEF InFlight, Free
<1>3. \A x \in InFlight \ {r} : req'[x] = req[x]
  BY DEF InFlight
<1>4. \A a \in 1 .. Len(chain) : chain[a] \in InFlight \ {r}
  BY <1>1, ElementOfSeq DEF ChainStands, InFlight, Free
<1>5. ChainStands'
  BY <1>1, <1>2, <1>3, <1>4 DEF ChainStands
<1>6. \A j : Waits(j)' <=> Waits(j)
  BY <1>2, <1>3, RequestTyped DEF Waits
<1>7. \A j : Unstored(j)' <=> Unstored(j)
  BY <1>2, <1>3, RequestTyped DEF Unstored
<1>8. ListsStand'
  <2>1. SUFFICES ASSUME NEW x \in InFlight', req'[x].at \in {"read", "write"}, NEW j \in Ids, ~Waits(j)'
                 PROVE  req'[x].list[j] = mem'[j]
    BY DEF ListsStand, Waits
  <2>2. x \in InFlight \ {r} /\ req'[x] = req[x] /\ ~Waits(j)
    BY <1>2, <1>3, <1>6, <2>1
  <2>. QED
    BY <1>1, <2>1, <2>2 DEF ListsStand
<1>9. StoredStand'
  <2>1. \A j \in Ids : ~Unstored(j)' => ~Unstored(j)
    BY <1>7
  <2>. QED
    BY <1>1, <2>1 DEF StoredStand, Unstored
<1>. QED
  BY <1>5, <1>8, <1>9

(* The request at the head of the chain, or a new secret's, moves on. *)
LEMMA HeadKeeps ==
    ASSUME ConnectorsInv, NEW r \in InFlight,
           req[r].at \in {"read", "write"} \/ (chain # <<>> /\ Head(chain) = r),
           req'[r] # NULL, req'[r].id = req[r].id, req'[r].kind = req[r].kind,
           req'[r].at \in {"read", "write"},
           \A x \in Requests \ {r} : req'[x] = req[x],
           UNCHANGED <<mem, blob, chain, key>>, behind => behind',
           req'[r].list = mem \/ (req'[r].list = req[r].list /\ req[r].at \in {"read", "write"})
    PROVE  ChainStands' /\ ListsStand' /\ StoredStand'
<1>1. chain \in Seq(Requests) /\ ChainStands /\ ListsStand /\ StoredStand /\ OneEach
  BY DEF ConnectorsInv, ConnectorsTyped
<1>2. InFlight' = InFlight /\ r \in Requests
  BY DEF InFlight, Free
<1>3. \A x \in InFlight \ {r} : req'[x] = req[x]
  BY DEF InFlight
<1>4. \A a \in 1 .. Len(chain) : chain[a] \in InFlight
  BY <1>1, ElementOfSeq DEF ChainStands, InFlight, Free
<1>5. \A a \in 1 .. Len(chain) : chain[a] = r => a = 1
  <2>1. SUFFICES ASSUME NEW a \in 1 .. Len(chain), chain[a] = r PROVE a = 1
    OBVIOUS
  <2>2. chain # <<>> => 1 \in 1 .. Len(chain) /\ chain[1] = Head(chain)
    BY OnePastTheFile
  <2>3. CASE req[r].at \in {"read", "write"}
    BY <1>1, <2>1, <2>3 DEF ChainStands
  <2>4. CASE chain # <<>> /\ Head(chain) = r
    BY <1>1, <2>1, <2>2, <2>4 DEF ChainStands
  <2>. QED
    BY <2>3, <2>4
<1>6. ChainStands'
  <2>1. ASSUME NEW a \in 1 .. Len(chain)
        PROVE  /\ req'[chain[a]] # NULL /\ req'[chain[a]].kind # "secret"
               /\ req'[chain[a]].at = "persist" \/ (a = 1 /\ req'[chain[a]].at \in {"read", "write"})
    <3>1. CASE chain[a] = r
      BY <1>1, <1>5, <3>1 DEF ChainStands
    <3>2. CASE chain[a] # r
      BY <1>1, <1>3, <1>4, <3>2 DEF ChainStands
    <3>. QED
      BY <3>1, <3>2
  <2>2. ASSUME NEW x \in InFlight, req'[x].at \in {"persist", "read", "write"}, req'[x].kind # "secret"
        PROVE  \E a \in 1 .. Len(chain) : chain[a] = x
    <3>1. CASE x = r
      BY <1>1, <2>2, <3>1, OnePastTheFile DEF ChainStands
    <3>2. CASE x # r
      BY <1>1, <1>3, <2>2, <3>2 DEF ChainStands
    <3>. QED
      BY <3>1, <3>2
  <2>. QED
    BY <1>1, <1>2, <2>1, <2>2 DEF ChainStands
<1>7. \A x \in InFlight \ {r} : req[x].at \notin {"read", "write"}
  <2>1. SUFFICES ASSUME NEW x \in InFlight \ {r}, req[x].at \in {"read", "write"} PROVE FALSE
    OBVIOUS
  <2>2. CASE req[r].at \in {"read", "write"}
    BY <2>1, <2>2, OnePastTheFile
  <2>3. CASE chain # <<>> /\ Head(chain) = r
    BY <2>1, <2>3, OnePastTheFile
  <2>. QED
    BY <2>2, <2>3
<1>8. \A j : Waits(j)' => Waits(j)
  BY <1>2, <1>3 DEF Waits
<1>9. \A j : Unstored(j) => Unstored(j)'
  <2>1. SUFFICES ASSUME NEW j, NEW x \in InFlight, req[x].id = j, req[x].kind # "secret",
                        req[x].at \in {"persist", "read", "write"}
                 PROVE  Unstored(j)'
    BY DEF Unstored
  <2>2. req'[x].id = j /\ req'[x].kind # "secret" /\ req'[x].at \in {"persist", "read", "write"}
    BY <1>3, <2>1
  <2>. QED
    BY <1>2, <2>2 DEF Unstored
<1>10. ListsStand'
  <2>1. SUFFICES ASSUME NEW x \in InFlight, req'[x].at \in {"read", "write"}, NEW j \in Ids, ~Waits(j)'
                 PROVE  req'[x].list[j] = mem[j]
    BY <1>2 DEF ListsStand, Waits
  <2>2. x = r
    BY <1>3, <1>7, <2>1
  <2>3. CASE req'[r].list = mem
    BY <2>2, <2>3
  <2>4. CASE req'[r].list = req[r].list /\ req[r].at \in {"read", "write"}
    <3>1. \A k \in Ids : Waits(k) => Waits(k)'
      <4>1. \A y \in InFlight : req[y].at = "persist" => y # r
        BY <2>4
      <4>. QED
        BY <1>2, <1>3, <4>1 DEF Waits
    <3>. QED
      BY <1>1, <2>1, <2>2, <2>4, <3>1 DEF ListsStand
  <2>. QED
    BY <2>3, <2>4
<1>11. StoredStand'
  <2>1. \A j \in Ids : ~Unstored(j)' => ~Unstored(j)
    BY <1>9
  <2>. QED
    BY <1>1, <2>1 DEF StoredStand, Unstored
<1>. QED
  BY <1>6, <1>10, <1>11

(* The request at the head is done with its persist, and leaves the chain. *)
LEMMA LeaveKeeps ==
    ASSUME ConnectorsInv, NEW r \in InFlight,
           req[r].at \in {"read", "write"} \/ (chain # <<>> /\ Head(chain) = r),
           req'[r] # NULL => req'[r].at \notin {"persist", "read", "write"},
           \A x \in Requests \ {r} : req'[x] = req[x],
           UNCHANGED <<mem, key>>,
           chain' = IF req[r].kind = "secret" THEN chain ELSE Tail(chain),
           \/ behind'
           \/ /\ req[r].at = "write"
              /\ \A i \in Ids : /\ blob'.list[i] = req[r].list[i]
                                /\ req[r].list[i] # NULL /\ req[r].list[i].cred /\ key[i] # 0
                                      => blob'.secret[i] = key[i]
    PROVE  ChainStands' /\ ListsStand' /\ StoredStand'
<1>1. chain \in Seq(Requests) /\ ChainStands /\ ListsStand /\ OneEach
  BY DEF ConnectorsInv, ConnectorsTyped
<1>2. \A x : x \in InFlight' <=> (x \in InFlight \ {r} \/ (x = r /\ req'[r] # NULL))
  BY DEF InFlight, Free
<1>3. \A x \in InFlight \ {r} : req'[x] = req[x]
  BY DEF InFlight
<1>4. \A x \in InFlight \ {r} : req[x].at \notin {"read", "write"}
  <2>1. SUFFICES ASSUME NEW x \in InFlight \ {r}, req[x].at \in {"read", "write"} PROVE FALSE
    OBVIOUS
  <2>2. CASE req[r].at \in {"read", "write"}
    BY <2>1, <2>2, OnePastTheFile
  <2>3. CASE chain # <<>> /\ Head(chain) = r
    BY <2>1, <2>3, OnePastTheFile
  <2>. QED
    BY <2>2, <2>3
<1>5. CASE req[r].kind = "secret"
  <2>1. InFlight = {r} /\ chain = <<>>
    BY <1>1, <1>5, OnePastTheFile DEF OneEach
  <2>2. chain' = <<>> /\ Len(chain') = 0
    BY <1>5, <2>1
  <2>3. \A x \in InFlight' : req'[x].at \notin {"persist", "read", "write"}
    BY <1>2, <2>1
  <2>. QED
    <3>1. ChainStands'
      BY <2>2, <2>3 DEF ChainStands
    <3>2. ListsStand'
      BY <2>3 DEF ListsStand
    <3>3. \A i \in Ids : ~Waits(i)
      BY <1>1, <1>5, <2>1 DEF Waits, OneEach
    <3>4. StoredStand'
      <4>1. CASE behind'
        BY <4>1 DEF StoredStand
      <4>2. CASE ~behind'
        BY <1>1, <3>3, <4>2 DEF StoredStand, ListsStand
      <4>. QED
        BY <4>1, <4>2
    <3>. QED
      BY <3>1, <3>2, <3>4
<1>6. CASE req[r].kind # "secret"
  <2>1. chain # <<>> /\ 1 \in 1 .. Len(chain) /\ chain[1] = r
    <3>1. CASE req[r].at \in {"read", "write"}
      BY <1>6, <3>1, OnePastTheFile
    <3>2. CASE chain # <<>> /\ Head(chain) = r
      BY <3>2, OnePastTheFile
    <3>. QED
      BY <3>1, <3>2
  <2>2. PICK rest : rest = Tail(chain)
    OBVIOUS
  <2>3. chain' = rest
    BY <1>6, <2>2
  <2>4. /\ rest \in Seq(Requests) /\ Len(chain) \in Nat /\ Len(rest) = Len(chain) - 1
        /\ \A a \in 1 .. Len(rest) : rest[a] = chain[a + 1]
    BY <1>1, <2>1, <2>2, HeadTailProperties, LenProperties
  <2>5. \A a \in 1 .. Len(rest) : a + 1 \in 1 .. Len(chain) /\ a + 1 # 1
    BY <2>4
  <2>6. \A a \in 1 .. Len(chain) : chain[a] \in InFlight
    BY <1>1, ElementOfSeq DEF ChainStands, InFlight, Free
  <2>7. \A a \in 1 .. Len(rest) : rest[a] \in InFlight \ {r} /\ req[rest[a]].at = "persist"
    <3>1. SUFFICES ASSUME NEW a \in 1 .. Len(rest)
                   PROVE  rest[a] \in InFlight \ {r} /\ req[rest[a]].at = "persist"
      OBVIOUS
    <3>2. PICK b \in 1 .. Len(chain) : b # 1 /\ rest[a] = chain[b]
      BY <2>4, <2>5
    <3>3. chain[b] # r
      BY <1>1, <2>1, <3>2 DEF ChainStands
    <3>4. req[chain[b]].at = "persist"
      BY <1>1, <3>2 DEF ChainStands
    <3>. QED
      BY <2>6, <3>2, <3>3, <3>4
  <2>8. ChainStands'
    <3>1. ASSUME NEW a \in 1 .. Len(rest)
          PROVE  req'[rest[a]] # NULL /\ req'[rest[a]].kind # "secret" /\ req'[rest[a]].at = "persist"
      BY <1>1, <1>3, <2>4, <2>5, <2>7 DEF ChainStands
    <3>2. ASSUME NEW a \in 1 .. Len(rest), NEW b \in 1 .. Len(rest), rest[a] = rest[b] PROVE a = b
      <4>1. a + 1 = b + 1
        BY <1>1, <2>4, <2>5, <3>2 DEF ChainStands
      <4>. QED
        BY <4>1
    <3>3. ASSUME NEW x \in InFlight', req'[x].at \in {"persist", "read", "write"}, req'[x].kind # "secret"
          PROVE  \E a \in 1 .. Len(rest) : rest[a] = x
      <4>1. x \in InFlight \ {r} /\ req'[x] = req[x]
        BY <1>2, <1>3, <3>3
      <4>2. PICK a \in 1 .. Len(chain) : chain[a] = x
        BY <1>1, <3>3, <4>1 DEF ChainStands
      <4>3. a # 1
        BY <2>1, <4>1, <4>2
      <4>4. a - 1 \in 1 .. Len(rest) /\ (a - 1) + 1 = a
        BY <2>4, <4>2, <4>3
      <4>. QED
        BY <2>4, <4>2, <4>4
    <3>4. \A a \in 1 .. Len(chain') :
             /\ req'[chain'[a]] # NULL /\ req'[chain'[a]].kind # "secret"
             /\ req'[chain'[a]].at = "persist" \/ (a = 1 /\ req'[chain'[a]].at \in {"read", "write"})
      BY <2>3, <3>1
    <3>5. \A a, b \in 1 .. Len(chain') : chain'[a] = chain'[b] => a = b
      BY <2>3, <3>2
    <3>6. \A x \in InFlight' : req'[x].at \in {"persist", "read", "write"} /\ req'[x].kind # "secret" =>
             \E a \in 1 .. Len(chain') : chain'[a] = x
      BY <2>3, <3>3
    <3>. QED
      BY <3>4, <3>5, <3>6 DEF ChainStands
  <2>9. ListsStand'
    BY <1>2, <1>3, <1>4 DEF ListsStand
  <2>10. StoredStand'
    <3>1. CASE behind'
      BY <3>1 DEF StoredStand
    <3>2. CASE ~behind'
      <4>1. ASSUME NEW i \in Ids, Waits(i) PROVE Unstored(i)'
        <5>1. PICK x \in InFlight : req[x].id = i /\ req[x].at = "persist"
          BY <4>1 DEF Waits
        <5>2. x # r /\ req[x].kind # "secret"
          BY <1>1, <3>2, <5>1 DEF OneEach
        <5>3. x \in InFlight' /\ req'[x] = req[x]
          BY <1>2, <1>3, <5>2
        <5>. QED
          BY <5>1, <5>2, <5>3 DEF Unstored
      <4>2. ASSUME NEW i \in Ids, ~Unstored(i)' PROVE blob'.list[i] = mem'[i]
        BY <1>1, <3>2, <4>1, <4>2 DEF ListsStand
      <4>. QED
        BY <3>2, <4>2 DEF StoredStand, Unstored
    <3>. QED
      BY <3>1, <3>2
  <2>. QED
    BY <2>8, <2>9, <2>10
<1>. QED
  BY <1>5, <1>6

LEMMA BeginKeepsRegistry ==
    ASSUME ConnectorsInv, ~Overlap, NEW r \in Requests, NEW i \in Ids,
           \/ \E c \in Configs : Create(r, i, c) \/ Patch(r, i, c)
           \/ Delete(r, i) \/ SetWebhookSecret(r, i)
    PROVE  ConnectorsInv'
<1> USE ConnectorsAssumption
<1>1. ConnectorsTyped /\ OneEach /\ ChainStands /\ RuntimeStands /\ ListsStand /\ StoredStand
  BY DEF ConnectorsInv
<1>2. req[r] = NULL /\ UNCHANGED <<blob, yaml, key, scheds, runs, torn, behind>>
  BY DEF Create, Patch, Delete, SetWebhookSecret, Free, storeVars, runVars
<1>3. \A x \in InFlight \ {r} : req[x].id # i /\ req[x].kind # "secret"
  <2>1. Admitted(i) \/ InFlight = {}
    BY DEF Create, Patch, Delete, SetWebhookSecret
  <2>. QED
    BY <2>1 DEF Admitted, Busy
<1>4. \A x \in InFlight : x # r /\ req[x].id # i
  BY <1>2, <1>3 DEF InFlight, Free
<1>5. i \notin torn => AsConfigured(i)
  BY <1>1, <1>4 DEF RuntimeStands
<1>6. ASSUME NEW kind \in {"create", "patch", "delete", "secret"}, NEW new \in Configs \cup {NULL},
             NEW at \in {"purge", "persist", "read"}, NEW list \in Instances,
             req' = [req EXCEPT ![r] = [kind |-> kind, id |-> i, new |-> new, was |-> mem[i], at |-> at,
                                        list |-> list, prior |-> NULL]]
      PROVE  /\ req' \in [Requests -> ConnectorRequests \cup {NULL}]
             /\ \A x \in Requests \ {r} : req'[x] = req[x]
             /\ req'[r] # NULL /\ req'[r].id = i /\ req'[r].kind = kind /\ req'[r].new = new
             /\ req'[r].at = at /\ req'[r].list = list
  <2>1. PICK q : q = [kind |-> kind, id |-> i, new |-> new, was |-> mem[i], at |-> at,
                      list |-> list, prior |-> NULL]
    OBVIOUS
  <2>2. mem[i] \in Configs \cup {NULL}
    BY <1>1 DEF ConnectorsTyped, Instances
  <2>3. /\ q \in ConnectorRequests /\ q.id = i /\ q.kind = kind /\ q.new = new /\ q.at = at
        /\ q.list = list
    BY <1>6, <2>1, <2>2 DEF ConnectorRequests
  <2>4. q # NULL
    BY <2>3
  <2>5. req' = [req EXCEPT ![r] = q] /\ req \in [Requests -> ConnectorRequests \cup {NULL}]
    BY <1>1, <1>6, <2>1 DEF ConnectorsTyped
  <2>. QED
    BY <2>3, <2>4, <2>5
<1>7. NoInstances \in Instances
  BY DEF NoInstances, Instances
<1>8. ASSUME NEW c \in Configs, NEW kind \in {"create", "patch"}, Began(r, kind, i, c, "persist"),
             mem' = [mem EXCEPT ![i] = c], chain' = Append(chain, r),
             kind = "create" => mem[i] = NULL
      PROVE  ConnectorsInv'
  <2>1. /\ req' \in [Requests -> ConnectorRequests \cup {NULL}]
        /\ \A x \in Requests \ {r} : req'[x] = req[x]
        /\ req'[r] # NULL /\ req'[r].id = i /\ req'[r].kind = kind /\ req'[r].new = c
        /\ req'[r].at = "persist"
    BY <1>6, <1>7, <1>8 DEF Began
  <2>2. mem' \in Instances /\ mem'[i] = c /\ c # NULL /\ \A j \in Ids \ {i} : mem'[j] = mem[j]
    BY <1>1, <1>8 DEF ConnectorsTyped, Instances
  <2>3. chain' \in Seq(Requests)
    BY <1>1, <1>8, AppendProperties DEF ConnectorsTyped
  <2>4. ConnectorsTyped'
    BY <1>1, <1>2, <2>1, <2>2, <2>3 DEF ConnectorsTyped
  <2>5. ChainStands' /\ ListsStand' /\ StoredStand'
    BY <1>2, <1>8, <2>1, <2>2, QueueKeeps
  <2>6. RequestStands(r)'
    BY <2>1, <2>2 DEF RequestStands
  <2>7. i \notin torn /\ kind = "create" => scheds[i] = {}
    BY <1>5, <1>8 DEF AsConfigured
  <2>8. ~Untouched(r)'
    BY <2>1 DEF Untouched
  <2>9. OneEach' /\ (\A x \in InFlight' : RequestStands(x)') /\ RuntimeStands'
    BY <1>2, <1>3, <2>1, <2>2, <2>6, <2>7, <2>8, MoveKeeps
  <2>. QED
    BY <2>4, <2>5, <2>9 DEF ConnectorsInv
<1>9. CASE Delete(r, i)
  <2>1. /\ req' \in [Requests -> ConnectorRequests \cup {NULL}]
        /\ \A x \in Requests \ {r} : req'[x] = req[x]
        /\ req'[r] # NULL /\ req'[r].id = i /\ req'[r].kind = "delete" /\ req'[r].new = NULL
        /\ req'[r].at = "purge"
    BY <1>6, <1>7, <1>9 DEF Delete, Began
  <2>2. UNCHANGED <<mem, chain>>
    BY <1>9 DEF Delete
  <2>3. ConnectorsTyped'
    BY <1>1, <1>2, <2>1, <2>2 DEF ConnectorsTyped
  <2>4. ChainStands' /\ ListsStand' /\ StoredStand'
    BY <1>2, <2>1, <2>2, AsideKeeps
  <2>5. RequestStands(r)'
    BY <2>1 DEF RequestStands
  <2>6. i \notin torn => AsConfigured(i)'
    BY <1>2, <1>5, <2>2 DEF AsConfigured
  <2>7. OneEach' /\ (\A x \in InFlight' : RequestStands(x)') /\ RuntimeStands'
    BY <1>2, <1>3, <2>1, <2>2, <2>5, <2>6, MoveKeeps
  <2>. QED
    BY <2>3, <2>4, <2>7 DEF ConnectorsInv
<1>10. CASE SetWebhookSecret(r, i)
  <2>1. /\ req' \in [Requests -> ConnectorRequests \cup {NULL}]
        /\ \A x \in Requests \ {r} : req'[x] = req[x]
        /\ req'[r] # NULL /\ req'[r].id = i /\ req'[r].kind = "secret"
        /\ req'[r].at = "read" /\ req'[r].list = mem
    BY <1>1, <1>6, <1>10 DEF SetWebhookSecret, ConnectorsTyped, Instances
  <2>2. UNCHANGED <<mem, chain>> /\ InFlight = {}
    BY <1>10 DEF SetWebhookSecret
  <2>3. ConnectorsTyped'
    BY <1>1, <1>2, <2>1, <2>2 DEF ConnectorsTyped
  <2>4. InFlight' = {r}
    BY <2>1, <2>2 DEF InFlight, Free
  <2>5. chain = <<>>
    BY <2>2, OnePastTheFile
  <2>6. ChainStands'
    BY <2>1, <2>2, <2>4, <2>5 DEF ChainStands
  <2>7. ListsStand'
    BY <2>1, <2>2, <2>4 DEF ListsStand
  <2>8. StoredStand'
    <3>1. \A j \in Ids : ~Unstored(j)
      BY <2>2 DEF Unstored
    <3>. QED
      BY <1>1, <1>2, <2>2, <3>1 DEF StoredStand
  <2>9. RequestStands(r)'
    BY <2>1 DEF RequestStands
  <2>10. i \notin torn => AsConfigured(i)'
    BY <1>2, <1>5, <2>2 DEF AsConfigured
  <2>11. OneEach' /\ (\A x \in InFlight' : RequestStands(x)') /\ RuntimeStands'
    BY <1>2, <1>3, <2>1, <2>2, <2>9, <2>10, MoveKeeps
  <2>. QED
    BY <2>3, <2>6, <2>7, <2>8, <2>11 DEF ConnectorsInv
<1>. QED
  BY <1>8, <1>9, <1>10 DEF Create, Patch

(* The other requests, and what becomes of the fields of one that moves. *)
LEMMA NoOther ==
    ASSUME ConnectorsInv, NEW r \in InFlight
    PROVE  \A x \in InFlight \ {r} : req[x].id # req[r].id /\ req[x].kind # "secret"
BY DEF ConnectorsInv, OneEach

LEMMA BecomesTyped ==
    ASSUME ConnectorsInv, NEW r \in InFlight, NEW q \in ConnectorRequests \cup {NULL},
           req' = [req EXCEPT ![r] = q]
    PROVE  /\ req' \in [Requests -> ConnectorRequests \cup {NULL}]
           /\ req'[r] = q /\ \A x \in Requests \ {r} : req'[x] = req[x]
<1>1. req \in [Requests -> ConnectorRequests \cup {NULL}] /\ r \in Requests
  BY DEF ConnectorsInv, ConnectorsTyped, InFlight, Free
<1>. QED
  BY <1>1

LEMMA GoesTyped ==
    ASSUME ConnectorsInv, NEW r \in InFlight,
           NEW at \in {"purge", "persist", "read", "write", "stop", "start", "clear"}, Goes(r, at)
    PROVE  /\ req' \in [Requests -> ConnectorRequests \cup {NULL}]
           /\ \A x \in Requests \ {r} : req'[x] = req[x]
           /\ req'[r] # NULL /\ req'[r].id = req[r].id /\ req'[r].kind = req[r].kind
           /\ req'[r].new = req[r].new /\ req'[r].list = req[r].list /\ req'[r].at = at
<1>1. r \in Requests /\ req[r] \in ConnectorRequests
  BY RequestTyped
<1>2. PICK q : q = [req[r] EXCEPT !.at = at]
  OBVIOUS
<1>3. /\ q \in ConnectorRequests /\ q.id = req[r].id /\ q.kind = req[r].kind
      /\ q.new = req[r].new /\ q.list = req[r].list /\ q.at = at
  BY <1>1, <1>2 DEF ConnectorRequests
<1>4. q # NULL
  BY <1>3, ConnectorsAssumption
<1>5. req' = [req EXCEPT ![r] = q]
  BY <1>1, <1>2 DEF Goes
<1>6. /\ req' \in [Requests -> ConnectorRequests \cup {NULL}]
      /\ req'[r] = q /\ \A x \in Requests \ {r} : req'[x] = req[x]
  BY <1>3, <1>5, BecomesTyped
<1>. QED
  BY <1>3, <1>4, <1>6

LEMMA DoneTyped ==
    ASSUME ConnectorsInv, NEW r \in InFlight, Done(r)
    PROVE  /\ req' \in [Requests -> ConnectorRequests \cup {NULL}]
           /\ req'[r] = NULL /\ \A x \in Requests \ {r} : req'[x] = req[x]
BY BecomesTyped DEF Done

(* DELETE, between what it purges and the persist of what it removed. *)
LEMMA PurgeKeepsRegistry ==
    ASSUME ConnectorsInv, NEW r \in Requests, DeleteRefused(r) \/ Remove(r)
    PROVE  ConnectorsInv'
<1>1. ConnectorsTyped /\ OneEach /\ RuntimeStands /\ RequestStands(r) /\ r \in InFlight /\ req[r].at = "purge"
  BY DEF ConnectorsInv, DeleteRefused, Remove, InFlight, Free
<1>2. PICK i \in Ids : i = req[r].id
  BY <1>1, RequestTyped
<1>3. \A x \in InFlight \ {r} : req[x].id # i /\ req[x].kind # "secret"
  BY <1>1, <1>2, NoOther
<1>4. UNCHANGED <<blob, yaml, key, scheds, runs, torn, behind>>
  BY DEF DeleteRefused, Remove, storeVars, runVars
<1>5. CASE DeleteRefused(r)
  <2>1. /\ req' \in [Requests -> ConnectorRequests \cup {NULL}]
        /\ req'[r] = NULL /\ \A x \in Requests \ {r} : req'[x] = req[x]
    BY <1>1, <1>5, DoneTyped DEF DeleteRefused
  <2>2. UNCHANGED <<mem, chain>>
    BY <1>5 DEF DeleteRefused
  <2>3. ConnectorsTyped'
    BY <1>1, <1>4, <2>1, <2>2 DEF ConnectorsTyped
  <2>4. ChainStands' /\ ListsStand' /\ StoredStand'
    BY <1>1, <1>4, <2>1, <2>2, AsideKeeps
  <2>5. i \notin torn => AsConfigured(i)
    BY <1>1, <1>3 DEF RuntimeStands, Untouched
  <2>6. i \notin torn' => AsConfigured(i)'
    BY <1>4, <2>2, <2>5 DEF AsConfigured
  <2>7. OneEach' /\ (\A x \in InFlight' : RequestStands(x)') /\ RuntimeStands'
    BY <1>2, <1>3, <1>4, <2>1, <2>2, <2>6, MoveKeeps
  <2>. QED
    BY <2>3, <2>4, <2>7 DEF ConnectorsInv
<1>6. CASE Remove(r)
  <2>1. req[r].kind = "delete" /\ req[r].new = NULL
    <3>1. req[r].kind \in {"create", "patch", "delete", "secret"}
      BY <1>1, RequestTyped DEF ConnectorRequests
    <3>. QED
      BY <1>1, <3>1 DEF RequestStands, OneEach
  <2>2. /\ req' \in [Requests -> ConnectorRequests \cup {NULL}]
        /\ \A x \in Requests \ {r} : req'[x] = req[x]
        /\ req'[r] # NULL /\ req'[r].id = i /\ req'[r].kind = "delete"
        /\ req'[r].new = NULL /\ req'[r].at = "persist"
    BY <1>1, <1>2, <1>6, <2>1, GoesTyped DEF Remove
  <2>3. mem' \in Instances /\ mem'[i] = NULL /\ \A j \in Ids \ {i} : mem'[j] = mem[j]
    BY <1>1, <1>2, <1>6 DEF Remove, ConnectorsTyped, Instances
  <2>4. chain' = Append(chain, r) /\ chain' \in Seq(Requests)
    BY <1>1, <1>6, AppendProperties DEF Remove, ConnectorsTyped
  <2>5. ConnectorsTyped'
    BY <1>1, <1>4, <2>2, <2>3, <2>4 DEF ConnectorsTyped
  <2>6. ChainStands' /\ ListsStand' /\ StoredStand'
    BY <1>1, <1>2, <1>4, <2>2, <2>3, <2>4, QueueKeeps
  <2>7. RequestStands(r)'
    BY <2>2, <2>3 DEF RequestStands
  <2>8. ~Untouched(r)'
    BY <2>2 DEF Untouched
  <2>9. OneEach' /\ (\A x \in InFlight' : RequestStands(x)') /\ RuntimeStands'
    BY <1>2, <1>3, <1>4, <2>2, <2>3, <2>7, <2>8, MoveKeeps
  <2>. QED
    BY <2>5, <2>6, <2>9 DEF ConnectorsInv
<1>. QED
  BY <1>5, <1>6

(* A persist up to its write: the file, and what is read of the secret. *)
LEMMA ReadKeepsRegistry ==
    ASSUME ConnectorsInv, NEW r \in Requests, PersistFile(r) \/ ReadBlob(r) \/ ReadBlobFails(r)
    PROVE  ConnectorsInv'
<1>1. ConnectorsTyped /\ OneEach /\ RuntimeStands
  BY DEF ConnectorsInv
<1>2. r \in InFlight /\ req[r].at \in {"persist", "read"}
      /\ (req[r].at \in {"read", "write"} \/ (chain # <<>> /\ Head(chain) = r))
  BY OnePastTheFile DEF PersistFile, ReadBlob, ReadBlobFails, InFlight, Free
<1>3. PICK i \in Ids : i = req[r].id
  BY <1>2, RequestTyped
<1>4. \A x \in InFlight \ {r} : req[x].id # i /\ req[x].kind # "secret"
  BY <1>2, <1>3, NoOther
<1>5. UNCHANGED <<mem, blob, key, chain, scheds, runs, torn>> /\ behind' \in BOOLEAN /\ (behind => behind')
  BY <1>1 DEF PersistFile, ReadBlob, ReadBlobFails, storeVars, runVars, ConnectorsTyped
<1>6. yaml' \in Instances
  BY <1>1 DEF PersistFile, ReadBlob, ReadBlobFails, storeVars, ConnectorsTyped
<1>7. /\ req' \in [Requests -> ConnectorRequests \cup {NULL}]
      /\ \A x \in Requests \ {r} : req'[x] = req[x]
      /\ req'[r] # NULL /\ req'[r].id = i /\ req'[r].kind = req[r].kind /\ req'[r].new = req[r].new
      /\ req'[r].at \in {"read", "write"}
      /\ req'[r].list = mem \/ (req'[r].list = req[r].list /\ req[r].at \in {"read", "write"})
  <2>1. req[r] \in ConnectorRequests /\ mem \in Instances /\ blob \in Blobs \cup {NULL}
    BY <1>1, <1>2, RequestTyped DEF ConnectorsTyped
  <2>2. CASE PersistFile(r)
    <3>1. PICK q : q = [req[r] EXCEPT !.at = "read", !.list = mem]
      OBVIOUS
    <3>2. /\ q \in ConnectorRequests /\ q.id = req[r].id /\ q.kind = req[r].kind
          /\ q.new = req[r].new /\ q.list = mem /\ q.at = "read"
      BY <2>1, <3>1 DEF ConnectorRequests
    <3>3. q # NULL
      BY <3>2, ConnectorsAssumption
    <3>4. req' = [req EXCEPT ![r] = q]
      BY <1>1, <2>1, <2>2, <3>1 DEF PersistFile, ConnectorsTyped, ConnectorRequests
    <3>5. /\ req' \in [Requests -> ConnectorRequests \cup {NULL}]
          /\ req'[r] = q /\ \A x \in Requests \ {r} : req'[x] = req[x]
      BY <1>2, <3>2, <3>4, BecomesTyped
    <3>. QED
      BY <1>3, <3>2, <3>3, <3>5
  <2>3. CASE ReadBlob(r)
    <3>1. PICK q : q = [req[r] EXCEPT !.at = "write", !.prior = blob]
      OBVIOUS
    <3>2. /\ q \in ConnectorRequests /\ q.id = req[r].id /\ q.kind = req[r].kind
          /\ q.new = req[r].new /\ q.list = req[r].list /\ q.at = "write"
      BY <2>1, <3>1 DEF ConnectorRequests
    <3>3. q # NULL
      BY <3>2, ConnectorsAssumption
    <3>4. req' = [req EXCEPT ![r] = q]
      BY <1>1, <2>1, <2>3, <3>1 DEF ReadBlob, ConnectorsTyped, ConnectorRequests
    <3>5. /\ req' \in [Requests -> ConnectorRequests \cup {NULL}]
          /\ req'[r] = q /\ \A x \in Requests \ {r} : req'[x] = req[x]
      BY <1>2, <3>2, <3>4, BecomesTyped
    <3>. QED
      BY <1>3, <2>3, <3>2, <3>3, <3>5 DEF ReadBlob
  <2>4. CASE ReadBlobFails(r)
    BY <1>2, <1>3, <2>4, GoesTyped DEF ReadBlobFails
  <2>. QED
    BY <2>2, <2>3, <2>4
<1>8. ConnectorsTyped'
  BY <1>1, <1>5, <1>6, <1>7 DEF ConnectorsTyped
<1>9. ChainStands' /\ ListsStand' /\ StoredStand'
  BY <1>2, <1>3, <1>5, <1>7, HeadKeeps
<1>10. RequestStands(r)'
  <2>1. RequestStands(r)
    BY <1>2 DEF ConnectorsInv
  <2>. QED
    BY <1>2, <1>3, <1>5, <1>7, <2>1 DEF RequestStands
<1>11. req'[r].kind = "secret" => InFlight \subseteq {r} /\ req'[r].at \in {"read", "write"}
  BY <1>1, <1>2, <1>7 DEF OneEach
<1>12. i \notin torn' => /\ Untouched(r)' => AsConfigured(i)'
                         /\ req'[r].kind = "create" \/ req'[r].at \in {"start", "clear"} => scheds'[i] = {}
  <2>1. Untouched(r)' => Untouched(r)
    BY <1>7 DEF Untouched
  <2>2. AsConfigured(i) <=> AsConfigured(i)'
    BY <1>5 DEF AsConfigured
  <2>3. i \notin torn => /\ Untouched(r) => AsConfigured(i)
                         /\ req[r].kind = "create" => scheds[i] = {}
    BY <1>1, <1>2, <1>3, <1>4 DEF RuntimeStands
  <2>. QED
    BY <1>5, <1>7, <2>1, <2>2, <2>3
<1>13. OneEach' /\ (\A x \in InFlight' : RequestStands(x)') /\ RuntimeStands'
  BY <1>3, <1>4, <1>5, <1>7, <1>10, <1>11, <1>12, MoveKeeps
<1>. QED
  BY <1>8, <1>9, <1>13 DEF ConnectorsInv

(* The end of a persist: the file that cannot be written, or the secret. *)
LEMMA WriteKeepsRegistry ==
    ASSUME ConnectorsInv, NEW r \in Requests, PersistFails(r) \/ WriteBlob(r) \/ WriteBlobFails(r)
    PROVE  ConnectorsInv'
<1>1. ConnectorsTyped /\ OneEach /\ RuntimeStands
  BY DEF ConnectorsInv
<1>2. r \in InFlight /\ req[r].at \in {"persist", "write"} /\ req[r] \in ConnectorRequests
      /\ (req[r].at \in {"read", "write"} \/ (chain # <<>> /\ Head(chain) = r))
  BY OnePastTheFile, RequestTyped DEF PersistFails, WriteBlob, WriteBlobFails, InFlight, Free
<1>3. PICK i \in Ids : i = req[r].id
  BY <1>2, RequestTyped
<1>4. \A x \in InFlight \ {r} : req[x].id # i /\ req[x].kind # "secret"
  BY <1>2, <1>3, NoOther
<1>5. UNCHANGED <<mem, yaml, key, scheds, runs>>
  BY DEF PersistFails, WriteBlob, WriteBlobFails, storeVars, runVars
<1>6. /\ torn \subseteq torn' /\ behind' \in BOOLEAN
      /\ PersistFails(r) => i \in torn' /\ behind'
  BY <1>1, <1>3 DEF PersistFails, WriteBlob, WriteBlobFails, storeVars, runVars, ConnectorsTyped
<1>7. RequestStands(r)
  BY <1>2 DEF ConnectorsInv
<1>8. chain' = IF req[r].kind = "secret" THEN chain ELSE Tail(chain)
  <2>1. CASE PersistFails(r)
    <3>1. req[r].kind # "secret"
      BY <2>1, OnePastTheFile DEF PersistFails
    <3>. QED
      BY <2>1, <3>1 DEF PersistFails
  <2>2. CASE WriteBlob(r) \/ WriteBlobFails(r)
    BY <2>2 DEF WriteBlob, WriteBlobFails, AfterPersist
  <2>. QED
    BY <2>1, <2>2
<1>9. chain' \in Seq(Requests)
  <2>1. req[r].kind # "secret" => chain # <<>>
    BY <1>2, OnePastTheFile
  <2>. QED
    BY <1>1, <1>8, <2>1, HeadTailProperties DEF ConnectorsTyped
<1>10. /\ req' \in [Requests -> ConnectorRequests \cup {NULL}]
       /\ \A x \in Requests \ {r} : req'[x] = req[x]
       /\ req'[r] # NULL =>
             /\ req'[r].id = i /\ req'[r].kind = req[r].kind /\ req'[r].new = req[r].new
             /\ \/ req[r].kind = "create" /\ req[r].new.on /\ req'[r].at = "start"
                \/ req[r].kind \in {"patch", "delete"} /\ req'[r].at = "stop"
       /\ req'[r] = NULL => i \in torn' \/ req[r].kind = "secret" \/ (req[r].kind = "create" /\ ~req[r].new.on)
  <2>1. CASE PersistFails(r)
    BY <1>2, <1>6, <2>1, DoneTyped DEF PersistFails
  <2>2. CASE AfterPersist(r)
    <3>1. req[r].kind \in {"create", "patch", "delete", "secret"}
      BY <1>2 DEF ConnectorRequests
    <3>2. req \in [Requests -> ConnectorRequests \cup {NULL}]
      BY <1>1 DEF ConnectorsTyped
    <3>3. CASE req[r].kind = "secret" \/ (req[r].kind = "create" /\ ~req[r].new.on)
      <4>1. Done(r)
        BY <2>2, <3>2, <3>3 DEF AfterPersist, Done
      <4>. QED
        BY <1>2, <3>3, <4>1, DoneTyped
    <3>4. CASE req[r].kind = "create" /\ req[r].new.on
      <4>1. Goes(r, "start")
        BY <2>2, <3>2, <3>4 DEF AfterPersist, Goes
      <4>. QED
        BY <1>2, <1>3, <3>4, <4>1, GoesTyped
    <3>5. CASE req[r].kind \in {"patch", "delete"}
      <4>1. Goes(r, "stop")
        BY <2>2, <3>2, <3>5 DEF AfterPersist, Goes
      <4>. QED
        BY <1>2, <1>3, <3>5, <4>1, GoesTyped
    <3>. QED
      BY <3>1, <3>3, <3>4, <3>5
  <2>. QED
    BY <2>1, <2>2 DEF WriteBlob, WriteBlobFails
<1>11. /\ blob' \in Blobs \cup {NULL}
       /\ \/ behind'
          \/ /\ req[r].at = "write"
             /\ \A j \in Ids : /\ blob'.list[j] = req[r].list[j]
                               /\ req[r].list[j] # NULL /\ req[r].list[j].cred /\ key[j] # 0
                                     => blob'.secret[j] = key[j]
  <2>1. CASE PersistFails(r) \/ WriteBlobFails(r)
    BY <1>1, <2>1 DEF PersistFails, WriteBlobFails, storeVars, ConnectorsTyped
  <2>2. CASE WriteBlob(r)
    <3>1. /\ req[r].list \in Instances /\ req[r].prior \in Blobs \cup {NULL}
          /\ key \in [Ids -> Nat]
      BY <1>1, <1>2 DEF ConnectorRequests, ConnectorsTyped
    <3>2. \A j \in Ids : CarryForward(req[r].prior, j) \in Nat
      BY <3>1 DEF CarryForward, Blobs
    <3>3. PICK list, prior : list = req[r].list /\ prior = req[r].prior
      OBVIOUS
    <3>4. blob' = Blob(list, prior) /\ req[r].at = "write"
      BY <2>2, <3>3 DEF WriteBlob
    <3>5. Blob(list, prior) \in Blobs
      BY <3>1, <3>2, <3>3 DEF Blob, Blobs
    <3>6. \A j \in Ids : /\ Blob(list, prior).list[j] = list[j]
                         /\ list[j] # NULL /\ list[j].cred /\ key[j] # 0
                               => Blob(list, prior).secret[j] = key[j]
      BY DEF Blob
    <3>. QED
      BY <3>3, <3>4, <3>5, <3>6
  <2>. QED
    BY <2>1, <2>2
<1>12. ConnectorsTyped'
  BY <1>1, <1>5, <1>6, <1>9, <1>10, <1>11 DEF ConnectorsTyped
<1>13. ChainStands' /\ ListsStand' /\ StoredStand'
  BY <1>2, <1>5, <1>8, <1>10, <1>11, LeaveKeeps
<1>14. req'[r] # NULL => RequestStands(r)'
  BY <1>2, <1>3, <1>5, <1>7, <1>10 DEF RequestStands
<1>15. i \notin torn' =>
          /\ req'[r] = NULL \/ Untouched(r)' => AsConfigured(i)'
          /\ req'[r] # NULL /\ (req'[r].kind = "create" \/ req'[r].at \in {"start", "clear"})
                => scheds'[i] = {}
  <2>1. SUFFICES ASSUME i \notin torn'
                 PROVE  /\ req'[r] = NULL \/ Untouched(r)' => AsConfigured(i)'
                        /\ req'[r] # NULL /\ (req'[r].kind = "create" \/ req'[r].at \in {"start", "clear"})
                              => scheds'[i] = {}
    BY DEF Untouched
  <2>2. i \notin torn
    BY <1>6, <2>1
  <2>3. req[r].kind = "create" => scheds[i] = {}
    BY <1>1, <1>2, <1>3, <2>2 DEF RuntimeStands
  <2>4. req[r].kind = "secret" => AsConfigured(i)
    BY <1>1, <1>2, <1>3, <1>4, <2>2 DEF RuntimeStands, Untouched
  <2>5. req[r].kind = "create" /\ ~req[r].new.on => AsConfigured(i)
    BY <1>3, <1>7, <2>3 DEF AsConfigured, RequestStands
  <2>6. AsConfigured(i) => AsConfigured(i)'
    BY <1>5 DEF AsConfigured
  <2>7. req'[r] # NULL => ~Untouched(r)'
    BY <1>10 DEF Untouched
  <2>. QED
    BY <1>5, <1>10, <2>1, <2>3, <2>4, <2>5, <2>6, <2>7
<1>16. req'[r] # NULL => req'[r].id = i /\ req'[r].kind # "secret"
  BY <1>10
<1>17. OneEach' /\ (\A x \in InFlight' : RequestStands(x)') /\ RuntimeStands'
  BY <1>3, <1>4, <1>5, <1>6, <1>10, <1>14, <1>15, <1>16, MoveKeeps
<1>. QED
  BY <1>12, <1>13, <1>17 DEF ConnectorsInv

(* The runner, and what the connector leaves behind. *)
LEMMA RunKeepsRegistry ==
    ASSUME ConnectorsInv, NEW r \in Requests, Stop(r) \/ Start(r) \/ RunnerFails(r) \/ Clear(r)
    PROVE  ConnectorsInv'
<1>1. ConnectorsTyped /\ OneEach /\ RuntimeStands
  BY DEF ConnectorsInv
<1>2. r \in InFlight /\ req[r].at \in {"stop", "start", "clear"} /\ req[r] \in ConnectorRequests
  BY RequestTyped DEF Stop, Start, RunnerFails, Clear, InFlight, Free
<1>3. PICK i \in Ids : i = req[r].id
  BY <1>2, RequestTyped
<1>4. \A x \in InFlight \ {r} : req[x].id # i /\ req[x].kind # "secret"
  BY <1>2, <1>3, NoOther
<1>5. UNCHANGED <<mem, yaml, blob, chain, behind>> /\ torn \subseteq torn'
  BY DEF Stop, Start, RunnerFails, Clear, storeVars, runVars
<1>6. RequestStands(r)
  BY <1>2 DEF ConnectorsInv
<1>7. req[r].kind \in {"create", "patch", "delete"} /\ (req[r].at = "stop" => req[r].kind # "create")
      /\ (req[r].at = "start" => req[r].kind # "delete") /\ (req[r].at = "clear" => req[r].kind = "delete")
  <2>1. req[r].kind \in {"create", "patch", "delete", "secret"} /\ req[r].kind # "secret"
    BY <1>1, <1>2 DEF OneEach, ConnectorRequests
  <2>. QED
    BY <1>2, <1>6, <2>1 DEF RequestStands
<1>8. req[r].at \in {"start", "clear"} /\ i \notin torn => scheds[i] = {}
  BY <1>1, <1>2, <1>3 DEF RuntimeStands
<1>9. ASSUME key' \in [Ids -> Nat], \A j \in Ids : key'[j] = key[j] \/ key'[j] = 0,
             DOMAIN scheds' = Ids, DOMAIN runs' = Ids,
             \A j \in Ids \ {i} : scheds'[j] = scheds[j] /\ runs'[j] = runs[j],
             req' \in [Requests -> ConnectorRequests \cup {NULL}],
             \A x \in Requests \ {r} : req'[x] = req[x],
             req'[r] # NULL =>
                /\ req'[r].id = i /\ req'[r].kind = req[r].kind /\ req'[r].new = req[r].new
                /\ \/ req[r].kind = "delete" /\ req[r].at = "stop" /\ req'[r].at = "clear"
                   \/ req[r].kind = "patch" /\ req[r].new.on /\ req'[r].at = "start"
                /\ scheds'[i] = {},
             req'[r] = NULL => i \in torn' \/ AsConfigured(i)'
      PROVE  ConnectorsInv'
  <2>1. ConnectorsTyped'
    BY <1>1, <1>5, <1>9 DEF ConnectorsTyped
  <2>2. req'[r] # NULL => req'[r].at \notin {"persist", "read", "write"}
    BY <1>9
  <2>3. ChainStands' /\ ListsStand' /\ StoredStand'
    BY <1>2, <1>5, <1>9, <2>2, AsideKeeps
  <2>4. req'[r] # NULL => RequestStands(r)'
    BY <1>3, <1>5, <1>6, <1>9 DEF RequestStands
  <2>5. req'[r] # NULL => req'[r].id = i /\ req'[r].kind # "secret" /\ ~Untouched(r)'
    BY <1>7, <1>9 DEF Untouched
  <2>6. OneEach' /\ (\A x \in InFlight' : RequestStands(x)') /\ RuntimeStands'
    BY <1>3, <1>4, <1>5, <1>9, <2>4, <2>5, MoveKeeps
  <2>. QED
    BY <2>1, <2>3, <2>6 DEF ConnectorsInv
<1>10. CASE Stop(r)
  <2>1. req[r].at = "stop" /\ UNCHANGED <<key, runs>>
    BY <1>10 DEF Stop, storeVars
  <2>2. DOMAIN scheds' = Ids /\ scheds'[i] = {} /\ \A j \in Ids \ {i} : scheds'[j] = scheds[j]
    BY <1>1, <1>3, <1>10 DEF Stop, ConnectorsTyped
  <2>3. CASE req[r].kind = "delete"
    <3>1. /\ req' \in [Requests -> ConnectorRequests \cup {NULL}]
          /\ \A x \in Requests \ {r} : req'[x] = req[x]
          /\ req'[r] # NULL /\ req'[r].id = i /\ req'[r].kind = req[r].kind
          /\ req'[r].new = req[r].new /\ req'[r].at = "clear"
      BY <1>2, <1>3, <1>10, <2>3, GoesTyped DEF Stop
    <3>. QED
      BY <1>1, <1>9, <2>1, <2>2, <2>3, <3>1 DEF ConnectorsTyped
  <2>4. CASE req[r].kind = "patch" /\ req[r].new.on
    <3>1. /\ req' \in [Requests -> ConnectorRequests \cup {NULL}]
          /\ \A x \in Requests \ {r} : req'[x] = req[x]
          /\ req'[r] # NULL /\ req'[r].id = i /\ req'[r].kind = req[r].kind
          /\ req'[r].new = req[r].new /\ req'[r].at = "start"
      BY <1>2, <1>3, <1>10, <2>4, GoesTyped DEF Stop
    <3>. QED
      BY <1>1, <1>9, <2>1, <2>2, <2>4, <3>1 DEF ConnectorsTyped
  <2>5. CASE req[r].kind = "patch" /\ ~req[r].new.on
    <3>1. /\ req' \in [Requests -> ConnectorRequests \cup {NULL}]
          /\ req'[r] = NULL /\ \A x \in Requests \ {r} : req'[x] = req[x]
      BY <1>2, <1>10, <2>5, DoneTyped DEF Stop
    <3>2. mem[i] # NULL /\ ~mem[i].on
      BY <1>3, <1>6, <2>5 DEF RequestStands
    <3>3. AsConfigured(i)'
      BY <1>5, <2>2, <3>2 DEF AsConfigured
    <3>. QED
      BY <1>1, <1>9, <2>1, <2>2, <3>1, <3>3 DEF ConnectorsTyped
  <2>. QED
    BY <1>7, <2>1, <2>3, <2>4, <2>5
<1>11. CASE Start(r)
  <2>1. req[r].at = "start" /\ UNCHANGED <<key, runs>>
    BY <1>11 DEF Start, storeVars
  <2>2. /\ DOMAIN scheds' = Ids /\ scheds'[i] = Started(i, req[r].new, scheds)
        /\ \A j \in Ids \ {i} : scheds'[j] = scheds[j]
    BY <1>1, <1>3, <1>11 DEF Start, ConnectorsTyped
  <2>3. /\ req' \in [Requests -> ConnectorRequests \cup {NULL}]
        /\ req'[r] = NULL /\ \A x \in Requests \ {r} : req'[x] = req[x]
    BY <1>2, <1>11, DoneTyped DEF Start
  <2>4. mem[i] = req[r].new /\ mem[i] # NULL /\ mem[i].on
    BY <1>3, <1>6, <1>7, <2>1 DEF RequestStands
  <2>5. i \notin torn => AsConfigured(i)'
    BY <1>5, <1>8, <2>1, <2>2, <2>4 DEF AsConfigured, Started
  <2>. QED
    BY <1>1, <1>5, <1>9, <2>1, <2>2, <2>3, <2>5 DEF ConnectorsTyped
<1>12. CASE RunnerFails(r)
  <2>1. UNCHANGED <<key, runs, scheds>> /\ i \in torn'
    BY <1>3, <1>12 DEF RunnerFails, storeVars, runVars
  <2>2. /\ req' \in [Requests -> ConnectorRequests \cup {NULL}]
        /\ req'[r] = NULL /\ \A x \in Requests \ {r} : req'[x] = req[x]
    BY <1>2, <1>12, DoneTyped DEF RunnerFails
  <2>. QED
    BY <1>1, <1>9, <2>1, <2>2 DEF ConnectorsTyped
<1>13. CASE Clear(r)
  <2>1. req[r].at = "clear" /\ UNCHANGED scheds
    BY <1>13 DEF Clear
  <2>2. /\ runs' = [runs EXCEPT ![i] = 0]
        /\ key' = [key EXCEPT ![i] = IF Unreferenced(i, req[r].was) THEN 0 ELSE @]
    BY <1>3, <1>13 DEF Clear
  <2>3. DOMAIN runs' = Ids /\ runs'[i] = 0 /\ \A j \in Ids \ {i} : runs'[j] = runs[j]
    BY <1>1, <2>2 DEF ConnectorsTyped
  <2>4. key' \in [Ids -> Nat] /\ \A j \in Ids : key'[j] = key[j] \/ key'[j] = 0
    BY <1>1, <2>2 DEF ConnectorsTyped
  <2>5. /\ req' \in [Requests -> ConnectorRequests \cup {NULL}]
        /\ req'[r] = NULL /\ \A x \in Requests \ {r} : req'[x] = req[x]
    BY <1>2, <1>13, DoneTyped DEF Clear
  <2>6. mem[i] = NULL
    BY <1>3, <1>6, <1>7, <2>1 DEF RequestStands
  <2>7. i \notin torn => AsConfigured(i)'
    BY <1>5, <1>8, <2>1, <2>3, <2>6 DEF AsConfigured
  <2>. QED
    BY <1>1, <1>5, <1>9, <2>1, <2>3, <2>4, <2>5, <2>7 DEF ConnectorsTyped
<1>. QED
  BY <1>10, <1>11, <1>12, <1>13

(* What happens beside the requests: a new credential file, and the worker. *)
LEMMA BesideKeepsRegistry ==
    ASSUME ConnectorsInv, ~Overlap,
           \/ \E i \in Ids : PostCredentials(i) \/ TriggerSync(i) \/ Poll(i) \/ JobBegin(i)
           \/ \E o \in {"idle", "degraded", "failed"} : JobEnd(o)
    PROVE  ConnectorsInv'
<1>1. /\ ConnectorsTyped /\ OneEach /\ ChainStands /\ RuntimeStands /\ ListsStand /\ StoredStand
      /\ \A r \in InFlight : RequestStands(r)
  BY DEF ConnectorsInv
<1>2. UNCHANGED <<mem, yaml, blob, req, chain, scheds, torn>>
  BY DEF PostCredentials, TriggerSync, Poll, JobBegin, JobEnd, storeVars, runVars
<1>3. UNCHANGED InFlight
  BY <1>2 DEF InFlight, Free
<1>4. OneEach' /\ ChainStands' /\ (\A r \in InFlight' : RequestStands(r)') /\ ListsStand'
  BY <1>1, <1>2, <1>3 DEF OneEach, ChainStands, RequestStands, ListsStand, Waits
<1>5. DOMAIN runs' = Ids /\ \A j \in Ids : mem[j] = NULL => runs'[j] = runs[j]
  BY <1>1 DEF PostCredentials, TriggerSync, Poll, JobBegin, JobEnd, RecordRun, runVars, ConnectorsTyped
<1>6. RuntimeStands'
  <2>1. \A j \in Ids : AsConfigured(j) => AsConfigured(j)'
    BY <1>2, <1>5 DEF AsConfigured
  <2>. QED
    BY <1>1, <1>2, <1>3, <2>1 DEF RuntimeStands, Untouched
<1>7. key' \in [Ids -> Nat] /\ behind' \in BOOLEAN /\ StoredStand'
  <2>1. \A j \in Ids : Unstored(j)' <=> Unstored(j)
    BY <1>2, <1>3 DEF Unstored
  <2>2. ASSUME NEW i \in Ids, PostCredentials(i) PROVE key' \in [Ids -> Nat] /\ behind' \in BOOLEAN /\ StoredStand'
    <3>1. key' = [key EXCEPT ![i] = key[i] + 1] /\ behind' = (behind \/ (mem[i] # NULL /\ mem[i].cred))
      BY <2>2 DEF PostCredentials
    <3>2. key' \in [Ids -> Nat] /\ \A j \in Ids \ {i} : key'[j] = key[j]
      BY <1>1, <3>1 DEF ConnectorsTyped
    <3>3. behind' \in BOOLEAN /\ (~behind' => ~behind /\ ~(mem[i] # NULL /\ mem[i].cred))
      BY <1>1, <3>1 DEF ConnectorsTyped
    <3>4. ~Unstored(i)
      BY <2>2 DEF PostCredentials, Busy, Unstored
    <3>5. StoredStand'
      <4>1. SUFFICES ASSUME ~behind', blob # NULL, NEW j \in Ids
                     PROVE  /\ ~Unstored(j) => blob.list[j] = mem[j]
                            /\ blob.list[j] # NULL /\ blob.list[j].cred /\ key'[j] # 0 => blob.secret[j] = key'[j]
        BY <1>2, <2>1 DEF StoredStand
      <4>2. ~Unstored(j) => blob.list[j] = mem[j]
        BY <1>1, <3>3, <4>1 DEF StoredStand
      <4>3. CASE j = i
        BY <3>3, <3>4, <4>1, <4>2, <4>3
      <4>4. CASE j # i
        BY <1>1, <3>2, <3>3, <4>1, <4>2, <4>4 DEF StoredStand
      <4>. QED
        BY <4>3, <4>4
    <3>. QED
      BY <3>2, <3>3, <3>5
  <2>3. CASE UNCHANGED <<key, behind>>
    BY <1>1, <1>2, <2>1, <2>3 DEF StoredStand, ConnectorsTyped
  <2>. QED
    BY <2>2, <2>3 DEF TriggerSync, Poll, JobBegin, JobEnd, storeVars
<1>8. ConnectorsTyped'
  BY <1>1, <1>2, <1>5, <1>7 DEF ConnectorsTyped
<1>. QED
  BY <1>4, <1>6, <1>7, <1>8 DEF ConnectorsInv

(* A restart: what comes up is the stored list, or it counts as torn. *)
LEMMA RestartKeepsRegistry ==
    ASSUME ConnectorsInv, NEW read \in BOOLEAN, NEW keepsFile \in BOOLEAN, NEW keepsKeys \in BOOLEAN,
           Restart(read, keepsFile, keepsKeys)
    PROVE  ConnectorsInv'
<1>1. ConnectorsTyped /\ RuntimeStands /\ StoredStand
  BY DEF ConnectorsInv
<1>2. PICK list : list = Rehydrate(read, keepsFile)
  OBVIOUS
<1>3. NoInstances \in Instances
  BY DEF NoInstances, Instances
<1>4. list \in Instances
  <2>1. blob # NULL => blob.list \in Instances
    BY <1>1 DEF ConnectorsTyped, Blobs
  <2>. QED
    BY <1>1, <1>2, <1>3, <2>1 DEF Rehydrate, ConnectorsTyped
<1>5. /\ mem' = list /\ yaml' \in Instances /\ key' = Materialized(read, keepsKeys)
      /\ blob' = IF ~(read /\ blob # NULL) /\ list # NoInstances
                 THEN [list |-> list,
                       secret |-> [i \in Ids |-> IF list[i] # NULL /\ list[i].cred THEN key'[i] ELSE 0]]
                 ELSE blob
      /\ scheds' = StartRunner(list)
      /\ torn' = torn \cup {req[r].id : r \in InFlight} \cup {i \in Ids : list[i] # mem[i]}
      /\ req' = [r \in Requests |-> NULL] /\ chain' = <<>>
      /\ behind' = (behind \/ ~read) /\ UNCHANGED runs
  BY <1>1, <1>2, <1>3 DEF Restart, ConnectorsTyped
<1>6. InFlight' = {} /\ Len(chain') = 0
  BY <1>5 DEF InFlight, Free
<1>7. OneEach' /\ ChainStands' /\ (\A r \in InFlight' : RequestStands(r)') /\ ListsStand'
  BY <1>6 DEF OneEach, ChainStands, ListsStand
<1>8. key' \in [Ids -> Nat]
  <2>1. blob # NULL => blob.secret \in [Ids -> Nat]
    BY <1>1 DEF ConnectorsTyped, Blobs
  <2>. QED
    BY <1>1, <1>5, <2>1 DEF Materialized, ConnectorsTyped
<1>9. blob' \in Blobs \cup {NULL}
  BY <1>1, <1>4, <1>5, <1>8 DEF ConnectorsTyped, Blobs
<1>10. ConnectorsTyped'
  <2>1. DOMAIN scheds' = Ids /\ DOMAIN runs' = Ids /\ behind' \in BOOLEAN
    BY <1>1, <1>5 DEF StartRunner, ConnectorsTyped
  <2>2. req' \in [Requests -> ConnectorRequests \cup {NULL}] /\ chain' \in Seq(Requests)
    BY <1>5
  <2>. QED
    BY <1>4, <1>5, <1>8, <1>9, <2>1, <2>2 DEF ConnectorsTyped
<1>11. RuntimeStands'
  <2>1. SUFFICES ASSUME NEW i \in Ids \ torn' PROVE AsConfigured(i)'
    BY <1>6 DEF RuntimeStands
  <2>2. i \notin torn /\ list[i] = mem[i] /\ \A r \in InFlight : req[r].id # i
    BY <1>5, <2>1
  <2>3. AsConfigured(i)
    BY <1>1, <2>1, <2>2 DEF RuntimeStands
  <2>4. scheds'[i] = Started(i, mem[i], scheds)
    BY <1>5, <2>1, <2>2 DEF StartRunner
  <2>. QED
    BY <1>5, <2>2, <2>3, <2>4 DEF AsConfigured, Started
<1>12. StoredStand'
  <2>1. SUFFICES ASSUME ~behind', blob' # NULL, NEW i \in Ids
                 PROVE  /\ blob'.list[i] = list[i]
                        /\ blob'.list[i] # NULL /\ blob'.list[i].cred /\ key'[i] # 0 => blob'.secret[i] = key'[i]
    BY <1>5, <1>6 DEF StoredStand, Unstored
  <2>2. read /\ ~behind
    BY <1>1, <1>5, <2>1 DEF ConnectorsTyped
  <2>3. CASE blob # NULL
    <3>1. blob' = blob /\ list = blob.list
      BY <1>2, <1>5, <2>2, <2>3 DEF Rehydrate
    <3>2. key'[i] = IF blob.secret[i] # 0 THEN blob.secret[i] ELSE IF keepsKeys THEN key[i] ELSE 0
      BY <1>5, <2>1, <2>2, <2>3 DEF Materialized
    <3>. QED
      BY <1>1, <2>1, <2>2, <2>3, <3>1, <3>2 DEF StoredStand
  <2>4. CASE blob = NULL
    BY <1>5, <2>1, <2>4
  <2>. QED
    BY <2>3, <2>4
<1>. QED
  BY <1>7, <1>10, <1>11, <1>12 DEF ConnectorsInv

LEMMA ConnectorsStep == ~Overlap /\ ConnectorsInv /\ (ConnectorsNext \/ UNCHANGED connectorVars) => ConnectorsInv'
<1> SUFFICES ASSUME ~Overlap, ConnectorsInv, ConnectorsNext \/ UNCHANGED connectorVars PROVE ConnectorsInv'
  OBVIOUS
<1>1. CASE UNCHANGED connectorVars
  <2>1. UNCHANGED <<mem, yaml, blob, key, req, chain, scheds, runs, torn, behind>> /\ UNCHANGED InFlight
    BY <1>1 DEF connectorVars, storeVars, runVars, InFlight, Free
  <2>2. ConnectorsTyped' /\ OneEach' /\ ChainStands' /\ \A r \in InFlight' : RequestStands(r)'
    BY <2>1 DEF ConnectorsInv, ConnectorsTyped, OneEach, ChainStands, RequestStands
  <2>3. RuntimeStands' /\ ListsStand' /\ StoredStand'
    BY <2>1 DEF ConnectorsInv, RuntimeStands, AsConfigured, Untouched, ListsStand, StoredStand, Waits, Unstored
  <2>. QED
    BY <2>2, <2>3 DEF ConnectorsInv
<1>2. ASSUME NEW r \in Requests, NEW i \in Ids,
             \/ \E c \in Configs : Create(r, i, c) \/ Patch(r, i, c)
             \/ Delete(r, i) \/ SetWebhookSecret(r, i)
      PROVE  ConnectorsInv'
  BY <1>2, BeginKeepsRegistry
<1>3. ASSUME NEW r \in Requests,
             \/ DeleteRefused(r) \/ Remove(r)
             \/ PersistFile(r) \/ PersistFails(r)
             \/ ReadBlob(r) \/ ReadBlobFails(r) \/ WriteBlob(r) \/ WriteBlobFails(r)
             \/ Stop(r) \/ Start(r) \/ RunnerFails(r) \/ Clear(r)
      PROVE  ConnectorsInv'
  BY <1>3, PurgeKeepsRegistry, ReadKeepsRegistry, WriteKeepsRegistry, RunKeepsRegistry
<1>4. CASE \/ \E i \in Ids : PostCredentials(i) \/ TriggerSync(i) \/ Poll(i) \/ JobBegin(i)
           \/ \E o \in {"idle", "degraded", "failed"} : JobEnd(o)
  BY <1>4, BesideKeepsRegistry
<1>5. CASE \E read, keepsFile, keepsKeys \in BOOLEAN : Restart(read, keepsFile, keepsKeys)
  BY <1>5, RestartKeepsRegistry
<1>. QED
  BY <1>1, <1>2, <1>3, <1>4, <1>5 DEF ConnectorsNext

(* ... and what it says of the registry once its requests are over. *)
LEMMA RegistryStands == ConnectorsInv => RegistryHolds
<1> SUFFICES ASSUME ConnectorsInv PROVE RegistryHolds
  OBVIOUS
<1>1. ConnectorsTyped /\ RuntimeStands /\ StoredStand
  BY DEF ConnectorsInv
<1>2. RuntimeMatches
  BY <1>1 DEF RuntimeMatches, RuntimeStands, AsConfigured, Busy
<1>3. Restorable
  <2>1. SUFFICES ASSUME InFlight = {}, ~behind, blob # NULL
                 PROVE  /\ blob.list = mem
                        /\ \A i \in Ids : mem[i] # NULL /\ mem[i].cred /\ key[i] # 0 =>
                                             Materialized(TRUE, FALSE)[i] = key[i]
    BY DEF Restorable, Rehydrate
  <2>2. \A i \in Ids : ~Unstored(i)
    BY <2>1 DEF Unstored
  <2>3. /\ \A i \in Ids : blob.list[i] = mem[i]
        /\ \A i \in Ids : blob.list[i] # NULL /\ blob.list[i].cred /\ key[i] # 0 => blob.secret[i] = key[i]
    BY <1>1, <2>1, <2>2 DEF StoredStand
  <2>4. blob.list \in Instances /\ mem \in Instances
    BY <1>1, <2>1 DEF ConnectorsTyped, Blobs
  <2>5. blob.list = mem
    BY <2>3, <2>4 DEF Instances
  <2>6. \A i \in Ids : blob.secret[i] # 0 => Materialized(TRUE, FALSE)[i] = blob.secret[i]
    BY <2>1 DEF Materialized
  <2>. QED
    BY <2>3, <2>5, <2>6
<1>. QED
  BY <1>2, <1>3 DEF RegistryHolds

(* While the requests for one connector do not overlap, nor a new webhook     *)
(* secret any other, what the registry holds is what runs, and what a new     *)
(* instance would find: through failed writes, failed reads and restarts.     *)
THEOREM RegistryIsKept == ~Overlap /\ Spec => []RegistryHolds
<1> DEFINE Inv == part = "connectors" => ConnectorsInv
<1>1. Init => Inv
  BY ConnectorsInitInv DEF Init
<1>2. ~Overlap /\ Inv /\ [Next]_vars => Inv'
  BY PartKept, PartSteps, ConnectorsStep
<1>3. Inv => RegistryHolds
  BY RegistryStands DEF RegistryHolds, RuntimeMatches, Restorable
<1>4. ASSUME ~Overlap PROVE Spec => []RegistryHolds
  <2>1. Inv /\ [Next]_vars => Inv'
    BY <1>2, <1>4
  <2>. QED
    BY <1>1, <1>3, <2>1, PTL DEF Spec
<1>. QED
  BY <1>4

-----------------------------------------------------------------------------
(* INDUCTION, over sets of numbers and from the least of those left out.      *)
LEMMA Inductively ==
    ASSUME NEW n \in Nat, NEW P \in SUBSET (0 .. n), 0 \in P, \A i \in 1 .. n : i - 1 \in P => i \in P
    PROVE  P = 0 .. n
<1>1. SUFFICES ASSUME (0 .. n) \ P # {} PROVE FALSE
  OBVIOUS
<1>2. PICK m \in (0 .. n) \ P : \A k \in (0 .. n) \ P : m <= k
  <2>1. (0 .. n) \ P \in SUBSET Nat
    OBVIOUS
  <2>. QED
    BY <1>1, <2>1, LeastNatural
<1>3. m \in 1 .. n /\ m - 1 \in 0 .. n /\ ~(m <= m - 1)
  BY <1>2
<1>4. m - 1 \in P
  BY <1>2, <1>3
<1>. QED
  BY <1>2, <1>3, <1>4

(* So a recursive definition over the numbers up to n does define a function. *)
Stepping(n, X, x0, step) ==
    n \in Nat /\ x0 \in X /\ \A i \in 1 .. n : \A x \in X : step[i][x] \in X
Follows(f, n, X, x0, step) ==
    f \in [0 .. n -> X] /\ f[0] = x0 /\ \A i \in 1 .. n : f[i] = step[i][f[i - 1]]

LEMMA RecursionDefines ==
    ASSUME NEW n, NEW X, NEW x0, NEW step, Stepping(n, X, x0, step)
    PROVE  \E f : Follows(f, n, X, x0, step)
<1>0. n \in Nat /\ x0 \in X /\ \A i \in 1 .. n : \A x \in X : step[i][x] \in X
  BY DEF Stepping
<1> DEFINE P == {m \in 0 .. n : \E f \in [0 .. m -> X] :
                     f[0] = x0 /\ \A i \in 1 .. m : f[i] = step[i][f[i - 1]]}
<1>1. 0 \in P
  <2>1. PICK f : f = [k \in 0 .. 0 |-> x0]
    OBVIOUS
  <2>2. f \in [0 .. 0 -> X] /\ f[0] = x0 /\ 0 \in 0 .. n
    BY <1>0, <2>1
  <2>3. \A i \in 1 .. 0 : f[i] = step[i][f[i - 1]]
    OBVIOUS
  <2>. QED
    BY <2>2, <2>3
<1>2. ASSUME NEW m \in 1 .. n, m - 1 \in P PROVE m \in P
  <2>1. PICK f \in [0 .. (m - 1) -> X] :
           f[0] = x0 /\ \A i \in 1 .. (m - 1) : f[i] = step[i][f[i - 1]]
    BY <1>2
  <2>2. m - 1 \in 0 .. (m - 1) /\ f[m - 1] \in X
    BY <1>0
  <2>3. PICK x : x = step[m][f[m - 1]]
    OBVIOUS
  <2>4. x \in X
    BY <1>0, <1>2, <2>2, <2>3
  <2>5. PICK g : g = [k \in 0 .. m |-> IF k = m THEN x ELSE f[k]]
    OBVIOUS
  <2>6. \A k \in 0 .. m : k # m => k \in 0 .. (m - 1)
    BY <1>0
  <2>7. g \in [0 .. m -> X] /\ g[m] = x /\ \A k \in 0 .. m : k # m => g[k] = f[k]
    BY <1>0, <2>4, <2>5, <2>6
  <2>8. g[0] = x0
    BY <1>0, <2>1, <2>7
  <2>9. ASSUME NEW i \in 1 .. m PROVE g[i] = step[i][g[i - 1]]
    <3>1. i - 1 \in 0 .. m /\ i - 1 # m /\ g[i - 1] = f[i - 1]
      BY <1>0, <2>7
    <3>2. CASE i = m
      BY <2>3, <2>7, <3>1, <3>2
    <3>3. CASE i # m
      <4>1. i \in 1 .. (m - 1) /\ i \in 0 .. m
        BY <1>0, <3>3
      <4>. QED
        BY <2>1, <2>7, <3>1, <3>3, <4>1
    <3>. QED
      BY <3>2, <3>3
  <2>. QED
    BY <2>7, <2>8, <2>9
<1>3. P \in SUBSET (0 .. n)
  OBVIOUS
<1>4. \A i \in 1 .. n : i - 1 \in P => i \in P
  BY <1>2
<1> HIDE DEF P
<1>5. P = 0 .. n
  BY <1>0, <1>1, <1>3, <1>4, Inductively
<1>6. n \in P
  BY <1>0, <1>5
<1>. QED
  BY <1>6 DEF P, Follows

(* THE INCIDENT DASHBOARD.  What the records the two queries answer with say *)
(* of each other, whatever the graph has become since.                      *)
NearFacts(s, d) ==
    /\ d.edges \subseteq d.of[1] /\ d.nodes \cap d.of[2] = {}
    /\ \A l \in d.edges : l[1] \in d.nodes /\ l[3] \in d.nodes
    /\ d.owned /\ Service(s) \in d.nodes =>
          \E l \in d.edges : l[2] \in {"ON_CALL_FOR", "OWNS"} /\ l[3] = Service(s)

BlastFacts(s, d) ==
    /\ d.nodes \ {Service(s)} \subseteq d.joined /\ Service(s) \notin d.joined
    /\ d.whole => d.joined \subseteq d.nodes
    /\ d.whole => \A l \in d.of[1] :
          l[2] \in Inbound /\ l[3] = Service(s) /\ l[1] \notin d.of[2] => l[1] \in d.nodes

GraphTyped ==
    edges \in SUBSET Links /\ grade \in [Services -> Grades] /\ gone \in SUBSET Nodes
IncidentTyped ==
    /\ GraphTyped /\ viewing \in Services \cup {NULL} /\ asking \in SUBSET Keys
    /\ cached \in [Keys -> [data : NearReads \cup BlastReads \cup {NULL}, failed : BOOLEAN]]
NearStands ==
    \A s \in Services : LET d == cached[<<s, "near">>].data
                        IN  d # NULL => d \in NearReads /\ NearFacts(s, d)
BlastStands ==
    \A s \in Services : LET d == cached[<<s, "blast">>].data
                        IN  d # NULL => d \in BlastReads /\ BlastFacts(s, d)
OpenAsks ==
    viewing # NULL => \A q \in {"near", "blast"} :
        cached[<<viewing, q>>].data = NULL => <<viewing, q>> \in asking \/ cached[<<viewing, q>>].failed
IncidentInv == IncidentTyped /\ NearStands /\ BlastStands /\ OpenAsks

(* The graph's edges, and one hop of the walk.                               *)
LEMMA EdgeTypes ==
    ASSUME GraphTyped, NEW l \in edges
    PROVE  l = <<l[1], l[2], l[3]>> /\ l[1] \in Nodes /\ l[3] \in Nodes
BY IncidentAssumption DEF GraphTyped, Nodes

LEMMA AffectedIsAHop ==
    ASSUME GraphTyped, NEW S \in SUBSET Nodes
    PROVE  /\ Affected(S) \in SUBSET Nodes /\ S \subseteq Affected(S)
           /\ \A m \in Affected(S) : m \in S \/ \E n \in S : Hop(n, m)
           /\ \A n \in S : \A m : Hop(n, m) => m \in Affected(S)
<1>1. ASSUME NEW m \in Affected(S) PROVE m \in Nodes /\ (m \in S \/ \E n \in S : Hop(n, m))
  <2>1. CASE m \in S
    BY <2>1
  <2>2. CASE \E l \in edges : m = l[1] /\ l[2] \in Inbound /\ l[3] \in S
    <3>1. PICK l \in edges : m = l[1] /\ l[2] \in Inbound /\ l[3] \in S
      BY <2>2
    <3>2. l = <<l[1], l[2], l[3]>> /\ l[1] \in Nodes
      BY <3>1, EdgeTypes
    <3>3. Hop(l[3], m)
      BY <3>1, <3>2 DEF Hop
    <3>. QED
      BY <3>1, <3>2, <3>3
  <2>3. CASE \E l \in edges : m = l[3] /\ l[2] \in Outbound /\ l[1] \in S
    <3>1. PICK l \in edges : m = l[3] /\ l[2] \in Outbound /\ l[1] \in S
      BY <2>3
    <3>2. l = <<l[1], l[2], l[3]>> /\ l[3] \in Nodes
      BY <3>1, EdgeTypes
    <3>3. Hop(l[1], m)
      BY <3>1, <3>2 DEF Hop
    <3>. QED
      BY <3>1, <3>2, <3>3
  <2>. QED
    BY <1>1, <2>1, <2>2, <2>3 DEF Affected
<1>2. S \subseteq Affected(S)
  BY DEF Affected
<1>3. ASSUME NEW n \in S, NEW m, Hop(n, m) PROVE m \in Affected(S)
  <2>1. CASE \E t \in Inbound : <<m, t, n>> \in edges
    <3>1. PICK t \in Inbound : <<m, t, n>> \in edges
      BY <2>1
    <3>2. PICK l : l = <<m, t, n>>
      OBVIOUS
    <3>3. l \in edges /\ l[1] = m /\ l[2] \in Inbound /\ l[3] \in S
      BY <1>3, <3>1, <3>2
    <3>. QED
      BY <3>3 DEF Affected
  <2>2. CASE \E t \in Outbound : <<n, t, m>> \in edges
    <3>1. PICK t \in Outbound : <<n, t, m>> \in edges
      BY <2>2
    <3>2. PICK l : l = <<n, t, m>>
      OBVIOUS
    <3>3. l \in edges /\ l[3] = m /\ l[2] \in Outbound /\ l[1] \in S
      BY <1>3, <3>1, <3>2
    <3>. QED
      BY <3>3 DEF Affected
  <2>. QED
    BY <1>3, <2>1, <2>2 DEF Hop
<1>. QED
  BY <1>1, <1>2, <1>3

(* The walk, as a function of the number of hops.                            *)
Broadens(V, s) ==
    /\ V \in [0 .. Depth -> SUBSET Nodes] /\ V[0] = {Service(s)}
    /\ \A i \in 1 .. Depth : V[i] = Affected(V[i - 1])

LEMMA WalkBroadens ==
    ASSUME GraphTyped, NEW s \in Services
    PROVE  Broadens(Walk(s), s)
<1> DEFINE Unfold(g) == [d \in 0 .. Depth |-> IF d = 0 THEN {Service(s)} ELSE Affected(g[d - 1])]
           V == CHOOSE g : g = Unfold(g)
<1>1. Depth \in Nat /\ Depth >= 1 /\ {Service(s)} \in SUBSET Nodes
  BY IncidentAssumption DEF Nodes
<1>2. PICK X, x0, n, st : /\ X = SUBSET Nodes /\ x0 = {Service(s)} /\ n = Depth
                          /\ st = [i \in 1 .. Depth |-> [S \in SUBSET Nodes |-> Affected(S)]]
  OBVIOUS
<1>3. \A S \in SUBSET Nodes : Affected(S) \in SUBSET Nodes
  BY AffectedIsAHop
<1>4. Stepping(n, X, x0, st)
  BY <1>1, <1>2, <1>3 DEF Stepping
<1>5. PICK f : Follows(f, n, X, x0, st)
  BY <1>4, RecursionDefines
<1>6. /\ f \in [0 .. Depth -> SUBSET Nodes] /\ f[0] = {Service(s)}
      /\ \A i \in 1 .. Depth : f[i] = st[i][f[i - 1]]
  BY <1>2, <1>5 DEF Follows
<1>7. \A i \in 1 .. Depth : f[i] = Affected(f[i - 1])
  <2>1. SUFFICES ASSUME NEW i \in 1 .. Depth PROVE f[i] = Affected(f[i - 1])
    OBVIOUS
  <2>2. i - 1 \in 0 .. Depth
    BY <1>1
  <2>3. f[i - 1] \in SUBSET Nodes
    BY <1>6, <2>2
  <2>. QED
    BY <1>2, <1>6, <2>3
<1>8. f = Unfold(f)
  <2>1. \A d \in 0 .. Depth : d # 0 => d \in 1 .. Depth
    BY <1>1
  <2>2. \A d \in 0 .. Depth : f[d] = IF d = 0 THEN {Service(s)} ELSE Affected(f[d - 1])
    BY <1>6, <1>7, <2>1
  <2>. QED
    BY <1>6, <2>2
<1>9. V = Unfold(V)
  <2>1. \E g : g = Unfold(g)
    BY <1>8
  <2> HIDE DEF Unfold
  <2>. QED
    BY <2>1
<1>10. Walk(s) = V
  BY DEF Walk
<1> HIDE DEF V
<1>11. /\ V[0] = {Service(s)} /\ DOMAIN V = 0 .. Depth /\ V = [d \in 0 .. Depth |-> V[d]]
       /\ \A i \in 1 .. Depth : V[i] = Affected(V[i - 1])
  <2>1. 0 \in 0 .. Depth /\ \A i \in 1 .. Depth : i \in 0 .. Depth /\ i # 0
    BY <1>1
  <2>2. \A d \in 0 .. Depth : Unfold(V)[d] = IF d = 0 THEN {Service(s)} ELSE Affected(V[d - 1])
    OBVIOUS
  <2>3. DOMAIN Unfold(V) = 0 .. Depth /\ Unfold(V) = [d \in 0 .. Depth |-> Unfold(V)[d]]
    OBVIOUS
  <2>4. DOMAIN V = 0 .. Depth /\ V = [d \in 0 .. Depth |-> V[d]]
    BY <1>9, <2>3
  <2>5. \A d \in 0 .. Depth : V[d] = IF d = 0 THEN {Service(s)} ELSE Affected(V[d - 1])
    BY <1>9, <2>2
  <2> HIDE DEF Unfold
  <2>. QED
    BY <2>1, <2>4, <2>5
<1>12. \A d \in 0 .. Depth : V[d] \in SUBSET Nodes
  <2> DEFINE P == {d \in 0 .. Depth : V[d] \in SUBSET Nodes}
  <2>1. 0 \in P /\ P \in SUBSET (0 .. Depth)
    BY <1>1, <1>11
  <2>2. ASSUME NEW i \in 1 .. Depth, i - 1 \in P PROVE i \in P
    <3>1. Affected(V[i - 1]) \in SUBSET Nodes
      BY <1>3, <2>2
    <3>2. i \in 0 .. Depth
      BY <1>1
    <3>. QED
      BY <1>11, <3>1, <3>2
  <2>3. \A i \in 1 .. Depth : i - 1 \in P => i \in P
    BY <2>2
  <2> HIDE DEF P
  <2>4. P = 0 .. Depth
    BY <1>1, <2>1, <2>3, Inductively
  <2>. QED
    BY <2>4 DEF P
<1>. QED
  BY <1>10, <1>11, <1>12 DEF Broadens

(* What is within fewer hops is within more.                                 *)
LEMMA WalkGrows ==
    ASSUME GraphTyped, NEW s, NEW V, Broadens(V, s), NEW d \in 0 .. Depth, NEW n \in V[d]
    PROVE  n \in V[Depth]
<1> DEFINE P == {e \in 0 .. Depth : d <= e => n \in V[e]}
<1>1. Depth \in Nat /\ d \in Nat /\ d <= Depth
  BY IncidentAssumption
<1>2. 0 \in P /\ P \in SUBSET (0 .. Depth)
  BY <1>1
<1>3. ASSUME NEW i \in 1 .. Depth, i - 1 \in P PROVE i \in P
  <2>1. i \in 0 .. Depth /\ i - 1 \in 0 .. Depth /\ (d <= i => d <= i - 1 \/ d = i)
    BY <1>1
  <2>2. V[i] = Affected(V[i - 1]) /\ V[i - 1] \in SUBSET Nodes
    BY <2>1 DEF Broadens
  <2>3. V[i - 1] \subseteq V[i]
    BY <2>2, AffectedIsAHop
  <2>. QED
    BY <1>3, <2>1, <2>3
<1>4. \A i \in 1 .. Depth : i - 1 \in P => i \in P
  BY <1>3
<1> HIDE DEF P
<1>5. P = 0 .. Depth
  BY <1>1, <1>2, <1>4, Inductively
<1>. QED
  BY <1>1, <1>5 DEF P

(* A chain of hops. *)
Along(p, s, n, len) ==
    /\ p \in [0 .. len -> Nodes] /\ p[0] = Service(s) /\ p[len] = n
    /\ \A i \in 1 .. len : Hop(p[i - 1], p[i])
Chained(s, n, len) == \E p : Along(p, s, n, len)

LEMMA ChainStarts ==
    ASSUME NEW s \in Services
    PROVE  Chained(s, Service(s), 0)
<1>1. PICK p : p = [i \in 0 .. 0 |-> Service(s)]
  OBVIOUS
<1>2. Service(s) \in Nodes
  BY DEF Nodes
<1>3. p \in [0 .. 0 -> Nodes] /\ p[0] = Service(s) /\ \A i \in 1 .. 0 : Hop(p[i - 1], p[i])
  BY <1>1, <1>2
<1>. QED
  BY <1>3 DEF Chained, Along

LEMMA ChainExtends ==
    ASSUME NEW s, NEW m, NEW n \in Nodes, NEW len \in Nat, Chained(s, m, len), Hop(m, n)
    PROVE  Chained(s, n, len + 1)
<1>1. PICK p : Along(p, s, m, len)
  BY DEF Chained
<1>2. /\ p \in [0 .. len -> Nodes] /\ p[0] = Service(s) /\ p[len] = m
      /\ \A i \in 1 .. len : Hop(p[i - 1], p[i])
  BY <1>1 DEF Along
<1>3. PICK q : q = [i \in 0 .. len + 1 |-> IF i = len + 1 THEN n ELSE p[i]]
  OBVIOUS
<1>4. \A i \in 0 .. len + 1 : i # len + 1 => i \in 0 .. len
  OBVIOUS
<1>5. /\ q \in [0 .. len + 1 -> Nodes] /\ q[len + 1] = n
      /\ \A i \in 0 .. len : q[i] = p[i]
  BY <1>2, <1>3, <1>4
<1>6. q[0] = Service(s)
  BY <1>2, <1>5
<1>7. ASSUME NEW i \in 1 .. len + 1 PROVE Hop(q[i - 1], q[i])
  <2>1. i - 1 \in 0 .. len /\ q[i - 1] = p[i - 1]
    BY <1>5
  <2>2. CASE i = len + 1
    <3>1. i - 1 = len
      BY <2>2
    <3>. QED
      BY <1>2, <1>5, <2>1, <2>2, <3>1
  <2>3. CASE i # len + 1
    <3>1. i \in 1 .. len /\ i \in 0 .. len
      BY <2>3
    <3>. QED
      BY <1>2, <1>5, <2>1, <3>1
  <2>. QED
    BY <2>2, <2>3
<1>8. Along(q, s, n, len + 1)
  BY <1>5, <1>6, <1>7 DEF Along
<1>. QED
  BY <1>8 DEF Chained

(* What the walk reaches, a chain of hops reaches; and the other way round.  *)
LEMMA ReachedByChain ==
    ASSUME GraphTyped, NEW s \in Services, NEW V, Broadens(V, s), NEW n \in V[Depth]
    PROVE  \E len \in 0 .. Depth : Chained(s, n, len)
<1> DEFINE P == {d \in 0 .. Depth : \A m \in V[d] : \E len \in 0 .. d : Chained(s, m, len)}
<1>1. /\ Depth \in Nat /\ V[0] = {Service(s)}
      /\ \A i \in 0 .. Depth : V[i] \in SUBSET Nodes
      /\ \A i \in 1 .. Depth : V[i] = Affected(V[i - 1])
  BY IncidentAssumption DEF Broadens
<1>2. 0 \in P /\ P \in SUBSET (0 .. Depth)
  <2>1. \A m \in V[0] : Chained(s, m, 0)
    BY <1>1, ChainStarts
  <2>2. 0 \in 0 .. 0 /\ 0 \in 0 .. Depth
    BY <1>1
  <2>. QED
    BY <2>1, <2>2
<1>3. ASSUME NEW i \in 1 .. Depth, i - 1 \in P PROVE i \in P
  <2>1. i \in 0 .. Depth /\ i - 1 \in 0 .. Depth /\ i \in Nat /\ i - 1 \in Nat
    BY <1>1
  <2>2. ASSUME NEW m \in V[i] PROVE \E len \in 0 .. i : Chained(s, m, len)
    <3>1. V[i - 1] \in SUBSET Nodes /\ m \in Affected(V[i - 1]) /\ m \in Nodes
      BY <1>1, <2>1, <2>2
    <3>2. m \in V[i - 1] \/ \E k \in V[i - 1] : Hop(k, m)
      BY <3>1, AffectedIsAHop
    <3>3. CASE m \in V[i - 1]
      <4>1. PICK len \in 0 .. i - 1 : Chained(s, m, len)
        BY <1>3, <3>3
      <4>2. len \in 0 .. i
        BY <2>1
      <4>. QED
        BY <4>1, <4>2
    <3>4. CASE \E k \in V[i - 1] : Hop(k, m)
      <4>1. PICK k \in V[i - 1] : Hop(k, m)
        BY <3>4
      <4>2. PICK len \in 0 .. i - 1 : Chained(s, k, len)
        BY <1>3
      <4>3. len \in Nat /\ len + 1 \in 0 .. i
        BY <2>1
      <4>4. Chained(s, m, len + 1)
        BY <3>1, <4>1, <4>2, <4>3, ChainExtends
      <4>. QED
        BY <4>3, <4>4
    <3>. QED
      BY <3>2, <3>3, <3>4
  <2>. QED
    BY <2>1, <2>2
<1>4. \A i \in 1 .. Depth : i - 1 \in P => i \in P
  BY <1>3
<1> HIDE DEF P
<1>5. P = 0 .. Depth
  BY <1>1, <1>2, <1>4, Inductively
<1>6. Depth \in P
  BY <1>1, <1>5
<1>. QED
  BY <1>6 DEF P

LEMMA ChainIsReached ==
    ASSUME GraphTyped, NEW s \in Services, NEW V, Broadens(V, s),
           NEW len \in 0 .. Depth, NEW n, Chained(s, n, len)
    PROVE  n \in V[len]
<1>1. PICK p : Along(p, s, n, len)
  BY DEF Chained
<1>2. /\ Depth \in Nat /\ len \in Nat /\ V[0] = {Service(s)} /\ p[0] = Service(s) /\ p[len] = n
      /\ \A i \in 0 .. Depth : V[i] \in SUBSET Nodes
      /\ \A i \in 1 .. Depth : V[i] = Affected(V[i - 1])
      /\ \A i \in 1 .. len : Hop(p[i - 1], p[i])
  BY <1>1, IncidentAssumption DEF Broadens, Along
<1> DEFINE P == {i \in 0 .. len : p[i] \in V[i]}
<1>3. 0 \in P /\ P \in SUBSET (0 .. len)
  BY <1>2
<1>4. ASSUME NEW i \in 1 .. len, i - 1 \in P PROVE i \in P
  <2>1. i \in 1 .. Depth /\ i - 1 \in 0 .. Depth /\ i \in 0 .. len
    BY <1>2
  <2>2. V[i] = Affected(V[i - 1]) /\ V[i - 1] \in SUBSET Nodes /\ p[i - 1] \in V[i - 1]
    BY <1>2, <1>4, <2>1
  <2>3. p[i] \in Affected(V[i - 1])
    BY <1>2, <2>2, AffectedIsAHop
  <2>. QED
    BY <2>1, <2>2, <2>3
<1>5. \A i \in 1 .. len : i - 1 \in P => i \in P
  BY <1>4
<1> HIDE DEF P
<1>6. P = 0 .. len
  BY <1>2, <1>3, <1>5, Inductively
<1>7. len \in P
  BY <1>2, <1>6
<1>. QED
  BY <1>2, <1>7 DEF P

(* A node is joined to the service just if the walk comes to it.             *)
LEMMA JoinedIsReached ==
    ASSUME GraphTyped, NEW s \in Services
    PROVE  Joined(s) = Walk(s)[Depth] \ (gone \cup {Service(s)})
<1>1. PICK V : V = Walk(s) /\ Broadens(V, s)
  BY WalkBroadens
<1>2. Depth \in Nat
  BY IncidentAssumption
<1>3. V[Depth] \in SUBSET Nodes
  <2>1. Depth \in 0 .. Depth
    BY <1>2
  <2>. QED
    BY <1>1, <2>1 DEF Broadens
<1>4. ASSUME NEW n \in Nodes, n # Service(s)
      PROVE  (\E len \in 1 .. Depth : Chained(s, n, len)) <=> n \in V[Depth]
  <2>1. ASSUME NEW len \in 1 .. Depth, Chained(s, n, len) PROVE n \in V[Depth]
    <3>1. len \in 0 .. Depth
      BY <1>2
    <3>2. n \in V[len]
      BY <1>1, <2>1, <3>1, ChainIsReached
    <3>. QED
      BY <1>1, <3>1, <3>2, WalkGrows
  <2>2. ASSUME n \in V[Depth] PROVE \E len \in 1 .. Depth : Chained(s, n, len)
    <3>1. PICK len \in 0 .. Depth : Chained(s, n, len)
      BY <1>1, <2>2, ReachedByChain
    <3>2. len # 0
      BY <1>4, <3>1 DEF Chained, Along
    <3>3. len \in 1 .. Depth
      BY <1>2, <3>2
    <3>. QED
      BY <3>1, <3>3
  <2>. QED
    BY <2>1, <2>2
<1>5. \A n \in Nodes :
        (\E len \in 1 .. Depth : \E p \in [0 .. len -> Nodes] :
            /\ p[0] = Service(s) /\ p[len] = n
            /\ \A i \in 1 .. len : Hop(p[i - 1], p[i]))
        <=> \E len \in 1 .. Depth : Chained(s, n, len)
  BY Zenon DEF Chained, Along
<1>6. Joined(s) = {n \in Nodes \ (gone \cup {Service(s)}) : \E len \in 1 .. Depth : Chained(s, n, len)}
  BY <1>5, Zenon DEF Joined
<1>. QED
  BY <1>1, <1>3, <1>4, <1>6

(* What getNeighborhood() answers with.                                      *)
LEMMA NearIsRead ==
    ASSUME GraphTyped, NEW s \in Services, NEW d, d = Near(s)
    PROVE  d \in NearReads /\ NearFacts(s, d)
<1>1. PICK nodes : nodes = ({Service(s)} \cup {l[1] : l \in {m \in edges : m[3] = Service(s)}}
                              \cup {l[3] : l \in {m \in edges : m[1] = Service(s)}}) \ gone
  OBVIOUS
<1>2. PICK near : near = {l \in edges : l[1] \in nodes /\ l[3] \in nodes}
  OBVIOUS
<1>3. d = [nodes |-> nodes, edges |-> near, grade |-> grade, owned |-> Owned(s), of |-> <<edges, gone>>]
  BY <1>1, <1>2 DEF Near
<1>4. \A l \in edges : l = <<l[1], l[2], l[3]>> /\ l[1] \in Nodes /\ l[3] \in Nodes
  BY EdgeTypes
<1>5. nodes \in SUBSET Nodes /\ near \in SUBSET Links /\ <<edges, gone>> \in Snapshots
  BY <1>1, <1>2, <1>4 DEF GraphTyped, Snapshots, Nodes
<1>6. Owned(s) \in BOOLEAN
  BY Zenon DEF Owned
<1>7. d \in NearReads
  BY <1>3, <1>5, <1>6 DEF NearReads, GraphTyped
<1>8. d.nodes = nodes /\ d.edges = near /\ d.of[1] = edges /\ d.of[2] = gone /\ d.owned = Owned(s)
  BY <1>3
<1>9. near \subseteq edges /\ nodes \cap gone = {} /\ \A l \in near : l[1] \in nodes /\ l[3] \in nodes
  BY <1>1, <1>2
<1>10. ASSUME Owned(s), Service(s) \in nodes
       PROVE  \E l \in near : l[2] \in {"ON_CALL_FOR", "OWNS"} /\ l[3] = Service(s)
  <2>1. PICK n \in Nodes \ gone, t \in {"ON_CALL_FOR", "OWNS"} : <<n, t, Service(s)>> \in edges
    BY <1>10 DEF Owned
  <2>2. PICK l : l = <<n, t, Service(s)>>
    OBVIOUS
  <2>3. l \in edges /\ l[1] = n /\ l[2] = t /\ l[3] = Service(s)
    BY <2>1, <2>2
  <2>4. n \in nodes
    BY <1>1, <2>1, <2>3
  <2>. QED
    BY <1>2, <1>10, <2>1, <2>3, <2>4
<1>. QED
  BY <1>7, <1>8, <1>9, <1>10 DEF NearFacts

(* What getBlastRadius() answers with.                                       *)
LEMMA BlastIsRead ==
    ASSUME GraphTyped, NEW s \in Services, NEW k, k = <<s, "blast">>, NEW d \in Reads(k)
    PROVE  d \in BlastReads /\ BlastFacts(s, d)
<1>1. PICK V : V = Walk(s) /\ Broadens(V, s)
  BY WalkBroadens
<1>2. V[Depth] \in SUBSET Nodes
  <2>1. Depth \in 0 .. Depth
    BY IncidentAssumption
  <2>. QED
    BY <1>1, <2>1 DEF Broadens
<1>3. PICK found \in Reached(s) : d \in BlastRadius(s, found)
  BY DEF Reads
<1>4. found \subseteq V[Depth]
  <2>1. \/ found = V[Depth]
        \/ found \in SUBSET V[Depth]
    BY <1>1, <1>3 DEF Reached
  <2>. QED
    BY <2>1
<1>5. PICK nodes : nodes = found \ gone
  OBVIOUS
<1>16. PICK joined : joined = Joined(s)
  OBVIOUS
<1>6. PICK cut \in SUBSET nodes :
        d = [nodes |-> cut, grade |-> grade, truncated |-> Cardinality(nodes) > MaxBlast,
             whole |-> found = Walk(s)[Depth] /\ cut = nodes, joined |-> joined,
             of |-> <<edges, gone>>]
  BY <1>3, <1>5, <1>16 DEF BlastRadius
<1>7. PICK whole \in BOOLEAN : whole = (found = V[Depth] /\ cut = nodes)
  OBVIOUS
<1>8. joined = V[Depth] \ (gone \cup {Service(s)}) /\ joined \in SUBSET Nodes
  BY <1>1, <1>2, <1>16, JoinedIsReached
<1>15. PICK more \in BOOLEAN : more = (Cardinality(nodes) > MaxBlast)
  <2>1. nodes \subseteq Nodes /\ IsFiniteSet(Nodes) /\ MaxBlast \in Nat
    BY <1>2, <1>4, <1>5, IncidentAssumption
  <2>2. PICK c \in Nat : c = Cardinality(nodes)
    BY <2>1, FS_Subset, FS_CardinalityType
  <2>3. (c > MaxBlast) \in BOOLEAN
    BY <2>1, <2>2
  <2>. QED
    BY <2>2, <2>3
<1>9. /\ d.nodes = cut /\ d.grade = grade /\ d.whole = whole /\ d.joined = joined
      /\ d.of[1] = edges /\ d.of[2] = gone
  BY <1>1, <1>6, <1>7
<1>10. d \in BlastReads
  <2>1. cut \in SUBSET Nodes /\ <<edges, gone>> \in Snapshots
    BY <1>2, <1>4, <1>5 DEF GraphTyped, Snapshots
  <2>2. d = [nodes |-> cut, grade |-> grade, truncated |-> more,
             whole |-> whole, joined |-> joined, of |-> <<edges, gone>>]
    BY <1>1, <1>6, <1>7, <1>15
  <2>. QED
    BY <1>7, <1>8, <1>15, <2>1, <2>2 DEF BlastReads, GraphTyped
<1>12. d.nodes \ {Service(s)} \subseteq d.joined /\ Service(s) \notin d.joined
  BY <1>4, <1>5, <1>8, <1>9
<1>13. d.whole => d.joined \subseteq d.nodes
  BY <1>5, <1>7, <1>8, <1>9
<1>14. ASSUME d.whole, NEW l \in d.of[1], l[2] \in Inbound, l[3] = Service(s), l[1] \notin d.of[2]
       PROVE  l[1] \in d.nodes
  <2>1. l \in edges /\ l[1] \notin gone /\ cut = V[Depth] \ gone
    BY <1>5, <1>7, <1>9, <1>14
  <2>2. 1 \in 1 .. Depth /\ 1 \in 0 .. Depth /\ 1 - 1 = 0
    BY IncidentAssumption
  <2>3. V[0] = {Service(s)} /\ V[1] = Affected(V[1 - 1])
    BY <1>1, <2>2 DEF Broadens
  <2>4. l[1] \in V[1]
    <3>1. l[1] \in Affected({Service(s)})
      BY <1>14, <2>1 DEF Affected
    <3>. QED
      BY <2>2, <2>3, <3>1
  <2>5. l[1] \in V[Depth]
    BY <1>1, <2>2, <2>4, WalkGrows
  <2>. QED
    BY <1>9, <2>1, <2>5
<1>. QED
  BY <1>10, <1>12, <1>13, <1>14 DEF BlastFacts

-----------------------------------------------------------------------------
(* The steps.  The graph moves, and what was read stays.                     *)
LEMMA KeyTypes ==
    \A k : k \in Keys <=> \E s \in Services : k = <<s, "near">> \/ k = <<s, "blast">>
BY DEF Keys

LEMMA IncidentInitInv == IncidentInit => IncidentInv
<1> SUFFICES ASSUME IncidentInit PROVE IncidentInv
  OBVIOUS
<1>1. /\ edges \in SUBSET Links /\ grade \in [Services -> Grades] /\ gone = {}
      /\ viewing = NULL /\ cached = [k \in Keys |-> Unread] /\ asking = {}
  BY DEF IncidentInit
<1>2. Unread \in [data : NearReads \cup BlastReads \cup {NULL}, failed : BOOLEAN] /\ Unread.data = NULL
  BY DEF Unread
<1>3. \A k \in Keys : cached[k].data = NULL
  BY <1>1, <1>2
<1>4. \A s \in Services : <<s, "near">> \in Keys /\ <<s, "blast">> \in Keys
  BY KeyTypes
<1>5. IncidentTyped
  BY <1>1, <1>2 DEF IncidentTyped, GraphTyped
<1>6. NearStands /\ BlastStands
  BY <1>3, <1>4 DEF NearStands, BlastStands
<1>. QED
  BY <1>1, <1>5, <1>6 DEF IncidentInv, OpenAsks

LEMMA GraphKeepsIncident ==
    ASSUME IncidentInv,
           \/ \E l \in Links : EdgeChanges(l)
           \/ \E s \in Services, g \in Grades : GradeChanges(s, g)
           \/ \E n \in Nodes : Sweep(n)
    PROVE  IncidentInv'
<1>1. viewing' = viewing /\ cached' = cached /\ asking' = asking
  BY DEF EdgeChanges, GradeChanges, Sweep
<1>2. GraphTyped'
  <2>1. CASE \E l \in Links : EdgeChanges(l)
    BY <2>1 DEF IncidentInv, IncidentTyped, GraphTyped, EdgeChanges
  <2>2. CASE \E s \in Services, g \in Grades : GradeChanges(s, g)
    BY <2>2 DEF IncidentInv, IncidentTyped, GraphTyped, GradeChanges
  <2>3. CASE \E n \in Nodes : Sweep(n)
    BY <2>3 DEF IncidentInv, IncidentTyped, GraphTyped, Sweep
  <2>. QED
    BY <2>1, <2>2, <2>3
<1>. QED
  BY <1>1, <1>2 DEF IncidentInv, IncidentTyped, NearStands, BlastStands, OpenAsks

(* A fetch that begins asks, keeps the data there is, and forgets a failure  *)
(* only of a key it asks.                                                    *)
LEMMA FetchAsks ==
    ASSUME IncidentInv, NEW keys \in SUBSET Keys, NEW net, Fetch(keys, net)
    PROVE  /\ asking' = asking \cup keys
           /\ cached' \in [Keys -> [data : NearReads \cup BlastReads \cup {NULL}, failed : BOOLEAN]]
           /\ \A k \in Keys : cached'[k].data = cached[k].data
           /\ \A k \in Keys \ keys : cached'[k] = cached[k]
<1>1. Unread \in [data : NearReads \cup BlastReads \cup {NULL}, failed : BOOLEAN] /\ Unread.data = NULL
  BY DEF Unread
<1>2. cached \in [Keys -> [data : NearReads \cup BlastReads \cup {NULL}, failed : BOOLEAN]]
  BY DEF IncidentInv, IncidentTyped
<1>3. PICK begun : begun = keys \ asking
  OBVIOUS
<1>4. /\ asking' = asking \cup keys
      /\ cached' = [k \in Keys |-> IF k \in begun /\ cached[k].data = NULL THEN Unread ELSE cached[k]]
  BY <1>3 DEF Fetch
<1>5. \A k \in Keys : cached'[k] = IF k \in begun /\ cached[k].data = NULL THEN Unread ELSE cached[k]
  BY <1>4
<1>. QED
  BY <1>1, <1>2, <1>3, <1>4, <1>5

LEMMA MountsAsked ==
    ASSUME NEW s \in Services
    PROVE  /\ Mounts(s) \in SUBSET Keys
           /\ \A q \in {"near", "blast"} : cached[<<s, q>>].data = NULL => <<s, q>> \in Mounts(s)
<1>1. SUFFICES ASSUME NEW q \in {"near", "blast"}, cached[<<s, q>>].data = NULL
               PROVE  <<s, q>> \in Mounts(s)
  BY DEF Mounts
<1>2. PICK k : k = <<s, q>>
  OBVIOUS
<1>3. k \in Keys /\ k[1] = s /\ cached[k].data = NULL
  BY <1>1, <1>2 DEF Keys
<1>. QED
  BY <1>2, <1>3 DEF Mounts

LEMMA PageKeepsIncident ==
    ASSUME IncidentInv,
           (\E s \in Services : OpenDashboard(s)) \/ LeaveDashboard \/ GoOffline \/ GoOnline
    PROVE  IncidentInv'
<1>1. edges' = edges /\ grade' = grade /\ gone' = gone
  BY DEF OpenDashboard, LeaveDashboard, GoOffline, GoOnline, catalogGraph
<1>2. IncidentTyped /\ GraphTyped /\ NearStands /\ BlastStands /\ OpenAsks
  BY DEF IncidentInv, IncidentTyped
<1>3. GraphTyped'
  BY <1>1, <1>2 DEF GraphTyped
<1>4. CASE LeaveDashboard \/ GoOffline
  <2>1. viewing' \in {viewing, NULL} /\ asking' = asking /\ cached' = cached
    BY <1>4 DEF LeaveDashboard, GoOffline
  <2>2. NearStands' /\ BlastStands'
    BY <1>2, <2>1 DEF NearStands, BlastStands
  <2>3. IncidentTyped'
    BY <1>2, <1>3, <2>1 DEF IncidentTyped
  <2>4. OpenAsks'
    BY <1>2, <2>1 DEF OpenAsks
  <2>. QED
    BY <2>2, <2>3, <2>4 DEF IncidentInv
<1>5. CASE (\E s \in Services : OpenDashboard(s)) \/ GoOnline
  <2>1. PICK keys \in SUBSET Keys, net \in BOOLEAN :
          /\ Fetch(keys, net) /\ viewing' \in Services \cup {NULL}
          /\ viewing' # NULL => keys = Mounts(viewing')
    <3>1. CASE \E s \in Services : OpenDashboard(s)
      <4>1. PICK s \in Services : viewing' = s /\ Fetch(Mounts(s), online)
        BY <3>1 DEF OpenDashboard
      <4>2. Mounts(s) \in SUBSET Keys
        BY MountsAsked
      <4>3. PICK keys : keys = Mounts(s)
        OBVIOUS
      <4>4. Fetch(keys, TRUE) \/ Fetch(keys, FALSE)
        BY <4>1, <4>3 DEF Fetch
      <4>. QED
        BY <4>1, <4>2, <4>3, <4>4
    <3>2. CASE GoOnline
      <4>1. PICK keys : keys = IF viewing = NULL THEN {} ELSE Mounts(viewing)
        OBVIOUS
      <4>2. viewing' = viewing /\ Fetch(keys, TRUE)
        BY <3>2, <4>1 DEF GoOnline
      <4>3. keys \in SUBSET Keys /\ viewing \in Services \cup {NULL}
        BY <1>2, <4>1, MountsAsked DEF IncidentTyped
      <4>. QED
        BY <4>1, <4>2, <4>3
    <3>. QED
      BY <1>5, <3>1, <3>2
  <2>2. /\ asking' = asking \cup keys
        /\ cached' \in [Keys -> [data : NearReads \cup BlastReads \cup {NULL}, failed : BOOLEAN]]
        /\ \A k \in Keys : cached'[k].data = cached[k].data
    BY <2>1, FetchAsks
  <2>3. \A s \in Services : <<s, "near">> \in Keys /\ <<s, "blast">> \in Keys
    BY KeyTypes
  <2>4. NearStands' /\ BlastStands'
    BY <1>2, <2>2, <2>3 DEF NearStands, BlastStands
  <2>5. IncidentTyped'
    BY <1>2, <1>3, <2>1, <2>2 DEF IncidentTyped
  <2>6. OpenAsks'
    <3>1. SUFFICES ASSUME viewing' # NULL, NEW q \in {"near", "blast"},
                          cached'[<<viewing', q>>].data = NULL
                   PROVE  <<viewing', q>> \in asking'
      BY DEF OpenAsks
    <3>2. PICK s \in Services : s = viewing' /\ keys = Mounts(s)
      BY <2>1, <3>1
    <3>3. cached[<<s, q>>].data = NULL
      BY <2>2, <2>3, <3>1, <3>2
    <3>4. <<s, q>> \in keys
      BY <3>2, <3>3, MountsAsked
    <3>. QED
      BY <2>2, <3>2, <3>4
  <2>. QED
    BY <2>4, <2>5, <2>6 DEF IncidentInv
<1>. QED
  BY <1>4, <1>5

LEMMA AnswerKeepsIncident ==
    ASSUME IncidentInv, NEW k \in asking, NEW data \in Reads(k), Answered(k, data)
    PROVE  IncidentInv'
<1>1. /\ edges' = edges /\ grade' = grade /\ gone' = gone /\ viewing' = viewing
      /\ asking' = asking \ {k}
      /\ cached' = [cached EXCEPT ![k] = [data |-> data, failed |-> FALSE]]
  BY DEF Answered, catalogGraph
<1>2. IncidentTyped /\ GraphTyped /\ NearStands /\ BlastStands /\ OpenAsks
  BY DEF IncidentInv, IncidentTyped
<1>3. PICK s \in Services : k = <<s, "near">> \/ k = <<s, "blast">>
  BY <1>2, KeyTypes DEF IncidentTyped
<1>4. /\ k = <<s, "near">> => data \in NearReads /\ NearFacts(s, data)
      /\ k = <<s, "blast">> => data \in BlastReads /\ BlastFacts(s, data)
  <2>1. CASE k = <<s, "near">>
    <3>1. data = Near(s)
      BY <2>1 DEF Reads
    <3>. QED
      BY <1>2, <2>1, <3>1, NearIsRead
  <2>2. CASE k = <<s, "blast">>
    BY <1>2, <2>2, BlastIsRead
  <2>. QED
    BY <1>3, <2>1, <2>2
<1>5. data # NULL /\ data \in NearReads \cup BlastReads
  BY <1>3, <1>4, IncidentAssumption
<1>6. PICK c : c = [data |-> data, failed |-> FALSE]
  OBVIOUS
<1>7. /\ c \in [data : NearReads \cup BlastReads \cup {NULL}, failed : BOOLEAN] /\ c.data = data
      /\ cached' = [cached EXCEPT ![k] = c]
  BY <1>1, <1>5, <1>6
<1>8. k \in Keys /\ cached'[k] = c /\ \A j \in Keys \ {k} : cached'[j] = cached[j]
  BY <1>2, <1>7 DEF IncidentTyped
<1>9. IncidentTyped'
  BY <1>1, <1>2, <1>7 DEF IncidentTyped, GraphTyped
<1>10. NearStands'
  <2>1. SUFFICES ASSUME NEW t \in Services, cached'[<<t, "near">>].data # NULL
                 PROVE  cached'[<<t, "near">>].data \in NearReads /\ NearFacts(t, cached'[<<t, "near">>].data)
    BY DEF NearStands
  <2>2. <<t, "near">> \in Keys
    BY KeyTypes
  <2>3. CASE <<t, "near">> = k
    BY <1>3, <1>4, <1>7, <1>8, <2>3
  <2>4. CASE <<t, "near">> # k
    BY <1>2, <1>8, <2>1, <2>2, <2>4 DEF NearStands
  <2>. QED
    BY <2>3, <2>4
<1>11. BlastStands'
  <2>1. SUFFICES ASSUME NEW t \in Services, cached'[<<t, "blast">>].data # NULL
                 PROVE  cached'[<<t, "blast">>].data \in BlastReads /\ BlastFacts(t, cached'[<<t, "blast">>].data)
    BY DEF BlastStands
  <2>2. <<t, "blast">> \in Keys
    BY KeyTypes
  <2>3. CASE <<t, "blast">> = k
    BY <1>3, <1>4, <1>7, <1>8, <2>3
  <2>4. CASE <<t, "blast">> # k
    BY <1>2, <1>8, <2>1, <2>2, <2>4 DEF BlastStands
  <2>. QED
    BY <2>3, <2>4
<1>12. OpenAsks'
  <2>1. SUFFICES ASSUME viewing # NULL, NEW q \in {"near", "blast"}, cached'[<<viewing, q>>].data = NULL
                 PROVE  <<viewing, q>> \in asking' \/ cached'[<<viewing, q>>].failed
    BY <1>1 DEF OpenAsks
  <2>2. <<viewing, q>> \in Keys
    BY <1>2, <2>1 DEF IncidentTyped, Keys
  <2>3. <<viewing, q>> # k
    BY <1>5, <1>7, <1>8, <2>1
  <2>. QED
    BY <1>1, <1>2, <1>8, <2>1, <2>2, <2>3 DEF OpenAsks
<1>. QED
  BY <1>9, <1>10, <1>11, <1>12 DEF IncidentInv

LEMMA FetchKeepsIncident ==
    ASSUME IncidentInv, NEW k \in Keys, GrowsOld(k) \/ RetryPauses(k) \/ FetchError(k)
    PROVE  IncidentInv'
<1>1. CASE GrowsOld(k) \/ RetryPauses(k)
  <2>1. UNCHANGED <<edges, grade, gone, viewing, cached, asking>>
    BY <1>1 DEF GrowsOld, RetryPauses, catalogGraph
  <2>. QED
    BY <2>1 DEF IncidentInv, IncidentTyped, GraphTyped, NearStands, BlastStands, OpenAsks
<1>2. CASE FetchError(k)
  <2>1. /\ edges' = edges /\ grade' = grade /\ gone' = gone /\ viewing' = viewing
        /\ asking' = asking \ {k} /\ cached' = [cached EXCEPT ![k].failed = TRUE]
    BY <1>2 DEF FetchError, catalogGraph
  <2>2. IncidentTyped /\ NearStands /\ BlastStands /\ OpenAsks
    BY DEF IncidentInv
  <2>3. /\ cached' \in [Keys -> [data : NearReads \cup BlastReads \cup {NULL}, failed : BOOLEAN]]
        /\ \A j \in Keys : cached'[j].data = cached[j].data /\ (cached[j].failed => cached'[j].failed)
        /\ cached'[k].failed
    BY <2>1, <2>2 DEF IncidentTyped
  <2>4. \A s \in Services : <<s, "near">> \in Keys /\ <<s, "blast">> \in Keys
    BY KeyTypes
  <2>5. NearStands' /\ BlastStands'
    BY <2>2, <2>3, <2>4 DEF NearStands, BlastStands
  <2>6. OpenAsks'
    <3>1. SUFFICES ASSUME viewing # NULL, NEW q \in {"near", "blast"}, cached'[<<viewing, q>>].data = NULL
                   PROVE  <<viewing, q>> \in asking' \/ cached'[<<viewing, q>>].failed
      BY <2>1 DEF OpenAsks
    <3>2. <<viewing, q>> \in Keys
      BY <2>2, <3>1 DEF IncidentTyped, Keys
    <3>3. <<viewing, q>> \in asking \/ cached[<<viewing, q>>].failed
      BY <2>2, <2>3, <3>1, <3>2 DEF OpenAsks
    <3>. QED
      BY <2>1, <2>3, <3>2, <3>3
  <2>. QED
    BY <2>1, <2>2, <2>3, <2>5, <2>6 DEF IncidentInv, IncidentTyped, GraphTyped
<1>. QED
  BY <1>1, <1>2

LEMMA IncidentStep ==
    ASSUME IncidentInv, IncidentNext \/ UNCHANGED incidentVars
    PROVE  IncidentInv'
<1>1. CASE UNCHANGED incidentVars
  BY <1>1 DEF incidentVars, IncidentInv, IncidentTyped, GraphTyped, NearStands, BlastStands,
     OpenAsks
<1>. QED
  BY <1>1, GraphKeepsIncident, PageKeepsIncident, AnswerKeepsIncident, FetchKeepsIncident
  DEF IncidentNext

(* ... and what the page says of the records it shows.                       *)
LEMMA IncidentFollows == part = "incident" /\ IncidentInv => CriticalIsShown
<1> SUFFICES ASSUME IncidentInv, viewing # NULL, Page = "dashboard"
             PROVE  /\ RiskIsRead(Data("blast")) /\ ImpactIsRead(Data("blast"))
                    /\ RespondersPanel = "none" => ~Data("near").owned
  BY DEF CriticalIsShown
<1>1. IncidentTyped /\ NearStands /\ BlastStands /\ OpenAsks
  BY DEF IncidentInv
<1>2. PICK s \in Services : s = viewing
  BY <1>1 DEF IncidentTyped
<1>3. PICK near : near = Data("near")
  OBVIOUS
<1>4. PICK read : read = Data("blast")
  OBVIOUS
<1>5. Found
  BY Zenon DEF Page
<1>6. near # NULL /\ Service(s) \in near.nodes
  BY <1>2, <1>3, <1>5 DEF Found
<1>7. near = cached[<<s, "near">>].data /\ read = cached[<<s, "blast">>].data
  BY <1>2, <1>3, <1>4 DEF Data
<1>8. near \in NearReads /\ NearFacts(s, near)
  BY <1>1, <1>6, <1>7 DEF NearStands
<1>9. read # NULL => read \in BlastReads /\ BlastFacts(s, read)
  BY <1>1, <1>7 DEF BlastStands
<1>10. BlastData = read
  BY <1>4 DEF BlastData
<1>11. Entries = IF read = NULL THEN {} ELSE read.nodes \ {Service(s)}
  BY <1>2, <1>10 DEF Entries
<1>12. TierOne # {} <=> read # NULL /\ \E n \in Entries :
                           Type(n) = "LogicalService" /\ read.grade[n[2]].tier = 1
  BY <1>10, <1>11 DEF TierOne
<1>13. /\ Verdict = "red" <=> near.grade[s].tier = 1 \/ TierOne # {}
       /\ Verdict = "green" => Entries = {}
  BY <1>2, <1>3, <1>5 DEF Verdict, HeaderGrade
<1>14. BlastPanel = "no impact" => Entries = {} /\ (read # NULL \/ <<s, "blast">> \in paused)
  <2>1. ASSUME read = NULL PROVE <<s, "blast">> \in asking \/ cached[<<s, "blast">>].failed
    BY <1>1, <1>2, <1>7, <2>1 DEF OpenAsks
  <2>. QED
    BY <1>2, <1>10, <2>1 DEF BlastPanel, Fetching
<1>15. near.edges \subseteq Links
  BY <1>8 DEF NearReads
<1>16. RespondersPanel = "none" => ~near.owned
  <2>1. SUFFICES ASSUME near.owned PROVE OnCall \cup OwningTeams # {}
    BY DEF RespondersPanel
  <2>2. PICK l \in near.edges : l[2] \in {"ON_CALL_FOR", "OWNS"} /\ l[3] = Service(s)
    BY <1>6, <1>8, <2>1 DEF NearFacts
  <2>3. CASE l[2] = "ON_CALL_FOR"
    <3>1. Type(l[1]) = "Person"
      BY <1>15, <2>2, <2>3, IncidentAssumption
    <3>2. l[1] \in From({"ON_CALL_FOR"}, Service(viewing))
      BY <1>2, <1>3, <2>2, <2>3 DEF From
    <3>. QED
      BY <3>1, <3>2 DEF OnCall
  <2>4. CASE l[2] = "OWNS"
    <3>1. Type(l[1]) = "Team"
      BY <1>15, <2>2, <2>4, IncidentAssumption
    <3>2. l[1] \in From({"OWNS"}, Service(viewing))
      BY <1>2, <1>3, <2>2, <2>4 DEF From
    <3>. QED
      BY <3>1, <3>2 DEF OwningTeams
  <2>. QED
    BY <2>2, <2>3, <2>4
<1>17. ASSUME read # NULL, read.whole, read.of = near.of,
              NEW n \in (Dependents \cup Monitors) \ {Service(s)}
       PROVE  n \in Entries
  <2>1. PICK l \in near.edges : l[2] \in Inbound /\ l[3] = Service(s) /\ l[1] = n
    BY <1>2, <1>3, <1>17 DEF Dependents, Monitors, From, Inbound
  <2>2. l \in read.of[1] /\ l[1] \notin read.of[2]
    BY <1>8, <1>17, <2>1 DEF NearFacts
  <2>3. l[1] \in read.nodes
    BY <1>9, <1>17, <2>1, <2>2 DEF BlastFacts
  <2>. QED
    BY <1>11, <1>17, <2>1, <2>3
<1>18. /\ read # NULL => Entries \subseteq read.joined
       /\ read # NULL /\ read.whole => read.joined \subseteq Entries
  BY <1>9, <1>11 DEF BlastFacts
<1>19. ASSUME Verdict = "red", near.grade[s].tier # 1 PROVE read # NULL /\ Critical(read)
  <2>1. PICK n \in Entries : read # NULL /\ Type(n) = "LogicalService" /\ read.grade[n[2]].tier = 1
    BY <1>12, <1>13, <1>19
  <2>2. n \in Nodes
    BY <1>9, <1>11, <2>1 DEF BlastReads
  <2>3. PICK t : t = n[2]
    OBVIOUS
  <2>4. t \in Services /\ Service(t) = n
    BY <2>1, <2>2, <2>3, IncidentAssumption DEF Type, Service
  <2>. QED
    BY <1>18, <2>1, <2>3, <2>4 DEF Critical
<1>20. ASSUME read # NULL, read.whole, Critical(read) PROVE Verdict = "red"
  <2>1. PICK t \in Services : Service(t) \in read.joined /\ read.grade[t].tier = 1
    BY <1>20 DEF Critical
  <2>2. PICK n : n = Service(t)
    OBVIOUS
  <2>3. n \in Entries /\ Type(n) = "LogicalService" /\ n[2] = t
    BY <1>18, <1>20, <2>1, <2>2 DEF Service, Type
  <2>. QED
    BY <1>12, <1>13, <1>20, <2>1, <2>3
<1>21. ASSUME read # NULL, read.whole, read.joined # {}
       PROVE  Entries # {}
  BY <1>18, <1>21
<1>22. HeaderGrade.tier = near.grade[s].tier
  BY <1>2, <1>3 DEF HeaderGrade
<1>23. RiskIsRead(read)
  <2>1. Verdict = "red" => HeaderGrade.tier = 1 \/ (read # NULL /\ Critical(read))
    BY <1>19, <1>22
  <2>2. HeaderGrade.tier = 1 => Verdict = "red"
    BY <1>13, <1>22
  <2>3. read # NULL /\ read.whole /\ Critical(read) => Verdict = "red"
    BY <1>20
  <2>4. read # NULL /\ read.whole /\ read.joined # {} => Verdict # "green"
    BY <1>13, <1>21
  <2>. QED
    BY <2>1, <2>2, <2>3, <2>4 DEF RiskIsRead
<1>24. ImpactIsRead(read)
  BY <1>2, <1>3, <1>14, <1>17, <1>21 DEF ImpactIsRead
<1>. QED
  BY <1>3, <1>4, <1>16, <1>23, <1>24

(* The dashboard says of a service what was read for it, whatever was shown   *)
(* before and whichever answer came first: the change risk is critical just   *)
(* when the service or a dependant in reach is of tier 1 (and "just when"     *)
(* once the graph was read whole), neither low risk nor "no impact" is then   *)
(* said of a service with a dependant, nor "no impact" of an answer that is   *)
(* missing unless its fetch waits for the network, nor "nobody" of a service  *)
(* somebody is on call for.                                                   *)
THEOREM CriticalIsTrue == Spec => []CriticalIsShown
<1> DEFINE Inv == part = "incident" => IncidentInv
<1>1. Init => Inv
  BY IncidentInitInv DEF Init
<1>2. Inv /\ [Next]_vars => Inv'
  BY PartKept, PartSteps, IncidentStep
<1>3. Inv => CriticalIsShown
  BY IncidentFollows DEF CriticalIsShown
<1>. QED
  BY <1>1, <1>2, <1>3, PTL DEF Spec
=============================================================================
