--------------------------- MODULE GraphWriterProof ---------------------------
(***************************************************************************)
(* Proofs about GraphWriter: a user's manual claim is never overwritten by *)
(* a writer that read the claims before the edit, and what was published   *)
(* last is what the graph ends up with.                                    *)
(***************************************************************************)
EXTENDS GraphWriter, SequenceTheorems, TLAPS

NodeEvents ==
    [kind : {"node"}, entity : Entities, content : Contents, version : Nat, synced : Nat]

Events == NodeEvents \cup [kind : {"sync"}, startedAt : Nat]

Batches ==
    [events : Seq(Events), pc : {"idle", "check", "read", "write", "record"},
     claims : Manual \cup {NULL}, rev : Nat, attempt : Nat,
     written : BOOLEAN, failed : BOOLEAN, awaited : BOOLEAN]

SourceTypes ==
    /\ kind \in {"github", "kubernetes"}
    /\ now \in Nat
    /\ truth \in [Entities -> [content : Contents, version : Nat] \cup {NULL}]
    /\ seen \in [Entities -> SUBSET Contents]

SyncTypes ==
    /\ run \in Runs \cup {NULL}
    /\ fetched \in [Fetchers -> NodeEvents \cup {NULL}]
    /\ fetched["run"] # NULL => run # NULL

BusTypes ==
    /\ queue \in Seq(Events) /\ buffer \in Seq(Events)
    /\ active \in Ids \cup {NULL}

FlightTypes ==
    /\ flight \in [Flights -> Batches]
    /\ \A b \in Flights : IF flight[b].pc = "idle" THEN flight[b] = Idle
                          ELSE flight[b].events # <<>>

GraphTypes ==
    /\ node \in [Entities -> Nodes \cup {NULL}]
    /\ attested \in [Entities -> Manual \cup {NULL}]
    /\ expected \in [Entities -> NodeEvents \cup {NULL}]

TypeOK == SourceTypes /\ SyncTypes /\ BusTypes /\ FlightTypes /\ GraphTypes

-----------------------------------------------------------------------------
(* The writer's compare-and-set: whoever holds the revision a node still has *)
(* has read the manual claim the node still has.                             *)
ReadIsOld(b) ==
    LET e == Event(b).entity
    IN /\ flight[b].rev <= Rev(e)
       /\ node[e] = NULL => flight[b].claims = NULL
       /\ node[e] # NULL => (node[e].rev = flight[b].rev => flight[b].claims = node[e].manual)

ClaimInv ==
    /\ ManualClaimStands
    /\ \A e \in Entities : IF node[e] = NULL THEN attested[e] = NULL ELSE node[e].rev > 0
    /\ \A b \in Flights : At(b, "write") => ReadIsOld(b)

-----------------------------------------------------------------------------
(* Where a published event still is. *)
Flying == UNION {ToSet(flight[b].events) : b \in Flights}

Waiting == ToSet(queue) \cup ToSet(buffer) \cup Flying

(* A source that never returns to an earlier content gives each content one  *)
(* time: d[e][c] is when entity e came to hold c.                            *)
Dates == [Entities -> [Contents -> Nat]]

Dated(e, x, d) == x.content \in seen[e] /\ x.version = d[e][x.content]

DateInv(d) ==
    /\ \A e \in Entities : \A c \in seen[e] :
          /\ d[e][c] <= now
          /\ \A x \in seen[e] : d[e][x] = d[e][c] => x = c
    /\ \A e \in Entities : /\ truth[e] # NULL => Dated(e, truth[e], d)
                           /\ node[e] # NULL => Dated(e, node[e], d)
                           /\ expected[e] # NULL =>
                                expected[e].entity = e /\ Dated(e, expected[e], d)
    /\ \A f \in Fetchers : fetched[f] # NULL => Dated(fetched[f].entity, fetched[f], d)
    /\ \A ev \in Waiting : ev \in NodeEvents /\ Dated(ev.entity, ev, d)

(* The graph holds content c of e, with its claims, or something newer. *)
Landed(e, c, d) ==
    /\ node[e] # NULL
    /\ node[e].version >= d[e][c]
    /\ node[e].version = d[e][c] => node[e].conn = c

LandInv(d) ==
    /\ \A e \in Entities, c \in Contents : <<e, c>> \in keys => c \in seen[e] /\ Landed(e, c, d)
    /\ \A b \in Flights : At(b, "record") => Landed(Event(b).entity, Event(b).content, d)
    /\ \A e \in Entities : expected[e] # NULL =>
          \/ Landed(e, expected[e].content, d)
          \/ \E ev \in Waiting : JobId(ev) = <<e, expected[e].content>>

(* The job that is active is the last of a batch that is being written. *)
BusInv ==
    /\ Len(buffer) < BatchSize
    /\ active # NULL =>
          \E b \in Flights : flight[b].pc # "idle" /\ flight[b].awaited /\ JobId(Last(flight[b].events)) = active

-----------------------------------------------------------------------------
(* Heads and tails of typed sequences. *)
LEMMA HeadTail ==
    ASSUME NEW S, NEW s \in Seq(S), s # <<>>
    PROVE  /\ Head(s) \in S /\ Tail(s) \in Seq(S) /\ Last(s) \in S
           /\ Len(s) \in Nat /\ Len(s) > 0
           /\ Len(s) # 1 => Tail(s) # <<>> /\ Last(Tail(s)) = Last(s)
           /\ Len(s) = 1 => Last(s) = Head(s)
<1>1. Head(s) \in S /\ Tail(s) \in Seq(S) /\ Len(Tail(s)) = Len(s) - 1
      /\ \A i \in 1..Len(Tail(s)) : Tail(s)[i] = s[i + 1]
  BY HeadTailProperties
<1>2. Len(s) \in Nat /\ Len(s) > 0
  BY EmptySeq
<1>3. Last(s) \in S
  BY <1>2, ElementOfSeq DEF Last
<1>4. ASSUME Len(s) # 1 PROVE Tail(s) # <<>> /\ Last(Tail(s)) = Last(s)
  <2>1. Len(Tail(s)) \in Nat \ {0}
    BY <1>1, <1>2, <1>4
  <2>2. Tail(s) # <<>>
    BY <2>1, <1>1, EmptySeq
  <2>3. Len(Tail(s)) \in 1..Len(Tail(s)) /\ Len(Tail(s)) + 1 = Len(s)
    BY <2>1, <1>1, <1>2
  <2>4. Tail(s)[Len(Tail(s))] = s[Len(s)]
    BY <2>3, <1>1
  <2>. QED BY <2>2, <2>4 DEF Last
<1>5. Len(s) = 1 => Last(s) = Head(s)
  BY <1>2 DEF Last
<1>. QED BY <1>1, <1>2, <1>3, <1>4, <1>5

(* The batch of a flight that is at work, and the end of its first event. *)
LEMMA BatchTypes ==
    ASSUME TypeOK, NEW b \in Flights, flight[b].pc # "idle"
    PROVE  /\ flight[b].events \in Seq(Events) /\ flight[b].events # <<>>
           /\ Event(b) \in Events
           /\ Event(b).kind = "node" => Event(b) \in NodeEvents
<1>1. flight[b].events \in Seq(Events) /\ flight[b].events # <<>>
  BY DEF TypeOK, FlightTypes, Batches
<1>2. Event(b) \in Events
  BY <1>1, HeadTail DEF Event
<1>3. Event(b).kind = "node" => Event(b) \in NodeEvents
  BY <1>2 DEF Events
<1>. QED BY <1>1, <1>2, <1>3

LEMMA AdvanceTypes ==
    ASSUME TypeOK, NEW b \in Flights, flight[b].pc # "idle",
           NEW f \in BOOLEAN, Advance(b, f)
    PROVE  FlightTypes' /\ active' \in Ids \cup {NULL}
<1>1. flight[b].events \in Seq(Events) /\ flight[b].events # <<>> /\ flight[b].awaited \in BOOLEAN
  BY BatchTypes DEF TypeOK, FlightTypes, Batches
<1>2. Tail(flight[b].events) \in Seq(Events)
      /\ (Len(flight[b].events) # 1 => Tail(flight[b].events) # <<>>)
  BY <1>1, HeadTail
<1>3. Idle \in Batches /\ Idle.pc = "idle"
  BY EmptySeq DEF Idle, Batches
<1>. DEFINE rest == [Idle EXCEPT !.events = Tail(flight[b].events), !.pc = "check",
                           !.awaited = flight[b].awaited, !.failed = f]
<1>4. rest \in Batches /\ rest.pc = "check" /\ rest.events = Tail(flight[b].events)
  BY <1>1, <1>2, <1>3 DEF Idle, Batches
<1>. HIDE DEF rest
<1>5. flight' = [flight EXCEPT ![b] = IF Len(flight[b].events) = 1 THEN Idle ELSE rest]
  BY DEF Advance, rest
<1>6. FlightTypes'
  BY <1>2, <1>3, <1>4, <1>5 DEF TypeOK, FlightTypes
<1>7. active' \in Ids \cup {NULL}
  BY DEF Advance, TypeOK, BusTypes
<1>. QED BY <1>6, <1>7
-----------------------------------------------------------------------------
(* Types. *)
LEMMA EnqueueTypes ==
    ASSUME TypeOK, NEW ev \in Events, Enqueue(ev)
    PROVE  queue' \in Seq(Events)
BY AppendProperties DEF TypeOK, BusTypes, Enqueue

LEMMA TakeTypes ==
    ASSUME TypeOK, NEW s \in Seq(Events), s # <<>>, NEW b \in Flights, NEW w \in BOOLEAN,
           Take(s, b, w)
    PROVE  FlightTypes' /\ buffer' \in Seq(Events)
<1>. DEFINE n == IF Len(s) < BatchSize THEN Len(s) ELSE BatchSize
<1>1. Len(s) \in Nat /\ Len(s) > 0
  BY EmptySeq
<1>2. n \in 1..Len(s)
  BY <1>1, GraphAssumption
<1>. HIDE DEF n
<1>3. SubSeq(s, 1, n) \in Seq(Events) /\ Len(SubSeq(s, 1, n)) = n
  BY <1>1, <1>2, SubSeqProperties, ElementOfSeq
<1>4. SubSeq(s, n + 1, Len(s)) \in Seq(Events)
  BY <1>1, <1>2, SubSeqProperties, ElementOfSeq
<1>5. SubSeq(s, 1, n) # <<>>
  BY <1>2, <1>3, EmptySeq
<1>6. /\ flight' = [flight EXCEPT ![b] = [Idle EXCEPT !.events = SubSeq(s, 1, n), !.pc = "check",
                                             !.awaited = w]]
      /\ buffer' = SubSeq(s, n + 1, Len(s))
  BY DEF Take, n
<1>7. Idle \in Batches /\ Idle.pc = "idle"
  BY EmptySeq DEF Idle, Batches
<1>. DEFINE taken == [Idle EXCEPT !.events = SubSeq(s, 1, n), !.pc = "check", !.awaited = w]
<1>8. taken \in Batches /\ taken.pc = "check" /\ taken.events = SubSeq(s, 1, n)
  BY <1>3, <1>7 DEF Idle, Batches
<1>. HIDE DEF taken
<1>9. flight' = [flight EXCEPT ![b] = taken]
  BY <1>6 DEF taken
<1>. QED BY <1>4, <1>5, <1>6, <1>8, <1>9 DEF TypeOK, FlightTypes

(* A flight that moves on with the batch it has. *)
LEMMA GotoTypes ==
    ASSUME TypeOK, NEW b \in Flights, flight[b].pc # "idle",
           NEW x \in Batches, x.events = flight[b].events, x.pc # "idle",
           flight' = [flight EXCEPT ![b] = x]
    PROVE  FlightTypes'
BY DEF TypeOK, FlightTypes

LEMMA TouchTypes ==
    ASSUME TypeOK, NEW e \in Entities, NEW t \in Nat
    PROVE  Touch(e, t) \in [Entities -> Nodes \cup {NULL}]
<1>1. CASE node[e] = NULL
  BY <1>1 DEF TypeOK, GraphTypes, Touch
<1>2. CASE node[e] # NULL
  <2>. DEFINE s == IF node[e].synced < t THEN t ELSE node[e].synced
              seenNode == [[node[e] EXCEPT !.absent = FALSE] EXCEPT !.synced = s]
  <2>1. node[e] \in Nodes
    BY <1>2 DEF TypeOK, GraphTypes
  <2>2. seenNode \in Nodes
    BY <2>1 DEF Nodes
  <2>3. Touch(e, t) = [node EXCEPT ![e] = seenNode]
    BY <1>2, <2>1 DEF Touch, TypeOK, GraphTypes, Nodes
  <2>. HIDE DEF seenNode
  <2>. QED BY <2>2, <2>3 DEF TypeOK, GraphTypes
<1>. QED BY <1>1, <1>2

LEMMA ConfirmTypes ==
    ASSUME TypeOK, NEW ev \in NodeEvents, ConfirmSeen(ev)
    PROVE  node' \in [Entities -> Nodes \cup {NULL}]
BY TouchTypes DEF ConfirmSeen, NodeEvents, TypeOK, GraphTypes

LEMMA ForgetTypes ==
    ASSUME TypeOK, NEW ev \in NodeEvents, Forget(ev)
    PROVE  expected' \in [Entities -> NodeEvents \cup {NULL}]
BY DEF Forget, NodeEvents, TypeOK, GraphTypes

LEMMA MergedTypes ==
    ASSUME TypeOK, NEW b \in Flights, At(b, "write")
    PROVE  Merged(b) \in Nodes
<1>1. Event(b) \in NodeEvents
  BY BatchTypes DEF At
<1>2. flight[b].claims \in Manual \cup {NULL}
  BY DEF TypeOK, FlightTypes, Batches
<1>3. ~Stale(Event(b)) => Rev(Event(b).entity) \in Nat
  BY <1>1 DEF TypeOK, GraphTypes, Rev, Nodes, NodeEvents
<1>4. Stale(Event(b)) \/ ClaimsConflict(b) => node[Event(b).entity] \in Nodes
  BY <1>1 DEF TypeOK, GraphTypes, Stale, ClaimsConflict, NodeEvents
<1>. QED BY <1>1, <1>2, <1>3, <1>4 DEF Merged, Nodes, NodeEvents
LEMMA TypeInit == Init => TypeOK
<1>. SUFFICES ASSUME Init PROVE TypeOK
  OBVIOUS
<1>1. SourceTypes
  BY DEF Init, SourceTypes
<1>2. SyncTypes
  BY DEF Init, SyncTypes, Fetchers
<1>5. BusTypes
  BY EmptySeq DEF Init, BusTypes
<1>6. GraphTypes
  BY DEF Init, GraphTypes
<1>3. Idle \in Batches /\ Idle.pc = "idle"
  BY EmptySeq DEF Idle, Batches
<1>4. FlightTypes
  BY <1>3 DEF Init, FlightTypes
<1>. QED BY <1>1, <1>2, <1>4, <1>5, <1>6 DEF TypeOK

LEMMA SourceTypesKept == TypeOK /\ UNCHANGED sourceVars => SourceTypes'
BY DEF TypeOK, SourceTypes, sourceVars

LEMMA SyncTypesKept == TypeOK /\ UNCHANGED syncVars => SyncTypes'
BY DEF TypeOK, SyncTypes, syncVars

LEMMA SourceSteps ==
    ASSUME TypeOK, Source
    PROVE  TypeOK'
<1>1. SourceTypes'
  <2>1. ASSUME NEW e \in Entities, SourceDeletes(e) PROVE SourceTypes'
    BY <2>1 DEF SourceDeletes, TypeOK, SourceTypes
  <2>2. ASSUME NEW e \in Entities, NEW c \in Contents, SourceChanges(e, c) PROVE SourceTypes'
    <3>1. [content |-> c, version |-> now + 1] \in [content : Contents, version : Nat]
      BY DEF TypeOK, SourceTypes
    <3>2. seen' \in [Entities -> SUBSET Contents]
      BY <2>2 DEF SourceChanges, TypeOK, SourceTypes
    <3>. QED BY <2>2, <3>1, <3>2 DEF SourceChanges, TypeOK, SourceTypes
  <2>. QED BY <2>1, <2>2 DEF Source
<1>2. UNCHANGED <<syncVars, busVars, flight, node, attested, expected>>
  BY DEF Source, SourceDeletes, SourceChanges, histVars
<1>. QED BY <1>1, <1>2 DEF TypeOK, SyncTypes, BusTypes, FlightTypes, GraphTypes, syncVars, busVars

LEMMA SyncSteps ==
    ASSUME TypeOK, Sync
    PROVE  TypeOK'
<1>1. CASE StartRun
  <2>1. [startedAt |-> now + 1, todo |-> Entities, ok |-> TRUE] \in Runs
    BY DEF Runs, TypeOK, SourceTypes
  <2>2. run' \in Runs /\ run' # NULL
    BY <1>1, <2>1, GraphAssumption DEF StartRun
  <2>. QED BY <1>1, <2>2 DEF StartRun, TypeOK, SourceTypes, SyncTypes, BusTypes, FlightTypes,
              GraphTypes, busVars, histVars
<1>2. CASE EndRun
  <2>1. run.startedAt \in Nat
    BY <1>2 DEF EndRun, TypeOK, SyncTypes, Runs
  <2>2. [kind |-> "sync", startedAt |-> run.startedAt] \in Events
    BY <2>1 DEF Events
  <2>3. queue' \in Seq(Events)
    BY <1>2, <2>2, EnqueueTypes DEF EndRun, SyncCompleted, TypeOK, BusTypes
  <2>. QED BY <1>2, <2>3 DEF EndRun, TypeOK, SourceTypes, SyncTypes, BusTypes, FlightTypes,
              GraphTypes, sourceVars
<1>3. ASSUME NEW e \in Entities, RunFetches(e) PROVE TypeOK'
  <2>1. run \in Runs
    BY <1>3 DEF RunFetches, TypeOK, SyncTypes
  <2>2. [run EXCEPT !.todo = @ \ {e}] \in Runs /\ [run EXCEPT !.todo = @ \ {e}, !.ok = FALSE] \in Runs
    BY <2>1 DEF Runs
  <2>3. truth[e] # NULL => Fetched(e) \in NodeEvents
    BY DEF Fetched, NodeEvents, TypeOK, SourceTypes
  <2>4. run' \in Runs /\ run' # NULL
    BY <1>3, <2>2, GraphAssumption DEF RunFetches
  <2>5. fetched' \in [Fetchers -> NodeEvents \cup {NULL}]
    BY <1>3, <2>3 DEF RunFetches, TypeOK, SyncTypes
  <2>. QED BY <1>3, <2>4, <2>5 DEF RunFetches, TypeOK, SourceTypes, SyncTypes, BusTypes,
              FlightTypes, GraphTypes, sourceVars, busVars
<1>4. ASSUME NEW e \in Entities, RefetchFetches(e) PROVE TypeOK'
  <2>1. Fetched(e) \in NodeEvents
    BY <1>4 DEF RefetchFetches, Fetched, NodeEvents, TypeOK, SourceTypes
  <2>2. SyncTypes'
    BY <1>4, <2>1 DEF RefetchFetches, TypeOK, SyncTypes, Fetchers
  <2>. QED BY <1>4, <2>2 DEF RefetchFetches, TypeOK, SourceTypes, BusTypes,
              FlightTypes, GraphTypes, sourceVars, busVars, histVars
<1>5. ASSUME NEW f \in Fetchers, Publish(f) PROVE TypeOK'
  <2>1. fetched[f] \in NodeEvents
    BY <1>5 DEF Publish, TypeOK, SyncTypes
  <2>2. queue' \in Seq(Events)
    BY <1>5, <2>1, EnqueueTypes DEF Publish, TypeOK, BusTypes, Events
  <2>3. expected' \in [Entities -> NodeEvents \cup {NULL}]
    BY <1>5, <2>1 DEF Publish, TypeOK, GraphTypes
  <2>4. run # NULL => [run EXCEPT !.ok = FALSE] \in Runs
    BY DEF Runs, TypeOK, SyncTypes
  <2>5. f = "run" => run # NULL
    BY <1>5 DEF Publish, TypeOK, SyncTypes
  <2>6. SyncTypes'
    <3>1. run' \in Runs \cup {NULL} /\ (run # NULL => run' # NULL)
      BY <1>5, <2>4, <2>5, GraphAssumption DEF Publish, TypeOK, SyncTypes
    <3>2. fetched' \in [Fetchers -> NodeEvents \cup {NULL}]
      BY <1>5 DEF Publish, TypeOK, SyncTypes
    <3>3. fetched'["run"] # NULL => fetched["run"] # NULL
      BY <1>5 DEF Publish, TypeOK, SyncTypes, Fetchers
    <3>. QED BY <3>1, <3>2, <3>3 DEF TypeOK, SyncTypes
  <2>. QED BY <1>5, <2>2, <2>3, <2>6 DEF Publish, TypeOK, SourceTypes, BusTypes,
              FlightTypes, GraphTypes, sourceVars
<1>. QED BY <1>1, <1>2, <1>3, <1>4, <1>5 DEF Sync

LEMMA BusSteps ==
    ASSUME TypeOK, Consume \/ TimerFlush
    PROVE  TypeOK'
<1>1. CASE Consume
  <2>. DEFINE full == Append(buffer, Head(queue))
  <2>1. queue \in Seq(Events) /\ queue # <<>> /\ buffer \in Seq(Events)
    BY <1>1 DEF Consume, TypeOK, BusTypes
  <2>2. Head(queue) \in Events /\ queue' \in Seq(Events)
    BY <1>1, <2>1, HeadTail DEF Consume
  <2>3. full \in Seq(Events) /\ full # <<>>
    BY <2>1, <2>2, AppendProperties, EmptySeq
  <2>4. JobId(Head(queue)) \in Ids
    BY <2>2 DEF JobId, Ids, Events, NodeEvents
  <2>5. active' \in Ids \cup {NULL}
    BY <1>1, <2>4 DEF Consume, TypeOK, BusTypes
  <2>6. FlightTypes' /\ buffer' \in Seq(Events)
    <3>1. CASE Len(full) < BatchSize
      BY <1>1, <2>3, <3>1 DEF Consume, TypeOK, FlightTypes
    <3>2. CASE ~(Len(full) < BatchSize)
      <4>1. \E b \in Flights : Take(full, b, TRUE)
        BY <1>1, <3>2 DEF Consume
      <4>. QED BY <2>3, <4>1, TakeTypes
    <3>. QED BY <3>1, <3>2
  <2>. QED BY <1>1, <2>2, <2>5, <2>6 DEF Consume, TypeOK, SourceTypes, SyncTypes, BusTypes,
              GraphTypes, sourceVars, syncVars, histVars
<1>2. CASE TimerFlush
  <2>1. buffer \in Seq(Events) /\ buffer # <<>>
    BY <1>2 DEF TimerFlush, TypeOK, BusTypes
  <2>2. FlightTypes' /\ buffer' \in Seq(Events)
    BY <1>2, <2>1, TakeTypes DEF TimerFlush
  <2>. QED BY <1>2, <2>2 DEF TimerFlush, TypeOK, SourceTypes, SyncTypes, BusTypes,
              GraphTypes, sourceVars, syncVars, histVars
<1>. QED BY <1>1, <1>2

(* Every step of a flight is a step of its batch or its end. *)
LEMMA ProcessFlight ==
    ASSUME TypeOK, NEW b \in Flights, Process(b)
    PROVE  FlightTypes' /\ active' \in Ids \cup {NULL}
<1>1. flight[b].pc # "idle" /\ flight[b].failed \in BOOLEAN
  <2>1. flight[b].pc # "idle"
    BY DEF Process, SkipDuplicate, CheckNew, ReadClaims, WriteNode, Record, WriteFails, Sweep, At
  <2>. QED BY <2>1 DEF TypeOK, FlightTypes, Batches
<1>2. ASSUME Advance(b, flight[b].failed) \/ Advance(b, TRUE)
      PROVE  FlightTypes' /\ active' \in Ids \cup {NULL}
  BY <1>1, <1>2, AdvanceTypes
<1>3. ASSUME NEW x \in Batches, x.events = flight[b].events, x.pc # "idle",
             flight' = [flight EXCEPT ![b] = x], UNCHANGED active
      PROVE  FlightTypes' /\ active' \in Ids \cup {NULL}
  BY <1>1, <1>3, GotoTypes DEF TypeOK, BusTypes
<1>4. flight[b] \in Batches
  BY DEF TypeOK, FlightTypes
<1>5. CASE CheckNew(b)
  <2>1. [flight[b] EXCEPT !.pc = "read"] \in Batches
    BY <1>4 DEF Batches
  <2>2. [flight[b] EXCEPT !.pc = "read"].events = flight[b].events
        /\ [flight[b] EXCEPT !.pc = "read"].pc # "idle"
    BY <1>4 DEF Batches
  <2>3. flight' = [flight EXCEPT ![b] = [flight[b] EXCEPT !.pc = "read"]] /\ UNCHANGED active
    BY <1>5 DEF CheckNew, Goto
  <2>. QED BY <2>1, <2>2, <2>3, <1>3
<1>6. CASE ReadClaims(b)
  <2>. DEFINE e == Event(b).entity
              m == IF node[e] = NULL THEN NULL ELSE node[e].manual
              x == [flight[b] EXCEPT !.pc = "write", !.rev = Rev(e), !.claims = m]
  <2>1. e \in Entities
    BY <1>6, <1>1, BatchTypes DEF ReadClaims, At, NodeEvents
  <2>2. Rev(e) \in Nat /\ m \in Manual \cup {NULL}
    BY <2>1 DEF Rev, TypeOK, GraphTypes, Nodes
  <2>. HIDE DEF m
  <2>3. x \in Batches /\ x.events = flight[b].events /\ x.pc # "idle"
    BY <1>4, <2>2 DEF Batches
  <2>4. flight' = [flight EXCEPT ![b] = x] /\ UNCHANGED active
    BY <1>6, <1>4 DEF ReadClaims, busVars, Batches, m
  <2>. HIDE DEF x
  <2>. QED BY <2>3, <2>4, <1>3
<1>7. CASE WriteNode(b)
  <2>. DEFINE done == [flight[b] EXCEPT !.pc = "record", !.written = ~Stale(Event(b))]
              again == [flight[b] EXCEPT !.pc = "read", !.attempt = @ + 1]
  <2>1. done \in Batches /\ done.events = flight[b].events /\ done.pc # "idle"
    <3>1. \A w \in BOOLEAN :
             /\ [flight[b] EXCEPT !.pc = "record", !.written = w] \in Batches
             /\ [flight[b] EXCEPT !.pc = "record", !.written = w].events = flight[b].events
             /\ [flight[b] EXCEPT !.pc = "record", !.written = w].pc # "idle"
      BY <1>4 DEF Batches
    <3>2. CASE Stale(Event(b))
      <4>1. done = [flight[b] EXCEPT !.pc = "record", !.written = FALSE]
        BY <3>2
      <4>. HIDE DEF done
      <4>. QED BY <3>1, <4>1
    <3>3. CASE ~Stale(Event(b))
      <4>1. done = [flight[b] EXCEPT !.pc = "record", !.written = TRUE]
        BY <3>3
      <4>. HIDE DEF done
      <4>. QED BY <3>1, <4>1
    <3>. HIDE DEF done
    <3>. QED BY <3>2, <3>3
  <2>2. again \in Batches /\ again.events = flight[b].events /\ again.pc # "idle"
    <3>1. flight[b].attempt + 1 \in Nat
      BY <1>4 DEF Batches
    <3>. QED BY <1>4, <3>1 DEF Batches
  <2>3. \/ flight' = [flight EXCEPT ![b] = done] /\ UNCHANGED active
        \/ flight' = [flight EXCEPT ![b] = again] /\ UNCHANGED active
        \/ Advance(b, flight[b].failed)
    BY <1>7 DEF WriteNode
  <2>. HIDE DEF done, again
  <2>. QED BY <2>1, <2>2, <2>3, <1>2, <1>3
<1>. QED BY <1>2, <1>5, <1>6, <1>7 DEF Process, SkipDuplicate, Record, WriteFails, Sweep

LEMMA ProcessGraph ==
    ASSUME TypeOK, NEW b \in Flights, Process(b)
    PROVE  GraphTypes'
<1>. USE DEF TypeOK, GraphTypes
<1>1. ASSUME flight[b].pc # "idle", Event(b).kind = "node" PROVE Event(b) \in NodeEvents
  BY <1>1, BatchTypes
<1>2. CASE SkipDuplicate(b) \/ Record(b)
  <2>1. Event(b) \in NodeEvents
    BY <1>1, <1>2 DEF SkipDuplicate, Record, At
  <2>2. node' \in [Entities -> Nodes \cup {NULL}]
    BY <1>2, <2>1, ConfirmTypes DEF SkipDuplicate, Record
  <2>. QED BY <1>2, <2>2 DEF SkipDuplicate, Record
<1>3. CASE CheckNew(b) \/ ReadClaims(b)
  BY <1>3 DEF CheckNew, ReadClaims, histVars
<1>4. CASE WriteNode(b)
  <2>1. Event(b) \in NodeEvents
    BY <1>1, <1>4 DEF WriteNode, At
  <2>2. Merged(b) \in Nodes
    BY <1>4, MergedTypes DEF WriteNode
  <2>3. expected' \in [Entities -> NodeEvents \cup {NULL}]
    BY <1>4, <2>1, ForgetTypes DEF WriteNode
  <2>. QED BY <1>4, <2>2, <2>3 DEF WriteNode
<1>5. CASE WriteFails(b)
  BY <1>1, <1>5, ForgetTypes DEF WriteFails
<1>6. CASE Sweep(b)
  <2>1. ASSUME NEW e \in Entities, node[e] # NULL
        PROVE  [node[e] EXCEPT !.absent = TRUE] \in Nodes
    BY <2>1 DEF Nodes
  <2>2. node' \in [Entities -> Nodes \cup {NULL}]
    BY <1>6, <2>1 DEF Sweep, Unseen
  <2>. QED BY <1>6, <2>2 DEF Sweep, histVars
<1>. QED BY <1>2, <1>3, <1>4, <1>5, <1>6 DEF Process

LEMMA ProcessSteps ==
    ASSUME TypeOK, NEW b \in Flights, Process(b)
    PROVE  TypeOK'
<1>1. FlightTypes' /\ active' \in Ids \cup {NULL} /\ GraphTypes'
  BY ProcessFlight, ProcessGraph
<1>2. UNCHANGED <<sourceVars, syncVars, queue, buffer>>
  BY DEF Process, SkipDuplicate, CheckNew, ReadClaims, WriteNode, Record, WriteFails, Sweep, busVars
<1>3. SourceTypes' /\ SyncTypes'
  BY <1>2, SourceTypesKept, SyncTypesKept
<1>4. BusTypes'
  BY <1>1, <1>2 DEF TypeOK, BusTypes
<1>. QED BY <1>1, <1>3, <1>4 DEF TypeOK

LEMMA CrashTypes ==
    ASSUME TypeOK, Crash
    PROVE  TypeOK'
<1>. DEFINE held == {b \in Flights : flight[b].awaited}
            back == IF held = {} THEN <<>>
                    ELSE LET b == CHOOSE x \in held : TRUE IN <<Last(flight[b].events)>>
<1>1. back \in Seq(Events)
  <2>1. ASSUME held # {} PROVE Last(flight[CHOOSE x \in held : TRUE].events) \in Events
    <3>. DEFINE h == CHOOSE x \in held : TRUE
    <3>1. h \in Flights /\ flight[h].awaited
      BY <2>1
    <3>2. flight[h].pc # "idle"
      BY <3>1 DEF TypeOK, FlightTypes, Idle
    <3>. QED BY <3>1, <3>2, BatchTypes, HeadTail
  <2>2. ASSUME NEW x \in Events PROVE <<x>> \in Seq(Events)
    OBVIOUS
  <2>. HIDE DEF held
  <2>. QED BY <2>1, <2>2, EmptySeq
<1>2. queue' = back \o queue
  BY DEF Crash
<1>. HIDE DEF back
<1>3. queue' \in Seq(Events)
  BY <1>1, <1>2, ConcatProperties DEF TypeOK, BusTypes
<1>4. BusTypes'
  BY <1>3, EmptySeq DEF BusTypes, Crash
<1>5. FlightTypes'
  <2>1. Idle \in Batches /\ Idle.pc = "idle"
    BY EmptySeq DEF Idle, Batches
  <2>. QED BY <2>1 DEF FlightTypes, Crash
<1>6. GraphTypes'
  BY DEF Crash, TypeOK, GraphTypes
<1>7. SourceTypes' /\ SyncTypes'
  BY SourceTypesKept, SyncTypesKept DEF Crash
<1>. QED BY <1>4, <1>5, <1>6, <1>7 DEF TypeOK

LEMMA OtherTypes ==
    ASSUME TypeOK, Edit \/ ExpireKey \/ UNCHANGED vars
    PROVE  TypeOK'
<1>1. ASSUME NEW e \in Entities, NEW v \in Manual \cup {NULL}, EditManualClaim(e, v)
      PROVE  TypeOK'
  <2>1. node[e] \in Nodes
    BY <1>1 DEF EditManualClaim, TypeOK, GraphTypes
  <2>2. [node[e] EXCEPT !.manual = v, !.rev = @ + 1] \in Nodes
    <3>1. node[e].rev + 1 \in Nat
      BY <2>1 DEF Nodes
    <3>. QED BY <2>1, <3>1 DEF Nodes
  <2>3. GraphTypes'
    BY <1>1, <2>2 DEF EditManualClaim, TypeOK, GraphTypes
  <2>4. SourceTypes' /\ SyncTypes'
    BY <1>1, SourceTypesKept, SyncTypesKept DEF EditManualClaim
  <2>. QED BY <1>1, <2>3, <2>4 DEF EditManualClaim, TypeOK, BusTypes, FlightTypes, busVars
<1>2. ASSUME ExpireKey \/ UNCHANGED vars PROVE TypeOK'
  <2>1. UNCHANGED <<sourceVars, syncVars, busVars, flight, node, attested, expected>>
    BY <1>2 DEF ExpireKey, vars, histVars
  <2>2. SourceTypes' /\ SyncTypes'
    BY <2>1, SourceTypesKept, SyncTypesKept
  <2>. QED BY <2>1, <2>2 DEF TypeOK, BusTypes, FlightTypes, GraphTypes, busVars
<1>. QED BY <1>1, <1>2 DEF Edit

LEMMA TypeStep == TypeOK /\ [Next]_vars => TypeOK'
BY SourceSteps, SyncSteps, BusSteps, ProcessSteps, CrashTypes, OtherTypes DEF Next
-----------------------------------------------------------------------------
(* Manual claims.  What most steps do to them: nothing; and most flights that *)
(* hold claims keep what they hold.                                           *)
ClaimsKept(e) ==
    IF node[e] = NULL THEN node'[e] = NULL
    ELSE /\ node'[e] # NULL
         /\ node'[e].manual = node[e].manual /\ node'[e].rev = node[e].rev

FlightKept(b) ==
    flight'[b].pc = "write" =>
        /\ flight[b].pc = "write" /\ flight'[b].events = flight[b].events
        /\ flight'[b].claims = flight[b].claims /\ flight'[b].rev = flight[b].rev

LEMMA ClaimsRest ==
    ASSUME TypeOK, ClaimInv, UNCHANGED attested, \A e \in Entities : ClaimsKept(e),
           \A b \in Flights : FlightKept(b)
    PROVE  ClaimInv'
<1>1. \A e \in Entities : Rev(e)' = Rev(e)
  BY DEF Rev, ClaimsKept
<1>2. ManualClaimStands'
  BY DEF ClaimInv, ManualClaimStands, ClaimsKept
<1>3. \A e \in Entities : IF node'[e] = NULL THEN attested'[e] = NULL ELSE node'[e].rev > 0
  BY DEF ClaimInv, ClaimsKept
<1>4. ASSUME NEW b \in Flights, At(b, "write")' PROVE ReadIsOld(b)'
  <2>1. At(b, "write") /\ Event(b)' = Event(b)
        /\ flight'[b].claims = flight[b].claims /\ flight'[b].rev = flight[b].rev
    BY <1>4 DEF FlightKept, At, Event
  <2>2. Event(b).entity \in Entities
    BY <2>1, BatchTypes DEF At, NodeEvents
  <2>. QED BY <1>1, <2>1, <2>2 DEF ClaimInv, ReadIsOld, ClaimsKept
<1>. QED BY <1>2, <1>3, <1>4 DEF ClaimInv

LEMMA NodeSame ==
    ASSUME TypeOK, UNCHANGED node
    PROVE  \A e \in Entities : ClaimsKept(e)
BY DEF ClaimsKept

LEMMA ConfirmKeeps ==
    ASSUME TypeOK, NEW ev \in NodeEvents, ConfirmSeen(ev)
    PROVE  \A e \in Entities : ClaimsKept(e)
<1>1. CASE UNCHANGED node
  BY <1>1, NodeSame
<1>2. CASE node' = Touch(ev.entity, ev.synced)
  <2>. TAKE e \in Entities
  <2>1. CASE node[ev.entity] = NULL \/ e # ev.entity
    BY <1>2, <2>1 DEF Touch, ClaimsKept, TypeOK, GraphTypes
  <2>2. CASE node[ev.entity] # NULL /\ e = ev.entity
    <3>. DEFINE n == node[e]
                s == IF n.synced < ev.synced THEN ev.synced ELSE n.synced
    <3>1. n \in Nodes /\ ev.synced \in Nat
      BY <2>2 DEF TypeOK, GraphTypes, NodeEvents
    <3>2. node'[e] = [n EXCEPT !.absent = FALSE, !.synced = s]
      BY <1>2, <2>2, <3>1 DEF Touch, TypeOK, GraphTypes, Nodes
    <3>3. [n EXCEPT !.absent = FALSE, !.synced = s] \in Nodes
          /\ [n EXCEPT !.absent = FALSE, !.synced = s].manual = n.manual
          /\ [n EXCEPT !.absent = FALSE, !.synced = s].rev = n.rev
      BY <3>1 DEF Nodes
    <3>. QED BY <2>2, <3>2, <3>3, GraphAssumption DEF ClaimsKept
  <2>. QED BY <2>1, <2>2
<1>. QED BY <1>1, <1>2 DEF ConfirmSeen

LEMMA AdvanceKeeps ==
    ASSUME TypeOK, NEW b \in Flights, NEW f, Advance(b, f)
    PROVE  \A x \in Flights : FlightKept(x)
<1>. TAKE x \in Flights
<1>1. CASE x = b
  <2>. DEFINE rest == [Idle EXCEPT !.events = Tail(flight[b].events), !.pc = "check",
                           !.awaited = flight[b].awaited, !.failed = f]
  <2>1. Idle.pc = "idle" /\ rest.pc = "check"
    BY DEF Idle
  <2>. HIDE DEF rest
  <2>2. flight'[b] = IF Len(flight[b].events) = 1 THEN Idle ELSE rest
    BY DEF Advance, rest, TypeOK, FlightTypes
  <2>. QED BY <1>1, <2>1, <2>2 DEF FlightKept
<1>2. CASE x # b
  BY <1>2 DEF Advance, FlightKept, TypeOK, FlightTypes
<1>. QED BY <1>1, <1>2

LEMMA TakeKeeps ==
    ASSUME TypeOK, NEW s, NEW b \in Flights, NEW w, Take(s, b, w)
    PROVE  \A x \in Flights : FlightKept(x)
<1>. DEFINE n == IF Len(s) < BatchSize THEN Len(s) ELSE BatchSize
            taken == [Idle EXCEPT !.events = SubSeq(s, 1, n), !.pc = "check", !.awaited = w]
<1>1. taken.pc = "check"
  BY DEF Idle
<1>2. flight' = [flight EXCEPT ![b] = taken]
  BY DEF Take
<1>. HIDE DEF taken
<1>. QED BY <1>1, <1>2 DEF FlightKept, TypeOK, FlightTypes

LEMMA FlightSame ==
    ASSUME TypeOK, UNCHANGED flight
    PROVE  \A x \in Flights : FlightKept(x)
BY DEF FlightKept

LEMMA ReadKeepsClaims ==
    ASSUME TypeOK, ClaimInv, NEW b \in Flights, ReadClaims(b)
    PROVE  ClaimInv'
<1>. DEFINE e == Event(b).entity
            m == IF node[e] = NULL THEN NULL ELSE node[e].manual
            x == [flight[b] EXCEPT !.pc = "write", !.rev = Rev(e), !.claims = m]
<1>1. flight[b] \in Batches /\ flight[b].pc # "idle" /\ Event(b).kind = "node"
  BY DEF TypeOK, FlightTypes, ReadClaims, At
<1>2. e \in Entities
  BY <1>1, BatchTypes DEF NodeEvents
<1>3. Rev(e) \in Nat
  BY <1>2 DEF Rev, TypeOK, GraphTypes, Nodes
<1>4. UNCHANGED <<node, attested>>
  BY DEF ReadClaims, histVars
<1>5. ManualClaimStands'
      /\ \A a \in Entities : IF node'[a] = NULL THEN attested'[a] = NULL ELSE node'[a].rev > 0
  BY <1>4 DEF ClaimInv, ManualClaimStands
<1>6. flight' = [flight EXCEPT ![b] = x]
  BY <1>1 DEF ReadClaims, Batches
<1>7. x.events = flight[b].events /\ x.rev = Rev(e) /\ x.claims = m
  BY <1>1 DEF Batches
<1>. HIDE DEF x
<1>8. ASSUME NEW a \in Flights, At(a, "write")' PROVE ReadIsOld(a)'
  <2>1. CASE a = b
    <3>1. Event(a)' = Event(b) /\ flight'[a].rev = Rev(e) /\ flight'[a].claims = m
      BY <1>6, <1>7, <2>1 DEF Event, TypeOK, FlightTypes
    <3>. QED BY <1>3, <1>4, <3>1 DEF ReadIsOld, Rev
  <2>2. CASE a # b
    <3>1. flight'[a] = flight[a]
      BY <1>6, <2>2 DEF TypeOK, FlightTypes
    <3>. QED BY <1>4, <1>8, <3>1 DEF ClaimInv, ReadIsOld, At, Event, Rev
  <2>. QED BY <2>1, <2>2
<1>. QED BY <1>5, <1>8 DEF ClaimInv

LEMMA WriteKeepsFlights ==
    ASSUME TypeOK, NEW b \in Flights, WriteNode(b)
    PROVE  \A x \in Flights : FlightKept(x)
<1>1. CASE Advance(b, flight[b].failed)
  BY <1>1, AdvanceKeeps
<1>2. ASSUME NEW pc, pc # "write", \A a \in Flights : a # b => flight'[a] = flight[a],
             flight'[b].pc = pc
      PROVE  \A x \in Flights : FlightKept(x)
  BY <1>2 DEF FlightKept
<1>3. CASE flight' = [flight EXCEPT ![b].pc = "record", ![b].written = ~Stale(Event(b))]
  <2>. DEFINE done == [flight[b] EXCEPT !.pc = "record", !.written = ~Stale(Event(b))]
  <2>1. done.pc = "record"
    BY DEF TypeOK, FlightTypes, Batches
  <2>2. flight' = [flight EXCEPT ![b] = done]
    BY <1>3
  <2>. HIDE DEF done
  <2>3. flight'[b].pc = "record" /\ \A a \in Flights : a # b => flight'[a] = flight[a]
    BY <2>1, <2>2 DEF TypeOK, FlightTypes
  <2>. QED BY <2>3, <1>2
<1>4. CASE flight' = [flight EXCEPT ![b].pc = "read", ![b].attempt = @ + 1]
  <2>1. flight'[b].pc = "read" /\ \A a \in Flights : a # b => flight'[a] = flight[a]
    BY <1>4 DEF TypeOK, FlightTypes, Batches
  <2>. QED BY <2>1, <1>2
<1>. QED BY <1>1, <1>3, <1>4 DEF WriteNode

LEMMA WriteKeepsClaims ==
    ASSUME TypeOK, ClaimInv, NEW b \in Flights, WriteNode(b)
    PROVE  ClaimInv'
<1>. DEFINE e == Event(b).entity
<1>1. e \in Entities /\ At(b, "write")
  BY BatchTypes DEF WriteNode, At, NodeEvents
<1>2. Merged(b) \in Nodes /\ Merged(b) # NULL
  BY <1>1, MergedTypes, GraphAssumption
<1>3. node' = [node EXCEPT ![e] = Merged(b)] /\ UNCHANGED attested
  BY DEF WriteNode
<1>4. \A x \in Flights : FlightKept(x)
  BY WriteKeepsFlights
<1>5. ReadIsOld(b)
  BY <1>1 DEF ClaimInv
<1>6. CASE Stale(Event(b)) \/ ClaimsConflict(b)
  <2>1. node[e] # NULL /\ Merged(b).manual = node[e].manual /\ Merged(b).rev = node[e].rev
    BY <1>6 DEF Merged, Stale, ClaimsConflict
  <2>2. \A a \in Entities : ClaimsKept(a)
    BY <1>1, <1>2, <1>3, <2>1 DEF ClaimsKept, TypeOK, GraphTypes
  <2>. QED BY <1>3, <1>4, <2>2, ClaimsRest
<1>7. CASE ~Stale(Event(b)) /\ ~ClaimsConflict(b)
  <2>1. Merged(b).manual = flight[b].claims /\ Merged(b).rev = Rev(e) + 1
    BY <1>7 DEF Merged
  <2>2. flight[b].claims = attested[e]
    <3>1. CASE node[e] = NULL
      BY <1>1, <1>5, <3>1 DEF ReadIsOld, ClaimInv
    <3>2. CASE node[e] # NULL
      BY <1>1, <1>5, <1>7, <3>2 DEF ReadIsOld, ClaimInv, ManualClaimStands, ClaimsConflict
    <3>. QED BY <3>1, <3>2
  <2>3. Rev(e) \in Nat
    BY <1>1 DEF Rev, TypeOK, GraphTypes, Nodes
  <2>4. node'[e] = Merged(b) /\ \A a \in Entities : a # e => node'[a] = node[a]
    BY <1>1, <1>3 DEF TypeOK, GraphTypes
  <2>5. ManualClaimStands'
    BY <1>3, <2>1, <2>2, <2>4 DEF ClaimInv, ManualClaimStands
  <2>6. \A a \in Entities : IF node'[a] = NULL THEN attested'[a] = NULL ELSE node'[a].rev > 0
    BY <1>2, <1>3, <2>1, <2>3, <2>4 DEF ClaimInv
  <2>7. ASSUME NEW a \in Flights, At(a, "write")' PROVE ReadIsOld(a)'
    <3>1. At(a, "write") /\ Event(a)' = Event(a)
          /\ flight'[a].claims = flight[a].claims /\ flight'[a].rev = flight[a].rev
      BY <1>4, <2>7 DEF FlightKept, At, Event
    <3>2. Event(a).entity \in Entities /\ flight[a].rev \in Nat
      BY <3>1, BatchTypes DEF At, NodeEvents, TypeOK, FlightTypes, Batches
    <3>3. ReadIsOld(a)
      BY <3>1 DEF ClaimInv
    <3>4. CASE Event(a).entity = e
      BY <1>2, <2>1, <2>3, <2>4, <3>1, <3>2, <3>3, <3>4 DEF ReadIsOld, Rev
    <3>5. CASE Event(a).entity # e
      BY <2>4, <3>1, <3>2, <3>3, <3>5 DEF ReadIsOld, Rev
    <3>. QED BY <3>4, <3>5
  <2>. QED BY <2>5, <2>6, <2>7 DEF ClaimInv
<1>. QED BY <1>6, <1>7

LEMMA EditKeepsClaims ==
    ASSUME TypeOK, ClaimInv, NEW e \in Entities, NEW v \in Manual \cup {NULL},
           EditManualClaim(e, v)
    PROVE  ClaimInv'
<1>. DEFINE n == [node[e] EXCEPT !.manual = v, !.rev = @ + 1]
<1>1. node[e] \in Nodes /\ node[e] # NULL
  BY DEF EditManualClaim, TypeOK, GraphTypes
<1>2. node[e].rev \in Nat
  BY <1>1 DEF Nodes
<1>3. n \in Nodes /\ n.manual = v /\ n.rev = node[e].rev + 1
  <2>1. node[e].rev + 1 \in Nat
    BY <1>2
  <2>. QED BY <1>1, <2>1 DEF Nodes
<1>4. node' = [node EXCEPT ![e] = n] /\ attested' = [attested EXCEPT ![e] = v] /\ UNCHANGED flight
  BY <1>1 DEF EditManualClaim, TypeOK, GraphTypes, Nodes
<1>. HIDE DEF n
<1>5. n # NULL
  BY <1>3, GraphAssumption
<1>6. /\ node'[e] = n /\ attested'[e] = v
      /\ \A a \in Entities : a # e => node'[a] = node[a] /\ attested'[a] = attested[a]
  BY <1>4 DEF TypeOK, GraphTypes
<1>7. ManualClaimStands'
  BY <1>3, <1>6 DEF ClaimInv, ManualClaimStands
<1>8. \A a \in Entities : IF node'[a] = NULL THEN attested'[a] = NULL ELSE node'[a].rev > 0
  BY <1>2, <1>3, <1>5, <1>6 DEF ClaimInv
<1>9. ASSUME NEW a \in Flights, At(a, "write")' PROVE ReadIsOld(a)'
  <2>1. At(a, "write") /\ Event(a)' = Event(a) /\ flight'[a] = flight[a]
    BY <1>4, <1>9 DEF At, Event
  <2>2. Event(a).entity \in Entities /\ flight[a].rev \in Nat
    BY <2>1, BatchTypes DEF At, NodeEvents, TypeOK, FlightTypes, Batches
  <2>3. ReadIsOld(a)
    BY <2>1 DEF ClaimInv
  <2>4. CASE Event(a).entity = e
    BY <1>1, <1>2, <1>3, <1>5, <1>6, <2>1, <2>2, <2>3, <2>4 DEF ReadIsOld, Rev
  <2>5. CASE Event(a).entity # e
    BY <1>6, <2>1, <2>2, <2>3, <2>5 DEF ReadIsOld, Rev
  <2>. QED BY <2>4, <2>5
<1>. QED BY <1>7, <1>8, <1>9 DEF ClaimInv

LEMMA ClaimStep ==
    ASSUME TypeOK, ClaimInv, [Next]_vars
    PROVE  ClaimInv'
<1>1. CASE Source \/ Sync \/ ExpireKey \/ UNCHANGED vars
  <2>1. UNCHANGED <<node, attested, flight>>
    BY <1>1 DEF Source, SourceDeletes, SourceChanges, Sync, StartRun, EndRun, RunFetches,
               RefetchFetches, Publish, ExpireKey, vars, histVars
  <2>. QED BY <2>1, ClaimsRest, NodeSame, FlightSame
<1>2. CASE Consume \/ TimerFlush
  <2>1. UNCHANGED <<node, attested>>
    BY <1>2 DEF Consume, TimerFlush, histVars
  <2>2. UNCHANGED flight \/ \E b \in Flights, s \in {buffer, Append(buffer, Head(queue))} :
                               Take(s, b, TRUE) \/ Take(s, b, FALSE)
    BY <1>2 DEF Consume, TimerFlush
  <2>. QED BY <2>1, <2>2, ClaimsRest, NodeSame, FlightSame, TakeKeeps
<1>3. CASE Edit
  BY <1>3, EditKeepsClaims DEF Edit
<1>4. CASE Crash
  <2>1. UNCHANGED <<node, attested>>
    BY <1>4 DEF Crash
  <2>2. \A x \in Flights : FlightKept(x)
    BY <1>4 DEF Crash, FlightKept, Idle
  <2>. QED BY <2>1, <2>2, ClaimsRest, NodeSame
<1>5. ASSUME NEW b \in Flights, Process(b) PROVE ClaimInv'
  <2>1. CASE SkipDuplicate(b) \/ Record(b)
    <3>1. Event(b) \in NodeEvents
      BY <2>1, BatchTypes DEF SkipDuplicate, Record, At
    <3>2. \A e \in Entities : ClaimsKept(e)
      BY <2>1, <3>1, ConfirmKeeps, NodeSame DEF SkipDuplicate, Record
    <3>. QED BY <2>1, <3>2, ClaimsRest, AdvanceKeeps DEF SkipDuplicate, Record
  <2>2. CASE CheckNew(b)
    <3>1. flight' = [flight EXCEPT ![b].pc = "read"] /\ UNCHANGED <<node, attested>>
      BY <2>2 DEF CheckNew, Goto, histVars
    <3>2. \A x \in Flights : FlightKept(x)
      BY <3>1 DEF FlightKept, TypeOK, FlightTypes, Batches
    <3>. QED BY <3>1, <3>2, ClaimsRest, NodeSame
  <2>3. CASE ReadClaims(b)
    BY <2>3, ReadKeepsClaims
  <2>4. CASE WriteNode(b)
    BY <2>4, WriteKeepsClaims
  <2>5. CASE WriteFails(b)
    BY <2>5, ClaimsRest, NodeSame, AdvanceKeeps DEF WriteFails
  <2>6. CASE Sweep(b)
    <3>1. ASSUME NEW e \in Entities, node[e] # NULL
          PROVE  /\ [node[e] EXCEPT !.absent = TRUE] # NULL
                 /\ [node[e] EXCEPT !.absent = TRUE].manual = node[e].manual
                 /\ [node[e] EXCEPT !.absent = TRUE].rev = node[e].rev
      <4>1. node[e] \in Nodes
        BY <3>1 DEF TypeOK, GraphTypes
      <4>2. [node[e] EXCEPT !.absent = TRUE] \in Nodes
        BY <4>1 DEF Nodes
      <4>. QED BY <4>1, <4>2, GraphAssumption DEF Nodes
    <3>2. \A e \in Entities : ClaimsKept(e)
      BY <2>6, <3>1 DEF Sweep, Unseen, ClaimsKept
    <3>. QED BY <2>6, <3>2, ClaimsRest, AdvanceKeeps DEF Sweep, histVars
  <2>. QED BY <1>5, <2>1, <2>2, <2>3, <2>4, <2>5, <2>6 DEF Process
<1>. QED BY <1>1, <1>2, <1>3, <1>4, <1>5 DEF Next

(* A manual claim stands until a user takes it back: of all writers that read *)
(* the claims, only one whose revision is still the node's writes them, and   *)
(* every edit moves the revision (mergeNode()'s compare-and-set).             *)
THEOREM EditsAreKept == Spec => []ManualClaimStands
<1>1. Init => TypeOK /\ ClaimInv
  <2>1. Init => ClaimInv
    BY DEF Init, ClaimInv, ManualClaimStands, At, Idle
  <2>. QED BY <2>1, TypeInit
<1>2. TypeOK /\ ClaimInv /\ [Next]_vars => (TypeOK /\ ClaimInv)'
  BY TypeStep, ClaimStep
<1>3. ClaimInv => ManualClaimStands
  BY DEF ClaimInv
<1>. QED BY <1>1, <1>2, <1>3, PTL DEF Spec
-----------------------------------------------------------------------------
(* Where published events are, step by step. *)
LEMMA SetOfAppend ==
    ASSUME NEW S, NEW s \in Seq(S), NEW x \in S
    PROVE  ToSet(Append(s, x)) = ToSet(s) \cup {x}
<1>1. /\ Append(s, x) \in Seq(S) /\ Len(Append(s, x)) = Len(s) + 1
      /\ \A i \in 1..Len(s) : Append(s, x)[i] = s[i]
      /\ Append(s, x)[Len(s) + 1] = x
  BY AppendProperties
<1>2. DOMAIN s = 1..Len(s) /\ DOMAIN Append(s, x) = 1..(Len(s) + 1) /\ Len(s) \in Nat
  BY <1>1, LenProperties
<1>3. \A i \in DOMAIN Append(s, x) : Append(s, x)[i] \in ToSet(s) \cup {x}
  BY <1>1, <1>2 DEF ToSet
<1>4. \A i \in DOMAIN s : s[i] \in ToSet(Append(s, x))
  BY <1>1, <1>2 DEF ToSet
<1>5. x \in ToSet(Append(s, x))
  BY <1>1, <1>2 DEF ToSet
<1>. QED BY <1>3, <1>4, <1>5 DEF ToSet

LEMMA SetOfTail ==
    ASSUME NEW S, NEW s \in Seq(S), s # <<>>
    PROVE  /\ ToSet(s) = {Head(s)} \cup ToSet(Tail(s))
           /\ Len(s) = 1 => ToSet(s) = {Head(s)}
<1>1. /\ Tail(s) \in Seq(S) /\ Len(Tail(s)) = Len(s) - 1
      /\ \A i \in 1..Len(Tail(s)) : Tail(s)[i] = s[i + 1]
  BY HeadTailProperties
<1>2. Len(s) \in Nat /\ Len(s) > 0 /\ DOMAIN s = 1..Len(s) /\ Head(s) = s[1]
  BY EmptySeq, LenProperties
<1>3. DOMAIN Tail(s) = 1..(Len(s) - 1)
  BY <1>1, LenProperties
<1>4. ASSUME NEW i \in DOMAIN s PROVE s[i] \in {Head(s)} \cup ToSet(Tail(s))
  <2>1. CASE i = 1
    BY <1>2, <2>1
  <2>2. CASE i # 1
    <3>1. i - 1 \in DOMAIN Tail(s) /\ Tail(s)[i - 1] = s[(i - 1) + 1] /\ (i - 1) + 1 = i
      BY <1>1, <1>2, <1>3, <2>2
    <3>. QED BY <3>1 DEF ToSet
  <2>. QED BY <2>1, <2>2
<1>5. \A i \in DOMAIN Tail(s) : Tail(s)[i] \in ToSet(s)
  BY <1>1, <1>2, <1>3 DEF ToSet
<1>6. Head(s) \in ToSet(s)
  BY <1>2 DEF ToSet
<1>7. Len(s) = 1 => ToSet(s) = {Head(s)}
  BY <1>2 DEF ToSet
<1>. QED BY <1>4, <1>5, <1>6, <1>7 DEF ToSet

LEMMA SetOfParts ==
    ASSUME NEW S, NEW s \in Seq(S), NEW n \in 1..Len(s)
    PROVE  ToSet(s) = ToSet(SubSeq(s, 1, n)) \cup ToSet(SubSeq(s, n + 1, Len(s)))
<1>1. Len(s) \in Nat /\ DOMAIN s = 1..Len(s)
  BY LenProperties
<1>. DEFINE l == SubSeq(s, 1, n)
            r == SubSeq(s, n + 1, Len(s))
<1>2. l \in Seq(S) /\ Len(l) = n /\ \A i \in 1..n : l[i] = s[i]
  BY <1>1, SubSeqProperties, ElementOfSeq
<1>3. r \in Seq(S) /\ Len(r) = Len(s) - n /\ \A i \in 1..(Len(s) - n) : r[i] = s[n + i]
  <2>1. \A i \in (n + 1)..Len(s) : s[i] \in S
    BY <1>1, ElementOfSeq
  <2>2. /\ r \in Seq(S)
        /\ Len(r) = IF n + 1 <= Len(s) THEN Len(s) - (n + 1) + 1 ELSE 0
        /\ \A i \in 1..(Len(s) - (n + 1) + 1) : r[i] = s[(n + 1) + i - 1]
    BY <1>1, <2>1, SubSeqProperties
  <2>. HIDE DEF r
  <2>3. Len(r) = Len(s) - n
    <3>1. \A k, m \in Nat : m \in 1..k =>
             /\ m + 1 <= k => k - (m + 1) + 1 = k - m
             /\ ~(m + 1 <= k) => 0 = k - m
      OBVIOUS
    <3>2. Len(s) \in Nat /\ n \in Nat
      BY <1>1
    <3>. QED BY <2>2, <3>1, <3>2
  <2>4. ASSUME NEW i \in 1..(Len(s) - n) PROVE r[i] = s[n + i]
    <3>1. i \in 1..(Len(s) - (n + 1) + 1) /\ (n + 1) + i - 1 = n + i
      BY <1>1
    <3>. QED BY <2>2, <3>1
  <2>. QED BY <2>2, <2>3, <2>4
<1>4. DOMAIN l = 1..n /\ DOMAIN r = 1..(Len(s) - n)
  BY <1>2, <1>3, LenProperties
<1>. HIDE DEF l, r
<1>5. ASSUME NEW i \in DOMAIN s PROVE s[i] \in ToSet(l) \cup ToSet(r)
  <2>1. CASE i <= n
    BY <1>1, <1>2, <1>4, <2>1 DEF ToSet
  <2>2. CASE i > n
    <3>1. i - n \in DOMAIN r /\ r[i - n] = s[n + (i - n)] /\ n + (i - n) = i
      BY <1>1, <1>3, <1>4, <2>2
    <3>. QED BY <3>1 DEF ToSet
  <2>. QED BY <1>1, <2>1, <2>2
<1>6. \A i \in DOMAIN l : l[i] \in ToSet(s)
  BY <1>1, <1>2, <1>4 DEF ToSet
<1>7. \A i \in DOMAIN r : r[i] \in ToSet(s)
  <2>1. \A i \in DOMAIN r : n + i \in DOMAIN s /\ r[i] = s[n + i]
    BY <1>1, <1>3, <1>4
  <2>. QED BY <2>1 DEF ToSet
<1>. QED BY <1>5, <1>6, <1>7 DEF ToSet, l, r

LEMMA SetOfNone == ToSet(<<>>) = {}
BY DEF ToSet

LEMMA SetOfFirst ==
    ASSUME NEW S, NEW s \in Seq(S), NEW x \in S
    PROVE  ToSet(<<x>> \o s) = {x} \cup ToSet(s)
<1>1. <<x>> \in Seq(S) /\ Len(<<x>>) = 1 /\ <<x>>[1] = x
  OBVIOUS
<1>2. /\ <<x>> \o s \in Seq(S) /\ Len(<<x>> \o s) = 1 + Len(s) /\ Len(s) \in Nat
      /\ \A i \in 1..(1 + Len(s)) : (<<x>> \o s)[i] = IF i <= 1 THEN <<x>>[i] ELSE s[i - 1]
  BY <1>1, ConcatProperties, LenProperties
<1>3. DOMAIN s = 1..Len(s) /\ DOMAIN (<<x>> \o s) = 1..(1 + Len(s))
  BY <1>2, LenProperties
<1>4. \A i \in DOMAIN (<<x>> \o s) : (<<x>> \o s)[i] \in {x} \cup ToSet(s)
  BY <1>1, <1>2, <1>3 DEF ToSet
<1>5. x \in ToSet(<<x>> \o s)
  BY <1>1, <1>2, <1>3 DEF ToSet
<1>6. ASSUME NEW i \in DOMAIN s PROVE s[i] \in ToSet(<<x>> \o s)
  <2>1. i + 1 \in DOMAIN (<<x>> \o s) /\ (<<x>> \o s)[i + 1] = s[(i + 1) - 1] /\ (i + 1) - 1 = i
    BY <1>2, <1>3
  <2>. QED BY <2>1 DEF ToSet
<1>. QED BY <1>4, <1>5, <1>6 DEF ToSet

LEMMA FlyingStays ==
    ASSUME TypeOK, NEW b \in Flights, NEW x \in Batches, x.events = flight[b].events,
           flight' = [flight EXCEPT ![b] = x]
    PROVE  Flying' = Flying
<1>1. \A a \in Flights : flight'[a].events = flight[a].events
  BY DEF TypeOK, FlightTypes
<1>. QED BY <1>1 DEF Flying

LEMMA FlyingTakes ==
    ASSUME TypeOK, NEW s \in Seq(Events), s # <<>>, NEW b \in Flights, NEW w, Take(s, b, w)
    PROVE  Flying' \cup ToSet(buffer') = Flying \cup ToSet(s)
<1>. DEFINE n == IF Len(s) < BatchSize THEN Len(s) ELSE BatchSize
            taken == [Idle EXCEPT !.events = SubSeq(s, 1, n), !.pc = "check", !.awaited = w]
<1>1. Len(s) \in Nat /\ Len(s) > 0
  BY EmptySeq
<1>2. n \in 1..Len(s)
  BY <1>1, GraphAssumption
<1>3. /\ flight' = [flight EXCEPT ![b] = taken] /\ flight[b] = Idle
      /\ buffer' = SubSeq(s, n + 1, Len(s))
  BY DEF Take
<1>. HIDE DEF n
<1>4. taken.events = SubSeq(s, 1, n)
  BY DEF Idle
<1>. HIDE DEF taken
<1>5. ToSet(flight[b].events) = {}
  BY <1>3, SetOfNone DEF Idle
<1>6. ToSet(s) = ToSet(flight'[b].events) \cup ToSet(buffer')
  <2>1. flight'[b] = taken
    BY <1>3 DEF TypeOK, FlightTypes
  <2>. QED BY <1>2, <1>3, <1>4, <2>1, SetOfParts
<1>7. \A a \in Flights : a # b => flight'[a] = flight[a]
  BY <1>3 DEF TypeOK, FlightTypes
<1>. QED BY <1>5, <1>6, <1>7 DEF Flying

LEMMA FlyingAdvances ==
    ASSUME TypeOK, NEW b \in Flights, flight[b].pc # "idle", NEW f, Advance(b, f)
    PROVE  Flying = Flying' \cup {Event(b)}
<1>. DEFINE rest == [Idle EXCEPT !.events = Tail(flight[b].events), !.pc = "check",
                           !.awaited = flight[b].awaited, !.failed = f]
<1>1. flight[b].events \in Seq(Events) /\ flight[b].events # <<>>
  BY BatchTypes
<1>2. rest.events = Tail(flight[b].events)
  BY DEF Idle
<1>. HIDE DEF rest
<1>3. flight' = [flight EXCEPT ![b] = IF Len(flight[b].events) = 1 THEN Idle ELSE rest]
  BY DEF Advance, rest
<1>4. \A a \in Flights : a # b => flight'[a] = flight[a]
  BY <1>3 DEF TypeOK, FlightTypes
<1>5. ToSet(flight[b].events) = ToSet(flight'[b].events) \cup {Event(b)}
  <2>1. CASE Len(flight[b].events) = 1
    <3>1. flight'[b].events = <<>>
      BY <1>3, <2>1 DEF TypeOK, FlightTypes, Idle
    <3>. QED BY <1>1, <2>1, <3>1, SetOfTail, SetOfNone DEF Event
  <2>2. CASE Len(flight[b].events) # 1
    <3>1. flight'[b].events = Tail(flight[b].events)
      BY <1>2, <1>3, <2>2 DEF TypeOK, FlightTypes
    <3>. QED BY <1>1, <3>1, SetOfTail DEF Event
  <2>. QED BY <2>1, <2>2
<1>. QED BY <1>4, <1>5 DEF Flying
-----------------------------------------------------------------------------
(* The job that is active is in a flight. *)
AwaitedIn(b) ==
    flight[b].pc # "idle" /\ flight[b].awaited /\ JobId(Last(flight[b].events)) = active

LEMMA BusAdvances ==
    ASSUME TypeOK, BusInv, NEW b \in Flights, flight[b].pc # "idle", NEW f, Advance(b, f),
           UNCHANGED buffer
    PROVE  BusInv'
<1>. DEFINE rest == [Idle EXCEPT !.events = Tail(flight[b].events), !.pc = "check",
                           !.awaited = flight[b].awaited, !.failed = f]
<1>1. flight[b].events \in Seq(Events) /\ flight[b].events # <<>>
  BY BatchTypes
<1>2. rest.events = Tail(flight[b].events) /\ rest.pc = "check" /\ (rest.awaited <=> flight[b].awaited)
  BY DEF Idle
<1>. HIDE DEF rest
<1>3. flight' = [flight EXCEPT ![b] = IF Len(flight[b].events) = 1 THEN Idle ELSE rest]
  BY DEF Advance, rest
<1>4. SUFFICES ASSUME active' # NULL PROVE \E a \in Flights : AwaitedIn(a)'
  BY DEF BusInv, AwaitedIn
<1>5. active' = active /\ ~(flight[b].awaited /\ Len(flight[b].events) = 1)
  BY <1>4 DEF Advance
<1>6. PICK a \in Flights : AwaitedIn(a)
  BY <1>4, <1>5 DEF BusInv, AwaitedIn
<1>7. CASE a # b
  <2>1. flight'[a] = flight[a]
    BY <1>3, <1>7 DEF TypeOK, FlightTypes
  <2>. QED BY <1>5, <1>6, <2>1 DEF AwaitedIn, JobId
<1>8. CASE a = b
  <2>1. flight'[b] = rest
    BY <1>3, <1>5, <1>6, <1>8 DEF AwaitedIn, TypeOK, FlightTypes
  <2>2. Last(Tail(flight[b].events)) = Last(flight[b].events)
    BY <1>1, <1>5, <1>6, <1>8, HeadTail DEF AwaitedIn
  <2>. QED BY <1>2, <1>5, <1>6, <1>8, <2>1, <2>2 DEF AwaitedIn, JobId
<1>. QED BY <1>7, <1>8

LEMMA BusGoes ==
    ASSUME TypeOK, BusInv, NEW b \in Flights, NEW x \in Batches, flight[b].pc # "idle",
           x.events = flight[b].events, x.pc # "idle", x.awaited <=> flight[b].awaited,
           flight' = [flight EXCEPT ![b] = x], UNCHANGED <<active, buffer>>
    PROVE  BusInv'
<1>1. ASSUME NEW a \in Flights
      PROVE  /\ flight'[a].events = flight[a].events
             /\ flight'[a].awaited <=> flight[a].awaited
             /\ flight[a].pc # "idle" => flight'[a].pc # "idle"
  BY DEF TypeOK, FlightTypes
<1>2. \A a \in Flights : AwaitedIn(a) => AwaitedIn(a)'
  BY <1>1 DEF AwaitedIn, JobId
<1>. QED BY <1>2 DEF BusInv, AwaitedIn

LEMMA BusTakes ==
    ASSUME TypeOK, NEW s \in Seq(Events), s # <<>>, Len(s) <= BatchSize,
           NEW b \in Flights, NEW w, Take(s, b, w)
    PROVE  /\ buffer' = <<>> /\ flight[b] = Idle
           /\ flight'[b].events = s /\ flight'[b].pc = "check" /\ (flight'[b].awaited <=> w)
           /\ \A a \in Flights : a # b => flight'[a] = flight[a]
<1>. DEFINE taken == [Idle EXCEPT !.events = s, !.pc = "check", !.awaited = w]
<1>1. Len(s) \in Nat /\ Len(s) > 0 /\ BatchSize \in Nat
  BY EmptySeq, GraphAssumption
<1>2. (IF Len(s) < BatchSize THEN Len(s) ELSE BatchSize) = Len(s)
  BY <1>1
<1>3. SubSeq(s, 1, Len(s)) = s /\ SubSeq(s, Len(s) + 1, Len(s)) = <<>>
  <2>1. Len(s) + 1 \in Int /\ Len(s) \in Int /\ Len(s) < Len(s) + 1
    BY <1>1
  <2>. QED BY <2>1, SubSeqFull, SubSeqEmpty
<1>4. flight' = [flight EXCEPT ![b] = taken] /\ flight[b] = Idle /\ buffer' = <<>>
  BY <1>2, <1>3 DEF Take
<1>5. taken.events = s /\ taken.pc = "check" /\ (taken.awaited <=> w)
  BY DEF Idle
<1>. HIDE DEF taken
<1>. QED BY <1>4, <1>5 DEF TypeOK, FlightTypes

LEMMA BusMoves ==
    ASSUME TypeOK, BusInv, Consume \/ TimerFlush
    PROVE  BusInv'
<1>0. 0 < BatchSize /\ BatchSize \in Nat /\ Len(<<>>) = 0 /\ Len(buffer) \in Nat
  BY GraphAssumption DEF TypeOK, BusTypes
<1>1. CASE Consume
  <2>. DEFINE full == Append(buffer, Head(queue))
  <2>1. queue \in Seq(Events) /\ queue # <<>> /\ buffer \in Seq(Events) /\ active = NULL
    BY <1>1 DEF Consume, TypeOK, BusTypes
  <2>2. Head(queue) \in Events
    BY <2>1, HeadTail
  <2>3. /\ full \in Seq(Events) /\ full # <<>> /\ Len(full) = Len(buffer) + 1
        /\ full[Len(full)] = Head(queue)
    BY <2>1, <2>2, AppendProperties, EmptySeq
  <2>. HIDE DEF full
  <2>4. CASE Len(full) < BatchSize
    BY <1>1, <2>1, <2>4 DEF Consume, BusInv, full
  <2>5. CASE ~(Len(full) < BatchSize)
    <3>1. PICK b \in Flights : Take(full, b, TRUE)
      BY <1>1, <2>5 DEF Consume, full
    <3>2. Len(full) <= BatchSize
      BY <1>0, <2>3 DEF BusInv
    <3>3. buffer' = <<>> /\ flight'[b].events = full /\ flight'[b].pc = "check" /\ flight'[b].awaited
      BY <2>3, <3>1, <3>2, BusTakes
    <3>4. active' = JobId(Head(queue))
      BY <1>1, <2>5 DEF Consume, full
    <3>5. JobId(Last(flight'[b].events)) = active'
      BY <2>3, <3>3, <3>4 DEF Last
    <3>. QED BY <1>0, <3>3, <3>5 DEF BusInv, JobId
  <2>. QED BY <2>4, <2>5
<1>2. CASE TimerFlush
  <2>1. PICK b \in Flights : Take(buffer, b, FALSE)
    BY <1>2 DEF TimerFlush
  <2>2. buffer \in Seq(Events) /\ buffer # <<>> /\ Len(buffer) <= BatchSize
    BY <1>0, <1>2 DEF TimerFlush, BusInv, TypeOK, BusTypes
  <2>3. /\ buffer' = <<>> /\ flight[b] = Idle
        /\ \A a \in Flights : a # b => flight'[a] = flight[a]
    BY <2>1, <2>2, BusTakes
  <2>4. UNCHANGED active
    BY <1>2 DEF TimerFlush
  <2>5. \A a \in Flights : AwaitedIn(a) => a # b
    BY <2>3 DEF AwaitedIn, Idle
  <2>6. \A a \in Flights : AwaitedIn(a) => AwaitedIn(a)'
    BY <2>3, <2>4, <2>5 DEF AwaitedIn, JobId
  <2>. QED BY <1>0, <2>3, <2>4, <2>6 DEF BusInv, AwaitedIn
<1>. QED BY <1>1, <1>2

LEMMA BusProcess ==
    ASSUME TypeOK, BusInv, NEW b \in Flights, Process(b)
    PROVE  BusInv'
<1>1. flight[b].pc # "idle" /\ flight[b] \in Batches
  BY DEF Process, SkipDuplicate, CheckNew, ReadClaims, WriteNode, Record, WriteFails, Sweep, At,
         TypeOK, FlightTypes
<1>2. UNCHANGED buffer
  BY DEF Process, SkipDuplicate, CheckNew, ReadClaims, WriteNode, Record, WriteFails, Sweep, busVars
<1>3. CASE \E f \in BOOLEAN : Advance(b, f)
  BY <1>1, <1>2, <1>3, BusAdvances
<1>4. CASE CheckNew(b)
  <2>. DEFINE x == [flight[b] EXCEPT !.pc = "read"]
  <2>1. x \in Batches /\ x.events = flight[b].events /\ x.pc # "idle" /\ (x.awaited <=> flight[b].awaited)
    BY <1>1 DEF Batches
  <2>2. flight' = [flight EXCEPT ![b] = x] /\ UNCHANGED active
    BY <1>4 DEF CheckNew, Goto
  <2>. HIDE DEF x
  <2>. QED BY <1>1, <1>2, <2>1, <2>2, BusGoes
<1>5. CASE ReadClaims(b)
  <2>. DEFINE e == Event(b).entity
              m == IF node[e] = NULL THEN NULL ELSE node[e].manual
              x == [flight[b] EXCEPT !.pc = "write", !.rev = Rev(e), !.claims = m]
  <2>1. e \in Entities
    BY <1>5, <1>1, BatchTypes DEF ReadClaims, At, NodeEvents
  <2>2. Rev(e) \in Nat /\ m \in Manual \cup {NULL}
    BY <2>1 DEF Rev, TypeOK, GraphTypes, Nodes
  <2>3. flight' = [flight EXCEPT ![b] = x] /\ UNCHANGED active
    BY <1>5, <1>1 DEF ReadClaims, busVars, Batches
  <2>. HIDE DEF m
  <2>4. x \in Batches /\ x.events = flight[b].events /\ x.pc # "idle" /\ (x.awaited <=> flight[b].awaited)
    BY <1>1, <2>2 DEF Batches
  <2>. HIDE DEF x
  <2>. QED BY <1>1, <1>2, <2>3, <2>4, BusGoes
<1>6. CASE WriteNode(b)
  <2>1. CASE Advance(b, flight[b].failed)
    BY <1>1, <1>2, <2>1, BusAdvances
  <2>2. CASE ~Advance(b, flight[b].failed)
    <3>. DEFINE A(a) == /\ flight'[a].events = flight[a].events
                        /\ flight'[a].awaited <=> flight[a].awaited
                        /\ flight[a].pc # "idle" => flight'[a].pc # "idle"
    <3>1. UNCHANGED active /\ \A a \in Flights : A(a)
      <4>1. CASE Stale(Event(b)) \/ ~ClaimsConflict(b)
        <5>. DEFINE x == [flight[b] EXCEPT !.pc = "record", !.written = ~Stale(Event(b))]
        <5>1. flight' = [flight EXCEPT ![b] = x] /\ UNCHANGED active
          BY <1>6, <4>1 DEF WriteNode
        <5>2. x.events = flight[b].events /\ x.pc # "idle" /\ (x.awaited <=> flight[b].awaited)
          BY <1>1 DEF Batches
        <5>. HIDE DEF x
        <5>. QED BY <5>1, <5>2 DEF TypeOK, FlightTypes
      <4>2. CASE ~(Stale(Event(b)) \/ ~ClaimsConflict(b))
        <5>. DEFINE x == [flight[b] EXCEPT !.pc = "read", !.attempt = @ + 1]
        <5>1. flight' = [flight EXCEPT ![b] = x] /\ UNCHANGED active
          BY <1>6, <2>2, <4>2 DEF WriteNode
        <5>2. x.events = flight[b].events /\ x.pc # "idle" /\ (x.awaited <=> flight[b].awaited)
          BY <1>1 DEF Batches
        <5>. HIDE DEF x
        <5>. QED BY <5>1, <5>2 DEF TypeOK, FlightTypes
      <4>. QED BY <4>1, <4>2
    <3>2. \A a \in Flights : AwaitedIn(a) => AwaitedIn(a)'
      BY <3>1 DEF AwaitedIn, JobId
    <3>. QED BY <1>2, <3>1, <3>2 DEF BusInv, AwaitedIn
  <2>. QED BY <2>1, <2>2
<1>7. flight[b].failed \in BOOLEAN
  BY <1>1 DEF Batches
<1>. QED BY <1>3, <1>4, <1>5, <1>6, <1>7 DEF Process, SkipDuplicate, Record, WriteFails, Sweep

LEMMA BusStep ==
    ASSUME TypeOK, BusInv, [Next]_vars
    PROVE  BusInv'
<1>1. CASE Source \/ Sync \/ Edit \/ ExpireKey \/ UNCHANGED vars
  <2>1. UNCHANGED <<buffer, active, flight>>
    BY <1>1 DEF Source, SourceDeletes, SourceChanges, Sync, StartRun, EndRun, RunFetches,
               RefetchFetches, Publish, ExpireKey, Edit, EditManualClaim, vars, busVars
  <2>. QED BY <2>1 DEF BusInv, JobId
<1>2. CASE Consume \/ TimerFlush
  BY <1>2, BusMoves
<1>3. CASE Crash
  BY <1>3, GraphAssumption, EmptySeq DEF Crash, BusInv
<1>4. ASSUME NEW b \in Flights, Process(b) PROVE BusInv'
  BY <1>4, BusProcess
<1>. QED BY <1>1, <1>2, <1>3, <1>4 DEF Next

-----------------------------------------------------------------------------
(* What a step does to a node: nothing to its content, or one write of the    *)
(* event of a flight, with its claims unless they moved.                      *)
Untouched(e) ==
    IF node[e] = NULL THEN node'[e] = NULL
    ELSE /\ node'[e] # NULL /\ node'[e].content = node[e].content
         /\ node'[e].version = node[e].version /\ node'[e].conn = node[e].conn

Written(e, b) ==
    /\ At(b, "write") /\ Event(b).entity = e /\ ~Stale(Event(b)) /\ WriteNode(b)
    /\ node'[e] # NULL /\ node'[e].content = Event(b).content
    /\ node'[e].version = Event(b).version
    /\ node'[e].conn = IF ClaimsConflict(b) THEN node[e].conn ELSE Event(b).content

LEMMA ConfirmTouches ==
    ASSUME TypeOK, NEW ev \in NodeEvents, ConfirmSeen(ev)
    PROVE  \A e \in Entities : Untouched(e)
<1>1. CASE UNCHANGED node
  BY <1>1 DEF Untouched
<1>2. CASE node' = Touch(ev.entity, ev.synced)
  <2>. TAKE e \in Entities
  <2>1. CASE node[ev.entity] = NULL \/ e # ev.entity
    BY <1>2, <2>1 DEF Touch, Untouched, TypeOK, GraphTypes
  <2>2. CASE node[ev.entity] # NULL /\ e = ev.entity
    <3>. DEFINE n == node[e]
                s == IF n.synced < ev.synced THEN ev.synced ELSE n.synced
                t == [n EXCEPT !.absent = FALSE, !.synced = s]
    <3>1. n \in Nodes /\ ev.synced \in Nat
      BY <2>2 DEF TypeOK, GraphTypes, NodeEvents
    <3>2. node'[e] = t
      BY <1>2, <2>2, <3>1 DEF Touch, TypeOK, GraphTypes, Nodes
    <3>3. t \in Nodes /\ t.content = n.content /\ t.version = n.version /\ t.conn = n.conn
      BY <3>1 DEF Nodes
    <3>. QED BY <2>2, <3>2, <3>3, GraphAssumption DEF Untouched
  <2>. QED BY <2>1, <2>2
<1>. QED BY <1>1, <1>2 DEF ConfirmSeen

LEMMA NodeMoves ==
    ASSUME TypeOK, [Next]_vars, NEW e \in Entities
    PROVE  Untouched(e) \/ \E b \in Flights : Written(e, b)
<1>1. CASE Source \/ Sync \/ Consume \/ TimerFlush \/ ExpireKey \/ Crash \/ UNCHANGED vars
  <2>1. UNCHANGED node
    BY <1>1 DEF Source, SourceDeletes, SourceChanges, Sync, StartRun, EndRun, RunFetches, Crash,
               RefetchFetches, Publish, Consume, TimerFlush, ExpireKey, vars
  <2>. QED BY <2>1 DEF Untouched
<1>2. ASSUME NEW a \in Entities, NEW v \in Manual \cup {NULL}, EditManualClaim(a, v)
      PROVE  Untouched(e)
  <2>1. node[a] \in Nodes /\ node[a] # NULL
    BY <1>2 DEF EditManualClaim, TypeOK, GraphTypes
  <2>. DEFINE n == [node[a] EXCEPT !.manual = v, !.rev = @ + 1]
  <2>2. node[a].rev + 1 \in Nat
    BY <2>1 DEF Nodes
  <2>3. /\ n \in Nodes /\ n.content = node[a].content /\ n.version = node[a].version
        /\ n.conn = node[a].conn
    BY <2>1, <2>2 DEF Nodes
  <2>4. node' = [node EXCEPT ![a] = n]
    BY <1>2, <2>1 DEF EditManualClaim, TypeOK, GraphTypes, Nodes
  <2>. HIDE DEF n
  <2>. QED BY <2>1, <2>3, <2>4, GraphAssumption DEF Untouched, TypeOK, GraphTypes
<1>3. ASSUME NEW b \in Flights, SkipDuplicate(b) \/ Record(b) PROVE Untouched(e)
  <2>1. Event(b) \in NodeEvents
    BY <1>3, BatchTypes DEF SkipDuplicate, Record, At
  <2>. QED BY <1>3, <2>1, ConfirmTouches DEF SkipDuplicate, Record, Untouched
<1>4. ASSUME NEW b \in Flights, CheckNew(b) \/ ReadClaims(b) \/ WriteFails(b) PROVE Untouched(e)
  BY <1>4 DEF CheckNew, ReadClaims, WriteFails, Untouched
<1>5. ASSUME NEW b \in Flights, Sweep(b) PROVE Untouched(e)
  <2>1. ASSUME node[e] # NULL
        PROVE  /\ [node[e] EXCEPT !.absent = TRUE] # NULL
               /\ [node[e] EXCEPT !.absent = TRUE].content = node[e].content
               /\ [node[e] EXCEPT !.absent = TRUE].version = node[e].version
               /\ [node[e] EXCEPT !.absent = TRUE].conn = node[e].conn
    <3>1. node[e] \in Nodes
      BY <2>1 DEF TypeOK, GraphTypes
    <3>2. [node[e] EXCEPT !.absent = TRUE] \in Nodes
      BY <3>1 DEF Nodes
    <3>. QED BY <3>1, <3>2, GraphAssumption DEF Nodes
  <2>. QED BY <1>5, <2>1 DEF Sweep, Unseen, Untouched
<1>6. ASSUME NEW b \in Flights, WriteNode(b) PROVE Untouched(e) \/ Written(e, b)
  <2>1. At(b, "write") /\ Merged(b) \in Nodes /\ Merged(b) # NULL
    BY <1>6, MergedTypes, GraphAssumption DEF WriteNode
  <2>2. Event(b).entity \in Entities
    BY <2>1, BatchTypes DEF At, NodeEvents
  <2>3. /\ node'[Event(b).entity] = Merged(b)
        /\ \A a \in Entities : a # Event(b).entity => node'[a] = node[a]
    BY <1>6, <2>2 DEF WriteNode, TypeOK, GraphTypes
  <2>4. CASE e # Event(b).entity
    BY <2>3, <2>4 DEF Untouched
  <2>5. CASE e = Event(b).entity /\ Stale(Event(b))
    <3>1. Merged(b) = node[e] /\ node[e] # NULL
      BY <2>5 DEF Merged, Stale
    <3>. QED BY <2>3, <2>5, <3>1 DEF Untouched
  <2>6. CASE e = Event(b).entity /\ ~Stale(Event(b))
    <3>1. /\ Merged(b).content = Event(b).content /\ Merged(b).version = Event(b).version
          /\ Merged(b).conn = IF ClaimsConflict(b) THEN node[e].conn ELSE Event(b).content
      BY <2>6 DEF Merged
    <3>. QED BY <1>6, <2>1, <2>3, <2>6, <3>1 DEF Written
  <2>. QED BY <2>4, <2>5, <2>6
<1>. QED BY <1>1, <1>2, <1>3, <1>4, <1>5, <1>6 DEF Next, Process, Edit
-----------------------------------------------------------------------------
(* Where an event that waits comes from, and what a step may do to it. *)
Finished(b) ==
    /\ Process(b)
    /\ SkipDuplicate(b) \/ Record(b) \/ Forget(Event(b)) \/ Event(b).kind = "sync"

LEMMA EventIsFlying ==
    ASSUME TypeOK, NEW b \in Flights, flight[b].pc # "idle"
    PROVE  Event(b) \in Waiting
<1>1. Event(b) \in ToSet(flight[b].events)
  BY BatchTypes, SetOfTail DEF Event
<1>. QED BY <1>1 DEF Waiting, Flying

LEMMA WaitingProcess ==
    ASSUME TypeOK, NEW b \in Flights, Process(b)
    PROVE  /\ Waiting' \subseteq Waiting
           /\ \A ev \in Waiting : ev \in Waiting' \/ (ev = Event(b) /\ Finished(b))
<1>1. flight[b].pc # "idle" /\ flight[b] \in Batches
  BY DEF Process, SkipDuplicate, CheckNew, ReadClaims, WriteNode, Record, WriteFails, Sweep, At,
         TypeOK, FlightTypes
<1>2. UNCHANGED <<queue, buffer>>
  BY DEF Process, SkipDuplicate, CheckNew, ReadClaims, WriteNode, Record, WriteFails, Sweep, busVars
<1>3. ASSUME Flying' = Flying PROVE Waiting' = Waiting
  BY <1>2, <1>3 DEF Waiting
<1>4. ASSUME \E f : Advance(b, f), Finished(b)
      PROVE  /\ Waiting' \subseteq Waiting
             /\ \A ev \in Waiting : ev \in Waiting' \/ (ev = Event(b) /\ Finished(b))
  <2>1. Flying = Flying' \cup {Event(b)}
    BY <1>1, <1>4, FlyingAdvances
  <2>. QED BY <1>2, <1>4, <2>1 DEF Waiting
<1>5. CASE SkipDuplicate(b) \/ Record(b) \/ WriteFails(b) \/ Sweep(b)
  BY <1>4, <1>5 DEF Finished, SkipDuplicate, Record, WriteFails, Sweep
<1>6. CASE CheckNew(b)
  <2>. DEFINE x == [flight[b] EXCEPT !.pc = "read"]
  <2>1. x \in Batches /\ x.events = flight[b].events
    BY <1>1 DEF Batches
  <2>2. flight' = [flight EXCEPT ![b] = x]
    BY <1>6 DEF CheckNew, Goto
  <2>. HIDE DEF x
  <2>. QED BY <1>3, <2>1, <2>2, FlyingStays
<1>7. CASE ReadClaims(b)
  <2>. DEFINE e == Event(b).entity
              m == IF node[e] = NULL THEN NULL ELSE node[e].manual
              x == [flight[b] EXCEPT !.pc = "write", !.rev = Rev(e), !.claims = m]
  <2>1. e \in Entities
    BY <1>7, <1>1, BatchTypes DEF ReadClaims, At, NodeEvents
  <2>2. Rev(e) \in Nat /\ m \in Manual \cup {NULL}
    BY <2>1 DEF Rev, TypeOK, GraphTypes, Nodes
  <2>3. flight' = [flight EXCEPT ![b] = x]
    BY <1>7, <1>1 DEF ReadClaims, Batches
  <2>. HIDE DEF m
  <2>4. x \in Batches /\ x.events = flight[b].events
    BY <1>1, <2>2 DEF Batches
  <2>. HIDE DEF x
  <2>. QED BY <1>3, <2>3, <2>4, FlyingStays
<1>8. CASE WriteNode(b)
  <2>1. CASE Advance(b, flight[b].failed) /\ Forget(Event(b))
    BY <1>4, <1>8, <2>1 DEF Finished, Process
  <2>2. CASE \A a \in Flights : flight'[a].events = flight[a].events
    BY <1>3, <2>2 DEF Flying
  <2>3. ASSUME flight' = [flight EXCEPT ![b].pc = "record", ![b].written = ~Stale(Event(b))]
        PROVE  \A a \in Flights : flight'[a].events = flight[a].events
    <3>. DEFINE x == [flight[b] EXCEPT !.pc = "record", !.written = ~Stale(Event(b))]
    <3>1. flight' = [flight EXCEPT ![b] = x]
      BY <2>3
    <3>2. x.events = flight[b].events
      BY <1>1 DEF Batches
    <3>. HIDE DEF x
    <3>. QED BY <3>1, <3>2 DEF TypeOK, FlightTypes
  <2>4. ASSUME flight' = [flight EXCEPT ![b].pc = "read", ![b].attempt = @ + 1]
        PROVE  \A a \in Flights : flight'[a].events = flight[a].events
    <3>. DEFINE x == [flight[b] EXCEPT !.pc = "read", !.attempt = @ + 1]
    <3>1. flight' = [flight EXCEPT ![b] = x]
      BY <2>4
    <3>2. x.events = flight[b].events
      BY <1>1 DEF Batches
    <3>. HIDE DEF x
    <3>. QED BY <3>1, <3>2 DEF TypeOK, FlightTypes
  <2>. QED BY <1>8, <2>1, <2>2, <2>3, <2>4 DEF WriteNode
<1>. QED BY <1>5, <1>6, <1>7, <1>8 DEF Process

(* A crash gives back at most the event that was last of the batch a job waits *)
(* for, and forgets what it does not give back.                                *)
LEMMA WaitingCrash ==
    ASSUME TypeOK, Crash
    PROVE  /\ Waiting' \subseteq Waiting
           /\ \A e \in Entities : expected'[e] # NULL =>
                 /\ expected'[e] = expected[e]
                 /\ \E ev \in Waiting' : /\ ev.kind = "node" /\ ev.entity = e
                                         /\ ev.content = expected[e].content
<1>. DEFINE held == {b \in Flights : flight[b].awaited}
            back == IF held = {} THEN <<>>
                    ELSE LET b == CHOOSE x \in held : TRUE IN <<Last(flight[b].events)>>
<1>1. queue \in Seq(Events)
  BY DEF TypeOK, BusTypes
<1>2. queue' = back \o queue /\ buffer' = <<>> /\ flight' = [b \in Flights |-> Idle]
  BY DEF Crash
<1>3. Flying' = {}
  BY <1>2, SetOfNone DEF Flying, Idle
<1>4. Waiting' = ToSet(back \o queue)
  BY <1>2, <1>3, SetOfNone DEF Waiting
<1>5. ToSet(back \o queue) \subseteq Waiting
  <2>1. CASE held = {}
    <3>1. back \o queue = queue
      BY <1>1, <2>1, ConcatEmptySeq
    <3>. QED BY <3>1 DEF Waiting
  <2>2. CASE held # {}
    <3>. DEFINE h == CHOOSE x \in held : TRUE
                l == Last(flight[h].events)
    <3>1. h \in Flights /\ flight[h].awaited
      BY <2>2
    <3>2. flight[h].pc # "idle"
      BY <3>1 DEF TypeOK, FlightTypes, Idle
    <3>3. flight[h].events \in Seq(Events) /\ flight[h].events # <<>>
      BY <3>1, <3>2, BatchTypes
    <3>4. back = <<l>>
      BY <2>2
    <3>. HIDE DEF h, back
    <3>5. l \in Events /\ l \in ToSet(flight[h].events)
      <4>1. l \in Events
        BY <3>3, HeadTail
      <4>2. Len(flight[h].events) \in DOMAIN flight[h].events
        BY <3>3, EmptySeq, LenProperties
      <4>. QED BY <4>1, <4>2 DEF ToSet, Last
    <3>. HIDE DEF l
    <3>6. ToSet(<<l>> \o queue) = {l} \cup ToSet(queue)
      BY <1>1, <3>5, SetOfFirst
    <3>. QED BY <3>1, <3>4, <3>5, <3>6 DEF Waiting, Flying
  <2>. QED BY <2>1, <2>2
<1>6. expected' = [e \in Entities |->
               IF \E j \in ToSet(back \o queue) : j.kind = "node" /\ j.entity = e
                                                   /\ expected[e] # NULL
                                                   /\ j.content = expected[e].content
               THEN expected[e] ELSE NULL]
  BY DEF Crash
<1>. HIDE DEF back
<1>. QED BY <1>4, <1>5, <1>6

LEMMA WaitingPublish ==
    ASSUME TypeOK, BusInv, NEW f \in Fetchers, fetched[f] \in NodeEvents, Enqueue(fetched[f]),
           UNCHANGED <<buffer, flight>>
    PROVE  /\ Waiting \subseteq Waiting' /\ Waiting' \subseteq Waiting \cup {fetched[f]}
           /\ \E ev \in Waiting' : JobId(ev) = JobId(fetched[f])
<1>. DEFINE x == fetched[f]
<1>0. x \in Events /\ queue \in Seq(Events)
  BY DEF Events, TypeOK, BusTypes
<1>1. CASE JobId(x) \in {JobId(j) : j \in ToSet(queue)}
  BY <1>1 DEF Enqueue, Waiting, Flying
<1>2. CASE active = JobId(x)
  <2>1. JobId(x) \in Ids
    BY DEF JobId, Ids, NodeEvents
  <2>2. PICK b \in Flights : flight[b].pc # "idle" /\ JobId(Last(flight[b].events)) = active
    BY <1>2, <2>1, GraphAssumption DEF BusInv
  <2>3. flight[b].events \in Seq(Events) /\ flight[b].events # <<>>
    BY <2>2, BatchTypes
  <2>4. Len(flight[b].events) \in DOMAIN flight[b].events
    BY <2>3, EmptySeq, LenProperties
  <2>5. Last(flight[b].events) \in Waiting
    BY <2>4 DEF Waiting, Flying, ToSet, Last
  <2>6. Waiting' = Waiting
    BY <1>2 DEF Enqueue, Waiting, Flying
  <2>. QED BY <1>2, <2>2, <2>5, <2>6
<1>3. CASE ~(JobId(x) \in {JobId(j) : j \in ToSet(queue)} \/ active = JobId(x))
  <2>1. queue' = Append(queue, x)
    BY <1>3 DEF Enqueue
  <2>2. ToSet(queue') = ToSet(queue) \cup {x}
    BY <1>0, <2>1, SetOfAppend
  <2>. HIDE DEF x
  <2>3. Waiting' = Waiting \cup {x}
    BY <2>2 DEF Waiting, Flying
  <2>. QED BY <2>3 DEF x
<1>. QED BY <1>1, <1>2, <1>3

LEMMA WaitingBus ==
    ASSUME TypeOK, Consume \/ TimerFlush
    PROVE  Waiting' = Waiting
<1>1. CASE Consume
  <2>. DEFINE full == Append(buffer, Head(queue))
  <2>1. queue \in Seq(Events) /\ queue # <<>> /\ buffer \in Seq(Events)
    BY <1>1 DEF Consume, TypeOK, BusTypes
  <2>2. Head(queue) \in Events
    BY <2>1, HeadTail
  <2>3. full \in Seq(Events) /\ full # <<>>
    BY <2>1, <2>2, AppendProperties, EmptySeq
  <2>4. ToSet(queue) = {Head(queue)} \cup ToSet(queue') /\ ToSet(full) = ToSet(buffer) \cup {Head(queue)}
    BY <1>1, <2>1, <2>2, SetOfTail, SetOfAppend DEF Consume
  <2>. HIDE DEF full
  <2>5. ToSet(buffer') \cup Flying' = ToSet(full) \cup Flying
    <3>1. CASE buffer' = full /\ UNCHANGED flight
      BY <3>1 DEF Flying
    <3>2. CASE \E b \in Flights : Take(full, b, TRUE)
      BY <2>3, <3>2, FlyingTakes
    <3>. QED BY <1>1, <3>1, <3>2 DEF Consume, full
  <2>. QED BY <2>4, <2>5 DEF Waiting
<1>2. CASE TimerFlush
  <2>1. buffer \in Seq(Events) /\ buffer # <<>>
    BY <1>2 DEF TimerFlush, TypeOK, BusTypes
  <2>2. PICK b \in Flights : Take(buffer, b, FALSE)
    BY <1>2 DEF TimerFlush
  <2>3. Flying' \cup ToSet(buffer') = Flying \cup ToSet(buffer)
    BY <2>1, <2>2, FlyingTakes
  <2>. QED BY <1>2, <2>3 DEF TimerFlush, Waiting
<1>. QED BY <1>1, <1>2

LEMMA WaitingQuiet ==
    ASSUME UNCHANGED <<queue, buffer, flight>>
    PROVE  Waiting' = Waiting
BY DEF Waiting, Flying

(* GitHub's runs end without a sync.completed. *)
LEMMA GitHubQueue ==
    ASSUME TypeOK, Comparable, EndRun
    PROVE  UNCHANGED queue
BY DEF EndRun, SyncCompleted, Comparable, sweepsAbsent

-----------------------------------------------------------------------------
(* Each step keeps the times apart. *)
FromSource(f) == \E e \in Entities : truth[e] # NULL /\ fetched'[f] = Fetched(e)

FromFetcher(e) ==
    \E f \in Fetchers : /\ fetched[f] # NULL /\ fetched[f].entity = e
                        /\ expected'[e] = fetched[f]

DateMove ==
    /\ now' >= now /\ UNCHANGED seen
    /\ \A e \in Entities : truth'[e] \in {NULL, truth[e]}
    /\ \A f \in Fetchers : fetched'[f] \in {NULL, fetched[f]} \/ FromSource(f)
    /\ \A e \in Entities : expected'[e] \in {NULL, expected[e]} \/ FromFetcher(e)
    /\ \A ev \in Waiting' : ev \in Waiting \/ \E f \in Fetchers : fetched[f] # NULL /\ ev = fetched[f]

LEMMA DateSource ==
    ASSUME TypeOK, Source, ~\E e \in Entities, c \in Contents : SourceChanges(e, c)
    PROVE  DateMove
<1>1. PICK e \in Entities : SourceDeletes(e)
  BY DEF Source
<1>2. UNCHANGED <<fetched, expected, queue, buffer, flight, seen>> /\ now' >= now
  BY <1>1 DEF SourceDeletes, syncVars, busVars, histVars, TypeOK, SourceTypes
<1>3. \A a \in Entities : truth'[a] \in {NULL, truth[a]}
  BY <1>1 DEF SourceDeletes, TypeOK, SourceTypes
<1>. QED BY <1>2, <1>3, WaitingQuiet DEF DateMove

LEMMA DateSync ==
    ASSUME TypeOK, BusInv, Comparable, Sync
    PROVE  DateMove
<1>6. UNCHANGED <<truth, seen, buffer, flight>> /\ now' \in {now, now + 1}
  BY DEF Sync, StartRun, EndRun, RunFetches, RefetchFetches, Publish, sourceVars, busVars
<1>0. UNCHANGED <<truth, seen, buffer, flight>> /\ now' >= now
  BY <1>6 DEF TypeOK, SourceTypes
<1>1. CASE StartRun
  <2>1. UNCHANGED <<fetched, expected, queue>>
    BY <1>1 DEF StartRun, busVars, histVars
  <2>. QED BY <1>0, <2>1, WaitingQuiet DEF DateMove
<1>2. CASE EndRun
  <2>1. UNCHANGED <<fetched, expected, queue>>
    BY <1>2, GitHubQueue DEF EndRun
  <2>. QED BY <1>0, <2>1, WaitingQuiet DEF DateMove
<1>3. ASSUME NEW e \in Entities, RunFetches(e) PROVE DateMove
  <2>1. UNCHANGED <<expected, queue>>
    BY <1>3 DEF RunFetches, busVars
  <2>2. \A f \in Fetchers : fetched'[f] \in {NULL, fetched[f]} \/ FromSource(f)
    BY <1>3 DEF RunFetches, FromSource, TypeOK, SyncTypes
  <2>. QED BY <1>0, <2>1, <2>2, WaitingQuiet DEF DateMove
<1>4. ASSUME NEW e \in Entities, RefetchFetches(e) PROVE DateMove
  <2>1. UNCHANGED <<expected, queue>>
    BY <1>4 DEF RefetchFetches, busVars, histVars
  <2>2. \A f \in Fetchers : fetched'[f] \in {NULL, fetched[f]} \/ FromSource(f)
    BY <1>4 DEF RefetchFetches, FromSource, TypeOK, SyncTypes
  <2>. QED BY <1>0, <2>1, <2>2, WaitingQuiet DEF DateMove
<1>5. ASSUME NEW f \in Fetchers, Publish(f) PROVE DateMove
  <2>1. fetched[f] \in NodeEvents /\ fetched[f] # NULL
    BY <1>5 DEF Publish, TypeOK, SyncTypes
  <2>2. \A g \in Fetchers : fetched'[g] \in {NULL, fetched[g]}
    BY <1>5 DEF Publish, TypeOK, SyncTypes
  <2>3. \A e \in Entities : expected'[e] \in {NULL, expected[e]} \/ FromFetcher(e)
    BY <1>5, <2>1 DEF Publish, FromFetcher, TypeOK, GraphTypes, NodeEvents
  <2>4. Waiting' \subseteq Waiting \cup {fetched[f]}
    <3>1. CASE Enqueue(fetched[f])
      BY <1>0, <2>1, <3>1, WaitingPublish
    <3>2. CASE UNCHANGED queue
      BY <1>0, <3>2, WaitingQuiet
    <3>. QED BY <1>5, <3>1, <3>2 DEF Publish
  <2>. QED BY <1>0, <2>1, <2>2, <2>3, <2>4 DEF DateMove
<1>. QED BY <1>1, <1>2, <1>3, <1>4, <1>5 DEF Sync

LEMMA DateProcess ==
    ASSUME TypeOK, NEW b \in Flights, Process(b)
    PROVE  DateMove
<1>1. UNCHANGED <<sourceVars, fetched>>
  BY DEF Process, SkipDuplicate, CheckNew, ReadClaims, WriteNode, Record, WriteFails, Sweep, syncVars
<1>2. \A e \in Entities : expected'[e] \in {NULL, expected[e]}
  BY DEF Process, SkipDuplicate, CheckNew, ReadClaims, WriteNode, Record, WriteFails, Sweep,
         Forget, histVars, TypeOK, GraphTypes
<1>3. Waiting' \subseteq Waiting
  BY WaitingProcess
<1>4. now' >= now
  BY <1>1 DEF sourceVars, TypeOK, SourceTypes
<1>. QED BY <1>1, <1>2, <1>3, <1>4 DEF DateMove, sourceVars

LEMMA DateMoves ==
    ASSUME TypeOK, BusInv, Comparable, [Next]_vars,
           ~\E e \in Entities, c \in Contents : SourceChanges(e, c)
    PROVE  DateMove
<1>1. CASE Consume \/ TimerFlush
  <2>1. UNCHANGED <<sourceVars, fetched, expected>>
    BY <1>1 DEF Consume, TimerFlush, syncVars, histVars
  <2>. QED BY <1>1, <2>1, WaitingBus DEF DateMove, sourceVars, TypeOK, SourceTypes
<1>2. CASE Crash
  <2>1. UNCHANGED <<sourceVars, fetched>> /\ now' >= now
    BY <1>2 DEF Crash, syncVars, sourceVars, TypeOK, SourceTypes
  <2>2. \A e \in Entities : expected'[e] \in {NULL, expected[e]}
    BY <1>2, WaitingCrash
  <2>3. Waiting' \subseteq Waiting
    BY <1>2, WaitingCrash
  <2>. QED BY <2>1, <2>2, <2>3 DEF DateMove, sourceVars
<1>3. CASE Edit \/ ExpireKey \/ UNCHANGED vars
  <2>1. UNCHANGED <<sourceVars, fetched, expected, queue, buffer, flight>>
    BY <1>3 DEF Edit, EditManualClaim, ExpireKey, vars, syncVars, busVars, histVars
  <2>. QED BY <2>1, WaitingQuiet DEF DateMove, sourceVars, TypeOK, SourceTypes
<1>. QED BY <1>1, <1>2, <1>3, DateSource, DateSync, DateProcess DEF Next

LEMMA DateKept ==
    ASSUME TypeOK, [Next]_vars, Comparable, NEW d \in Dates, DateInv(d), DateMove
    PROVE  DateInv(d)'
<1>2. ASSUME NEW e \in Entities, NEW c \in seen[e] PROVE d[e][c] <= now'
  <2>1. d[e][c] \in Nat /\ now \in Nat /\ now' \in Nat /\ d[e][c] <= now /\ now' >= now
    BY <1>2, TypeStep DEF DateInv, DateMove, TypeOK, SourceTypes, Dates
  <2>. QED BY <2>1
<1>3. ASSUME NEW e \in Entities, truth'[e] # NULL
      PROVE  truth'[e].content \in seen'[e] /\ truth'[e].version = d[e][truth'[e].content]
  BY <1>3 DEF DateInv, DateMove, Dated
<1>4. ASSUME NEW ev \in Waiting' PROVE ev \in NodeEvents /\ ev.content \in seen'[ev.entity]
                                       /\ ev.version = d[ev.entity][ev.content]
  BY <1>4 DEF DateInv, DateMove, Dated, TypeOK, SyncTypes
<1>5. ASSUME NEW f \in Fetchers, fetched'[f] # NULL
      PROVE  fetched'[f].content \in seen'[fetched'[f].entity]
             /\ fetched'[f].version = d[fetched'[f].entity][fetched'[f].content]
  <2>1. CASE fetched'[f] = fetched[f]
    BY <1>5, <2>1 DEF DateInv, DateMove, Dated
  <2>2. CASE FromSource(f)
    BY <2>2 DEF DateInv, DateMove, Dated, FromSource, Fetched
  <2>. QED BY <1>5, <2>1, <2>2 DEF DateMove
<1>6. ASSUME NEW e \in Entities, expected'[e] # NULL
      PROVE  /\ expected'[e].entity = e /\ expected'[e].content \in seen'[e]
             /\ expected'[e].version = d[e][expected'[e].content]
  <2>1. CASE expected'[e] = expected[e]
    BY <1>6, <2>1 DEF DateInv, DateMove, Dated
  <2>2. CASE FromFetcher(e)
    BY <2>2 DEF DateInv, DateMove, Dated, FromFetcher
  <2>. QED BY <1>6, <2>1, <2>2 DEF DateMove
<1>7. ASSUME NEW e \in Entities, node'[e] # NULL
      PROVE  node'[e].content \in seen'[e] /\ node'[e].version = d[e][node'[e].content]
  <2>1. CASE Untouched(e)
    BY <1>7, <2>1 DEF DateInv, DateMove, Dated, Untouched
  <2>2. ASSUME NEW b \in Flights, Written(e, b)
        PROVE  node'[e].content \in seen'[e] /\ node'[e].version = d[e][node'[e].content]
    <3>1. Event(b) \in Waiting
      BY <2>2, EventIsFlying DEF Written, At
    <3>. QED BY <2>2, <3>1 DEF DateInv, DateMove, Dated, Written
  <2>. QED BY <2>1, <2>2, NodeMoves
<1>8. \A e \in Entities : \A c, x \in seen'[e] : d[e][x] = d[e][c] => x = c
  BY DEF DateInv, DateMove
<1>. QED BY <1>2, <1>3, <1>4, <1>5, <1>6, <1>7, <1>8 DEF DateInv, DateMove, Dated

(* A source that changes gets a time of its own. *)
LEMMA DateChanges ==
    ASSUME TypeOK, ~Revisits, NEW e \in Entities, NEW c \in Contents, SourceChanges(e, c),
           NEW d \in Dates, DateInv(d), LandInv(d)
    PROVE  \E x \in Dates : DateInv(x)' /\ LandInv(x)'
<1>1. now \in Nat /\ d[e] \in [Contents -> Nat] /\ c \notin seen[e]
  BY DEF SourceChanges, TypeOK, SourceTypes, Dates
<1>2. PICK x \in Dates : x = [d EXCEPT ![e] = [d[e] EXCEPT ![c] = now + 1]]
  <2>1. [d[e] EXCEPT ![c] = now + 1] \in [Contents -> Nat]
    BY <1>1
  <2>2. [d EXCEPT ![e] = [d[e] EXCEPT ![c] = now + 1]] \in Dates
    BY <2>1 DEF Dates
  <2>. QED BY <2>2
<1>3. /\ x[e][c] = now + 1
      /\ \A a \in Entities : \A v \in seen[a] : x[a][v] = d[a][v]
  BY <1>1, <1>2 DEF Dates, TypeOK, SourceTypes
<1>4. /\ now' = now + 1 /\ seen' = [seen EXCEPT ![e] = @ \cup {c}]
      /\ truth' = [truth EXCEPT ![e] = [content |-> c, version |-> now + 1]]
      /\ UNCHANGED <<fetched, queue, buffer, flight, keys, node, expected>>
  BY DEF SourceChanges, syncVars, busVars, histVars
<1>5. \A a \in Entities : seen[a] \subseteq seen'[a] /\ seen'[a] \subseteq seen[a] \cup {c}
                           /\ (a # e => seen'[a] = seen[a])
  BY <1>4 DEF TypeOK, SourceTypes
<1>6. Waiting' = Waiting
  BY <1>4, WaitingQuiet
<1>7. \A a \in Entities : \A v : Dated(a, v, d) =>
          v.content \in seen[a] /\ v.content \in seen'[a] /\ v.version = x[a][v.content]
  BY <1>3, <1>5 DEF Dated
<1>8. DateInv(x)'
  <2>1. ASSUME NEW a \in Entities, NEW v \in seen'[a]
        PROVE  /\ x[a][v] <= now'
               /\ \A w \in seen'[a] : x[a][w] = x[a][v] => w = v
    <3>1. \A w \in seen[a] : x[a][w] = d[a][w] /\ d[a][w] \in Nat /\ d[a][w] <= now
      BY <1>3 DEF DateInv, Dates, TypeOK, SourceTypes
    <3>2. \A w \in seen[a] : x[a][w] < now + 1
      BY <1>1, <3>1
    <3>3. \A w \in seen'[a] : w \in seen[a] \/ (a = e /\ w = c /\ x[a][w] = now + 1)
      BY <1>3, <1>5
    <3>4. x[a][v] <= now'
      BY <1>1, <1>4, <3>1, <3>2, <3>3
    <3>5. ASSUME NEW w \in seen'[a], x[a][w] = x[a][v] PROVE w = v
      BY <1>1, <3>1, <3>2, <3>3, <3>5 DEF DateInv
    <3>. QED BY <3>4, <3>5
  <2>2. ASSUME NEW a \in Entities, truth'[a] # NULL
        PROVE  truth'[a].content \in seen'[a] /\ truth'[a].version = x[a][truth'[a].content]
    <3>1. CASE a = e
      BY <1>3, <1>4, <3>1 DEF TypeOK, SourceTypes
    <3>2. CASE a # e
      BY <1>4, <1>7, <2>2, <3>2 DEF DateInv, TypeOK, SourceTypes
    <3>. QED BY <3>1, <3>2
  <2>3. \A a \in Entities : node'[a] # NULL =>
          node'[a].content \in seen'[a] /\ node'[a].version = x[a][node'[a].content]
    BY <1>4, <1>7 DEF DateInv
  <2>4. \A a \in Entities : expected'[a] # NULL =>
          /\ expected'[a].entity = a
          /\ expected'[a].content \in seen'[a] /\ expected'[a].version = x[a][expected'[a].content]
    BY <1>4, <1>7 DEF DateInv
  <2>5. \A f \in Fetchers : fetched'[f] # NULL =>
          /\ fetched'[f].content \in seen'[fetched'[f].entity]
          /\ fetched'[f].version = x[fetched'[f].entity][fetched'[f].content]
    BY <1>4, <1>7 DEF DateInv, TypeOK, SyncTypes, NodeEvents
  <2>6. ASSUME NEW ev \in Waiting'
        PROVE  /\ ev \in NodeEvents /\ ev.content \in seen'[ev.entity]
               /\ ev.version = x[ev.entity][ev.content]
    <3>1. ev \in NodeEvents /\ Dated(ev.entity, ev, d)
      BY <1>6, <2>6 DEF DateInv
    <3>. QED BY <1>7, <3>1 DEF NodeEvents
  <2>. QED BY <2>1, <2>2, <2>3, <2>4, <2>5, <2>6 DEF DateInv, Dated
<1>9. \A a \in Entities : \A v \in seen[a] : Landed(a, v, d) => Landed(a, v, x)'
  BY <1>3, <1>4 DEF Landed
<1>10. LandInv(x)'
  <2>1. ASSUME NEW a \in Entities, NEW v \in Contents, <<a, v>> \in keys'
        PROVE  v \in seen'[a] /\ Landed(a, v, x)'
    BY <1>4, <1>5, <1>9, <2>1 DEF LandInv
  <2>2. ASSUME NEW b \in Flights, At(b, "record")'
        PROVE  Landed(Event(b).entity, Event(b).content, x)'
    <3>1. At(b, "record") /\ Event(b)' = Event(b)
      BY <1>4, <2>2 DEF At, Event
    <3>2. Event(b) \in Waiting
      BY <3>1, EventIsFlying DEF At
    <3>3. Event(b).entity \in Entities /\ Event(b).content \in seen[Event(b).entity]
      BY <3>2 DEF DateInv, Dated, NodeEvents
    <3>4. Landed(Event(b).entity, Event(b).content, d)
      BY <3>1 DEF LandInv
    <3>5. \A a \in Entities : \A v \in seen[a] :
             a = Event(b).entity /\ v = Event(b).content => Landed(a, v, x)'
      BY <1>9, <3>4
    <3>. QED BY <3>1, <3>3, <3>5
  <2>3. ASSUME NEW a \in Entities, expected'[a] # NULL
        PROVE  \/ Landed(a, expected[a].content, x)'
               \/ \E ev \in Waiting' : JobId(ev) = <<a, expected'[a].content>>
    <3>1. expected[a] # NULL /\ expected'[a] = expected[a] /\ expected[a].content \in seen[a]
      BY <1>4, <2>3 DEF DateInv, Dated
    <3>2. CASE Landed(a, expected[a].content, d)
      <4>1. \A v \in seen[a] : v = expected[a].content => Landed(a, v, x)'
        BY <1>9, <3>2
      <4>. QED BY <3>1, <4>1
    <3>3. CASE \E ev \in Waiting : JobId(ev) = <<a, expected[a].content>>
      BY <1>6, <3>1, <3>3
    <3>. QED BY <3>1, <3>2, <3>3 DEF LandInv
  <2>. QED BY <2>1, <2>2, <2>3 DEF LandInv, JobId
<1>. QED BY <1>2, <1>8, <1>10

(* What landed stays: nothing older is written, and of one time there is one  *)
(* content.                                                                   *)
LEMMA LandedStays ==
    ASSUME TypeOK, Comparable, [Next]_vars, NEW d \in Dates, DateInv(d),
           NEW e \in Entities, NEW c \in seen[e], Landed(e, c, d)
    PROVE  Landed(e, c, d)'
<1>1. CASE Untouched(e)
  BY <1>1 DEF Untouched, Landed
<1>2. ASSUME NEW b \in Flights, Written(e, b) PROVE Landed(e, c, d)'
  <2>. DEFINE ev == Event(b)
  <2>1. ev \in Waiting
    BY <1>2, EventIsFlying DEF Written, At
  <2>2. /\ ev \in NodeEvents /\ ev.entity = e /\ ev.content \in seen[e]
        /\ ev.version = d[e][ev.content]
    BY <1>2, <2>1 DEF DateInv, Dated, Written
  <2>3. node[e] # NULL /\ node[e].version >= d[e][c] /\ ~(node[e].version > ev.version)
    BY <1>2 DEF Landed, Written, Stale
  <2>4. node[e].version \in Nat /\ ev.version \in Nat /\ d[e][c] \in Nat
    BY <2>2, <2>3 DEF TypeOK, GraphTypes, Nodes, NodeEvents, Dates, SourceTypes
  <2>5. ev.version >= d[e][c] /\ (ev.version = d[e][c] => node[e].version = d[e][c])
    BY <2>3, <2>4
  <2>6. ev.version = d[e][c] => ev.content = c
    <3>1. \A w \in seen[e] : d[e][w] = d[e][c] => w = c
      BY DEF DateInv
    <3>. HIDE DEF ev
    <3>. QED BY <2>2, <3>1
  <2>7. node'[e] # NULL /\ node'[e].version = ev.version
        /\ node'[e].conn \in {node[e].conn, ev.content}
    BY <1>2 DEF Written
  <2>. QED BY <2>5, <2>6, <2>7 DEF Landed
<1>. QED BY <1>1, <1>2, NodeMoves

(* A write that is not refused, and one that is, leave the node with the      *)
(* event's content or with something newer.                                   *)
LEMMA WriteLands ==
    ASSUME TypeOK, Comparable, NEW d \in Dates, DateInv(d), NEW b \in Flights, WriteNode(b),
           Stale(Event(b)) \/ ~ClaimsConflict(b)
    PROVE  \A e \in Entities, c \in Contents :
              e = Event(b).entity /\ c = Event(b).content => Landed(e, c, d)'
<1>. DEFINE ev == Event(b)
<1>1. ev \in NodeEvents /\ ev \in Waiting /\ At(b, "write")
  BY BatchTypes, EventIsFlying DEF WriteNode, At
<1>2. ev.entity \in Entities /\ ev.version = d[ev.entity][ev.content] /\ ev.version \in Nat
  BY <1>1 DEF DateInv, Dated, NodeEvents
<1>3. Merged(b) \in Nodes /\ Merged(b) # NULL /\ node'[ev.entity] = Merged(b)
  BY <1>1, <1>2, MergedTypes, GraphAssumption DEF WriteNode, TypeOK, GraphTypes
<1>4. CASE Stale(ev)
  <2>1. Merged(b) = node[ev.entity] /\ node[ev.entity].version > ev.version
    BY <1>4 DEF Merged, Stale
  <2>2. node[ev.entity].version \in Nat
    BY <1>3, <2>1 DEF Nodes
  <2>. QED BY <1>2, <1>3, <2>1, <2>2 DEF Landed
<1>5. CASE ~Stale(ev)
  <2>1. Merged(b).version = ev.version /\ Merged(b).conn = ev.content
    BY <1>5 DEF Merged
  <2>. QED BY <1>2, <1>3, <2>1 DEF Landed
<1>. QED BY <1>4, <1>5

LEMMA RecordOnly ==
    ASSUME TypeOK, [Next]_vars, NEW b \in Flights, At(b, "record")'
    PROVE  \/ At(b, "record") /\ Event(b)' = Event(b)
           \/ /\ WriteNode(b) /\ Event(b)' = Event(b)
              /\ Stale(Event(b)) \/ ~ClaimsConflict(b)
<1>1. flight'[b].pc = "record" /\ flight'[b].events = flight[b].events
          /\ (flight[b].pc # "record" =>
                WriteNode(b) /\ (Stale(Event(b)) \/ ~ClaimsConflict(b)))
  <2>0. flight'[b].pc = "record"
    BY DEF At
  <2>1. CASE UNCHANGED flight
    BY <2>0, <2>1
  <2>2. CASE Consume \/ TimerFlush
    <3>1. ASSUME NEW a \in Flights, NEW s, NEW w, Take(s, a, w)
          PROVE  flight'[b] = flight[b]
      <4>. DEFINE n == IF Len(s) < BatchSize THEN Len(s) ELSE BatchSize
                  taken == [Idle EXCEPT !.events = SubSeq(s, 1, n), !.pc = "check", !.awaited = w]
      <4>1. taken.pc = "check"
        BY DEF Idle
      <4>2. flight' = [flight EXCEPT ![a] = taken]
        BY <3>1 DEF Take
      <4>. HIDE DEF taken
      <4>. QED BY <2>0, <4>1, <4>2 DEF TypeOK, FlightTypes
    <3>2. UNCHANGED flight \/ \E a \in Flights, s \in {buffer, Append(buffer, Head(queue))} :
                                 Take(s, a, TRUE) \/ Take(s, a, FALSE)
      BY <2>2 DEF Consume, TimerFlush
    <3>. QED BY <2>0, <3>1, <3>2
  <2>3. CASE Crash
    BY <2>0, <2>3 DEF Crash, Idle
  <2>4. ASSUME NEW a \in Flights, Process(a), a # b PROVE flight'[b] = flight[b]
    BY <2>4 DEF Process, SkipDuplicate, CheckNew, ReadClaims, WriteNode, Record, WriteFails, Sweep,
                Advance, Goto, TypeOK, FlightTypes
  <2>5. CASE Process(b)
    <3>1. ASSUME NEW f, Advance(b, f) PROVE FALSE
      <4>. DEFINE rest == [Idle EXCEPT !.events = Tail(flight[b].events), !.pc = "check",
                             !.awaited = flight[b].awaited, !.failed = f]
      <4>1. rest.pc = "check" /\ Idle.pc = "idle"
        BY DEF Idle
      <4>. HIDE DEF rest
      <4>2. flight'[b] = IF Len(flight[b].events) = 1 THEN Idle ELSE rest
        BY <3>1 DEF Advance, rest, TypeOK, FlightTypes
      <4>. QED BY <2>0, <4>1, <4>2
    <3>2. flight[b] \in Batches
      BY DEF TypeOK, FlightTypes
    <3>3. ASSUME CheckNew(b) \/ ReadClaims(b) PROVE FALSE
      <4>1. flight'[b].pc \in {"read", "write"}
        BY <3>2, <3>3 DEF CheckNew, ReadClaims, Goto, TypeOK, FlightTypes, Batches
      <4>. QED BY <2>0, <4>1
    <3>4. WriteNode(b)
      BY <2>5, <3>1, <3>3 DEF Process, SkipDuplicate, Record, WriteFails, Sweep
    <3>5. Stale(Event(b)) \/ ~ClaimsConflict(b)
      <4>1. ASSUME ~(Stale(Event(b)) \/ ~ClaimsConflict(b)) PROVE FALSE
        <5>1. flight' = [flight EXCEPT ![b].pc = "read", ![b].attempt = @ + 1]
          BY <3>1, <3>4, <4>1 DEF WriteNode
        <5>2. flight'[b].pc = "read"
          BY <3>2, <5>1 DEF TypeOK, FlightTypes, Batches
        <5>. QED BY <2>0, <5>2
      <4>. QED BY <4>1
    <3>6. flight'[b].events = flight[b].events
      <4>. DEFINE x == [flight[b] EXCEPT !.pc = "record", !.written = ~Stale(Event(b))]
      <4>1. flight' = [flight EXCEPT ![b] = x]
        BY <3>4, <3>5 DEF WriteNode
      <4>2. x.events = flight[b].events
        BY <3>2 DEF Batches
      <4>. HIDE DEF x
      <4>. QED BY <4>1, <4>2 DEF TypeOK, FlightTypes
    <3>. QED BY <2>0, <3>4, <3>5, <3>6
  <2>6. Source \/ Sync \/ Edit \/ ExpireKey \/ UNCHANGED vars => UNCHANGED flight
    BY DEF Source, SourceDeletes, SourceChanges, Sync, StartRun, EndRun, RunFetches,
           RefetchFetches, Publish, ExpireKey, Edit, EditManualClaim, vars
  <2>. QED BY <2>0, <2>1, <2>2, <2>3, <2>4, <2>5, <2>6 DEF Next
<1>2. Event(b)' = Event(b)
  BY <1>1 DEF Event
<1>. QED BY <1>1, <1>2 DEF At

LEMMA KeysLand ==
    ASSUME TypeOK, Comparable, [Next]_vars, NEW d \in Dates, DateInv(d), LandInv(d), UNCHANGED seen
    PROVE  \A e \in Entities, c \in Contents :
              <<e, c>> \in keys' => c \in seen'[e] /\ Landed(e, c, d)'
<1>. SUFFICES ASSUME NEW e \in Entities, NEW c \in Contents, <<e, c>> \in keys'
              PROVE  c \in seen[e] /\ Landed(e, c, d)
  BY LandedStays
<1>1. CASE <<e, c>> \in keys
  BY <1>1 DEF LandInv
<1>2. CASE <<e, c>> \notin keys
  <2>1. PICK b \in Flights : Record(b) /\ JobId(Event(b)) = <<e, c>>
    <3>1. ASSUME UNCHANGED keys \/ keys' \subseteq keys PROVE FALSE
      BY <1>2, <3>1
    <3>2. ExpireKey => keys' \subseteq keys
      BY DEF ExpireKey
    <3>3. Source \/ Sync \/ Consume \/ TimerFlush \/ Edit \/ Crash \/ UNCHANGED vars => UNCHANGED keys
      BY DEF Source, SourceDeletes, SourceChanges, Sync, StartRun, EndRun, RunFetches,
             RefetchFetches, Publish, Consume, TimerFlush, Edit, EditManualClaim, Crash, vars
    <3>4. ASSUME NEW b \in Flights, Process(b), ~Record(b) PROVE UNCHANGED keys
      BY <3>4 DEF Process, SkipDuplicate, CheckNew, ReadClaims, WriteNode, WriteFails, Sweep
    <3>5. PICK b \in Flights : Record(b)
      BY <3>1, <3>2, <3>3, <3>4 DEF Next
    <3>6. keys' = keys \cup {JobId(Event(b))}
      BY <3>5 DEF Record
    <3>. QED BY <1>2, <3>5, <3>6
  <2>2. At(b, "record") /\ Event(b) \in Waiting
    BY <2>1, EventIsFlying DEF Record, At
  <2>3. Event(b) \in NodeEvents /\ Dated(Event(b).entity, Event(b), d)
    BY <2>2 DEF DateInv
  <2>4. e = Event(b).entity /\ c = Event(b).content
    BY <2>1, <2>3 DEF JobId, NodeEvents
  <2>. QED BY <2>2, <2>3, <2>4 DEF LandInv, Dated
<1>. QED BY <1>1, <1>2

LEMMA RecordsLand ==
    ASSUME TypeOK, Comparable, [Next]_vars, NEW d \in Dates, DateInv(d), LandInv(d),
           NEW b \in Flights, At(b, "record")'
    PROVE  Landed(Event(b).entity, Event(b).content, d)'
<1>. DEFINE e == Event(b).entity
            c == Event(b).content
<1>1. Event(b)' = Event(b) /\ Event(b) \in Waiting
  BY RecordOnly, EventIsFlying DEF WriteNode, At
<1>2. Event(b) \in NodeEvents /\ Dated(e, Event(b), d)
  BY <1>1 DEF DateInv
<1>3. e \in Entities /\ c \in Contents /\ c \in seen[e]
  BY <1>2 DEF NodeEvents, Dated
<1>4. \A x \in Entities : \A y \in seen[x] : x = e /\ y = c => Landed(x, y, d)'
  <2>1. CASE At(b, "record")
    BY <2>1, LandedStays DEF LandInv
  <2>2. CASE WriteNode(b) /\ (Stale(Event(b)) \/ ~ClaimsConflict(b))
    BY <1>3, <2>2, WriteLands
  <2>. QED BY <2>1, <2>2, RecordOnly
<1>. QED BY <1>1, <1>3, <1>4

LEMMA ExpectedLands ==
    ASSUME TypeOK, BusInv, Comparable, [Next]_vars, NEW d \in Dates, DateInv(d), LandInv(d),
           DateMove, NEW e \in Entities, expected'[e] # NULL
    PROVE  \/ \A c \in seen[e] : c = expected'[e].content => Landed(e, c, d)'
           \/ \E ev \in Waiting' : JobId(ev) = <<e, expected'[e].content>>
<1>1. \A ev \in Waiting : ev \in NodeEvents /\ JobId(ev) = <<ev.entity, ev.content>>
  BY DEF DateInv, JobId, NodeEvents
<1>2. CASE expected'[e] # expected[e]
  <2>1. FromFetcher(e)
    BY <1>2 DEF DateMove
  <2>2. PICK f \in Fetchers : Publish(f) /\ Enqueue(fetched[f]) /\ expected'[e] = fetched[f]
    <3>1. Source \/ Consume \/ TimerFlush \/ Edit \/ ExpireKey \/ UNCHANGED vars => UNCHANGED expected
      BY DEF Source, SourceDeletes, SourceChanges, Consume, TimerFlush, Edit, EditManualClaim,
             ExpireKey, vars, histVars
    <3>2. StartRun \/ EndRun \/ (\E a \in Entities : RunFetches(a) \/ RefetchFetches(a)) => UNCHANGED expected
      BY DEF StartRun, EndRun, RunFetches, RefetchFetches, histVars
    <3>3. ASSUME NEW b \in Flights, Process(b) PROVE expected'[e] \in {NULL, expected[e]}
      BY <3>3 DEF Process, SkipDuplicate, CheckNew, ReadClaims, WriteNode, Record, WriteFails,
                  Sweep, Forget, histVars, TypeOK, GraphTypes
    <3>4. Crash => expected'[e] \in {NULL, expected[e]}
      BY WaitingCrash
    <3>5. PICK f \in Fetchers : Publish(f)
      BY <1>2, <3>1, <3>2, <3>3, <3>4 DEF Next, Sync
    <3>6. Enqueue(fetched[f]) /\ expected'[e] = fetched[f]
      BY <1>2, <3>5 DEF Publish, TypeOK, GraphTypes
    <3>. QED BY <3>5, <3>6
  <2>3. fetched[f] \in NodeEvents
    BY <2>2 DEF Publish, TypeOK, SyncTypes
  <2>4. \E ev \in Waiting' : JobId(ev) = JobId(fetched[f])
    BY <2>2, <2>3, WaitingPublish DEF Publish
  <2>5. fetched[f].entity = e
    <3>1. expected' = [expected EXCEPT ![fetched[f].entity] = fetched[f]]
      BY <1>2, <2>2 DEF Publish
    <3>. QED BY <1>2, <2>3, <3>1 DEF TypeOK, GraphTypes, NodeEvents
  <2>. QED BY <2>2, <2>3, <2>4, <2>5 DEF JobId, NodeEvents
<1>3. CASE expected'[e] = expected[e]
  <2>. DEFINE x == expected[e].content
  <2>1. x \in seen[e]
    BY <1>3 DEF DateInv, Dated
  <2>2. CASE Landed(e, x, d)
    BY <1>3, <2>1, <2>2, LandedStays
  <2>3. ASSUME NEW ev \in Waiting, JobId(ev) = <<e, x>>
        PROVE  \/ \A c \in seen[e] : c = x => Landed(e, c, d)'
               \/ \E w \in Waiting' : JobId(w) = <<e, x>>
    <3>1. ev \in NodeEvents /\ ev.entity = e /\ ev.content = x
      BY <1>1, <2>3
    <3>2. CASE ev \in Waiting'
      BY <2>3, <3>2
    <3>3. CASE Crash
      <4>1. PICK w \in Waiting' : w.kind = "node" /\ w.entity = e /\ w.content = x
        BY <3>3, WaitingCrash
      <4>2. JobId(w) = <<e, x>>
        BY <4>1 DEF JobId
      <4>. QED BY <4>2
    <3>4. CASE ev \notin Waiting' /\ ~Crash
      <4>1. PICK b \in Flights : ev = Event(b) /\ Finished(b)
        <5>1. Source \/ StartRun \/ (\E a \in Entities : RunFetches(a) \/ RefetchFetches(a))
                \/ Edit \/ ExpireKey \/ UNCHANGED vars => UNCHANGED <<queue, buffer, flight>>
          BY DEF Source, SourceDeletes, SourceChanges, StartRun, RunFetches, RefetchFetches,
                 Edit, EditManualClaim, ExpireKey, vars, busVars
        <5>2. EndRun => UNCHANGED <<queue, buffer, flight>>
          BY GitHubQueue DEF EndRun
        <5>3. ASSUME NEW f \in Fetchers, Publish(f) PROVE ev \in Waiting'
          <6>1. fetched[f] \in NodeEvents /\ UNCHANGED <<buffer, flight>>
            BY <5>3 DEF Publish, TypeOK, SyncTypes
          <6>2. Enqueue(fetched[f]) \/ UNCHANGED queue
            BY <5>3 DEF Publish
          <6>. QED BY <6>1, <6>2, WaitingPublish, WaitingQuiet
        <5>. QED BY <3>4, <5>1, <5>2, <5>3, WaitingQuiet, WaitingBus, WaitingProcess DEF Next, Sync
      <4>2. Event(b).kind = "node"
        BY <3>1, <4>1 DEF NodeEvents
      <4>3. ~Forget(Event(b))
        BY <1>3, <3>1, <4>1 DEF Forget, TypeOK, GraphTypes
      <4>4. Landed(e, x, d)
        <5>1. CASE SkipDuplicate(b)
          BY <2>3, <3>1, <4>1, <5>1 DEF SkipDuplicate, LandInv, NodeEvents
        <5>2. CASE Record(b)
          BY <3>1, <4>1, <5>2 DEF Record, LandInv
        <5>. QED BY <4>1, <4>2, <4>3, <5>1, <5>2 DEF Finished
      <4>. QED BY <2>1, <4>4, LandedStays
    <3>. QED BY <3>2, <3>3, <3>4
  <2>. QED BY <1>3, <2>2, <2>3 DEF LandInv
<1>. QED BY <1>2, <1>3

LEMMA LandKept ==
    ASSUME TypeOK, BusInv, Comparable, [Next]_vars, NEW d \in Dates, DateInv(d), LandInv(d),
           ~\E e \in Entities, c \in Contents : SourceChanges(e, c)
    PROVE  DateInv(d)' /\ LandInv(d)'
<1>1. DateMove /\ DateInv(d)'
  BY DateMoves, DateKept
<1>2. UNCHANGED seen
  BY <1>1 DEF DateMove
<1>3. \A e \in Entities, c \in Contents : <<e, c>> \in keys' => c \in seen'[e] /\ Landed(e, c, d)'
  BY <1>2, KeysLand
<1>4. \A b \in Flights : At(b, "record")' => Landed(Event(b).entity, Event(b).content, d)'
  BY RecordsLand
<1>5. ASSUME NEW e \in Entities, expected'[e] # NULL
      PROVE  \/ Landed(e, expected[e].content, d)'
             \/ \E ev \in Waiting' : JobId(ev) = <<e, expected'[e].content>>
  <2>1. expected'[e].content \in seen[e]
    BY <1>1, <1>2, <1>5 DEF DateInv, Dated
  <2>. QED BY <1>1, <1>5, <2>1, ExpectedLands
<1>6. LandInv(d)'
  BY <1>3, <1>4, <1>5 DEF LandInv, JobId
<1>. QED BY <1>1, <1>6

WriterInv ==
    /\ TypeOK /\ BusInv
    /\ Comparable => \E d \in Dates : DateInv(d) /\ LandInv(d)

LEMMA WriterInit == Init => WriterInv
<1>. SUFFICES ASSUME Init PROVE WriterInv
  OBVIOUS
<1>1. BusInv
  BY GraphAssumption, EmptySeq DEF Init, BusInv
<1>2. Waiting = {}
  BY SetOfNone DEF Init, Waiting, Flying, Idle
<1>3. PICK d \in Dates : d = [e \in Entities |-> [c \in Contents |-> 1]]
  BY DEF Dates
<1>4. \A e \in Entities : \A c \in seen[e] : c \in Contents /\ d[e][c] = 1 /\ c = truth[e].content
  BY <1>3 DEF Init
<1>5. DateInv(d)
  <2>1. \A e \in Entities : Dated(e, truth[e], d)
    BY <1>3 DEF Init, Dated
  <2>2. \A e \in Entities : node[e] = NULL /\ expected[e] = NULL
    BY DEF Init
  <2>3. \A f \in Fetchers : fetched[f] = NULL
    BY DEF Init
  <2>4. \A e \in Entities : \A c \in seen[e] : d[e][c] <= now
    BY <1>4 DEF Init
  <2>. QED BY <1>2, <1>4, <2>1, <2>2, <2>3, <2>4 DEF DateInv
<1>6. LandInv(d)
  BY DEF Init, LandInv, At, Idle
<1>. QED BY <1>1, <1>5, <1>6, TypeInit DEF WriterInv

LEMMA WriterStep == ~Revisits /\ WriterInv /\ [Next]_vars => WriterInv'
<1>. SUFFICES ASSUME ~Revisits, WriterInv, [Next]_vars PROVE WriterInv'
  OBVIOUS
<1>1. TypeOK' /\ BusInv'
  BY TypeStep, BusStep DEF WriterInv
<1>2. kind' = kind
  BY DEF Next, Source, SourceDeletes, SourceChanges, Sync, StartRun, EndRun, RunFetches,
         RefetchFetches, Publish, Consume, TimerFlush, Edit, EditManualClaim, ExpireKey, Crash, Process,
         SkipDuplicate, CheckNew, ReadClaims, WriteNode, Record, WriteFails, Sweep, vars, sourceVars
<1>3. ASSUME Comparable' PROVE (\E d \in Dates : DateInv(d) /\ LandInv(d))'
  <2>1. Comparable
    BY <1>2, <1>3 DEF Comparable
  <2>2. PICK d \in Dates : DateInv(d) /\ LandInv(d)
    BY <2>1 DEF WriterInv
  <2>3. CASE \E e \in Entities, c \in Contents : SourceChanges(e, c)
    <3>1. \E x \in Dates : DateInv(x)' /\ LandInv(x)'
      BY <2>2, <2>3, DateChanges DEF WriterInv
    <3>. QED BY <3>1 DEF Dates
  <2>4. CASE ~\E e \in Entities, c \in Contents : SourceChanges(e, c)
    <3>1. DateInv(d)' /\ LandInv(d)'
      BY <2>1, <2>2, <2>4, LandKept DEF WriterInv
    <3>. QED BY <3>1 DEF Dates
  <2>. QED BY <2>3, <2>4
<1>. QED BY <1>1, <1>3 DEF WriterInv

(* When everything published has been worked off, the graph holds, of every   *)
(* entity, the newest content published or something newer, with the claims   *)
(* of that content: whatever the order of the flushes, the failures and the   *)
(* crashes.  The idempotency key and BullMQ's job id are the content without  *)
(* its version, so this is true of sources that do not return to an earlier   *)
(* content while the key lives (~Revisits).                                   *)
THEOREM NewestLands == ~Revisits /\ Spec => []NewestContentLands
<1>1. WriterInv => NewestContentLands
  <2>. SUFFICES ASSUME WriterInv, Quiet, Comparable, NEW e \in Entities, expected[e] # NULL
                PROVE  /\ node[e] # NULL
                       /\ node[e].version >= expected[e].version
                       /\ node[e].version = expected[e].version => node[e].conn = expected[e].content
    BY DEF NewestContentLands
  <2>1. Waiting = {}
    BY SetOfNone DEF Quiet, Waiting, Flying, Idle
  <2>2. PICK d \in Dates : DateInv(d) /\ LandInv(d)
    BY DEF WriterInv
  <2>3. Landed(e, expected[e].content, d)
    BY <2>1, <2>2 DEF LandInv
  <2>4. expected[e].version = d[e][expected[e].content]
    BY <2>2 DEF DateInv, Dated
  <2>. QED BY <2>3, <2>4 DEF Landed
<1>2. ASSUME ~Revisits PROVE Spec => []NewestContentLands
  <2>1. WriterInv /\ [Next]_vars => WriterInv'
    BY <1>2, WriterStep
  <2>. QED BY <1>1, <2>1, WriterInit, PTL DEF Spec
<1>. QED BY <1>2
=============================================================================
