------------------------------ MODULE Onboarding -----------------------------
(***************************************************************************)
(* The local-development onboarding of web-ui: the dialog each browser     *)
(* opens on an unpersonalised checkout (onboarding-dialog, -trigger), the  *)
(* routes of the Next server that write the identity into                  *)
(* shipit.config.local.yaml and spawn the probe and the seed (dev-user,    *)
(* seed), and the seed script.  The seed is a process of its own: it       *)
(* outlives the pnpm that the route's timer kills, the answer, the dialog, *)
(* and may run beside another one.                                         *)
(***************************************************************************)
EXTENDS Platform

CONSTANTS
    Visitors,       \* browsers
    Demo,           \* what the seed writes, in its order: <<"node", n>>, <<"edge", m, n>>
    Seeds,          \* bound: seed processes that are ever started
    BothWrite       \* whether the api-server may write the file between the
                    \* route's reading and renaming it

(* The script writes every node before the edges between them. *)
ASSUME OnboardingAssumption ==
    /\ BothWrite \in BOOLEAN /\ NULL \notin Visitors
    /\ Len(Demo) \in Nat /\ DOMAIN Demo = 1 .. Len(Demo)
    /\ \A i \in DOMAIN Demo : Demo[i][1] = "edge" =>
          {<<"node", Demo[i][2]>>, <<"node", Demo[i][3]>>} \subseteq {Demo[j] : j \in 1 .. i - 1}

VARIABLES
    config,     \* shipit.config.local.yaml: identity, instances, or NULL if missing
    readonly,   \* whether the directory refuses the temporary file
    writing,    \* the dev-user request being handled: its browser and what it read
    bundle,     \* the identity the running servers were built with
    neo4j,      \* whether Neo4j answers
    graph,      \* what is in the graph: items of Demo, and Other for the rest
    seedRuns,   \* per seed process: whom it answers, how far it is, whether it timed out
    dialog,     \* per browser: the onboarding dialog
    done,       \* per browser: shipit:onboarding-complete
    kept        \* what was reported as done: "saved", "loaded", "instances" (history)

onboardingVars == <<config, readonly, writing, bundle, neo4j, graph, seedRuns, dialog, done, kept>>

Closed ==
    [open |-> FALSE, at |-> "identity", filled |-> {}, wants |-> TRUE, status |-> "unknown",
     asked |-> NULL, saving |-> "idle", failed |-> NULL]
Other == <<"other">>
NoSeed == [for |-> NULL, next |-> 0, late |-> FALSE]

(* Whether a dialog is to open: the devUser of the bundle is the example's *)
(* and this browser has not completed the onboarding.                      *)
Offered(v) == bundle = NULL /\ ~done[v]
Opened(v) == [Closed EXCEPT !.open = Offered(v), !.asked = IF Offered(v) THEN "asked" ELSE NULL]

OnboardingInit ==
    /\ config = [identity |-> NULL, instances |-> FALSE] /\ readonly = FALSE
    /\ writing = NULL /\ bundle = NULL /\ neo4j = TRUE /\ graph = {} /\ kept = {}
    /\ seedRuns = [s \in Seeds |-> NoSeed] /\ done = [v \in Visitors |-> FALSE]
    /\ dialog = [v \in Visitors |-> Closed]

-----------------------------------------------------------------------------
(* The checkout, its services and the api-server.  Nobody removes the file *)
(* once something was saved in it.                                         *)
Checkout(file, ro) ==
    /\ Op /\ config' = file /\ readonly' = ro /\ writing = NULL
    /\ UNCHANGED <<writing, bundle, neo4j, graph, seedRuns, dialog, done, kept>>
FileGoes == config # NULL /\ Checkout(NULL, readonly) /\ kept \cap {"saved", "instances"} = {}
DirectoryLocks == ~readonly /\ Checkout(config, TRUE)

Infra(up, has) ==
    /\ Op /\ neo4j' = up /\ graph' = has
    /\ UNCHANGED <<config, readonly, writing, bundle, seedRuns, dialog, done, kept>>
Neo4jGoes == neo4j /\ Infra(FALSE, graph)
Neo4jComes == ~neo4j /\ Infra(TRUE, graph)
SyncWrites == neo4j /\ Other \notin graph /\ Infra(TRUE, graph \cup {Other})

(* The api-server saves a connector: it keeps the other keys of the file.  *)
InstancesSaved ==
    /\ Op /\ config # NULL /\ ~config.instances /\ ~readonly
    /\ writing = NULL \/ BothWrite
    /\ config' = [config EXCEPT !.instances = TRUE] /\ kept' = kept \cup {"instances"}
    /\ UNCHANGED <<readonly, writing, bundle, neo4j, graph, seedRuns, dialog, done>>

-----------------------------------------------------------------------------
(* The dialog.                                                             *)
Only(v, d) ==
    /\ dialog' = [dialog EXCEPT ![v] = d]
    /\ UNCHANGED <<config, readonly, writing, bundle, neo4j, graph, seedRuns, kept>>

(* A page that is loaded again forgets the dialog; what it asked for goes  *)
(* on without it.                                                          *)
LoadPage(v) ==
    /\ Op /\ Only(v, Opened(v)) /\ UNCHANGED done

StepAfter == [identity |-> "profile", profile |-> "seed", seed |-> "review"]
StepBefore == [profile |-> "identity", seed |-> "profile", review |-> "seed"]

FillIn(v) ==
    /\ NoOp /\ dialog[v].open /\ dialog[v].at \in {"identity", "profile"}
    /\ dialog[v].at \notin dialog[v].filled
    /\ Only(v, [dialog[v] EXCEPT !.filled = @ \cup {dialog[v].at}]) /\ UNCHANGED done
WantsSeed(v) ==
    /\ Op /\ dialog[v].open /\ dialog[v].at = "seed" /\ dialog[v].status = "empty"
    /\ Only(v, [dialog[v] EXCEPT !.wants = ~@]) /\ UNCHANGED done
StepForward(v) ==
    /\ NoOp /\ dialog[v].open /\ dialog[v].at # "review"
    /\ dialog[v].at \in {"identity", "profile"} => dialog[v].at \in dialog[v].filled
    /\ Only(v, [dialog[v] EXCEPT !.at = StepAfter[@]]) /\ UNCHANGED done
StepBackward(v) ==
    /\ Op /\ dialog[v].open /\ dialog[v].at # "identity"
    /\ Only(v, [dialog[v] EXCEPT !.at = StepBefore[@]]) /\ UNCHANGED done

(* handleCancel(), of the button and, unless it is saving, of the overlay. *)
(* A handleComplete() that is waiting is not stopped.                      *)
DontShowAgain(v) ==
    /\ Op /\ dialog[v].open
    /\ done' = [done EXCEPT ![v] = TRUE]
    /\ Only(v, [dialog[v] EXCEPT !.open = FALSE, !.asked = NULL])
(* An identity that could not be saved is shown to be pasted.              *)
PastedByHand(v) ==
    /\ dialog[v].failed = "identity" /\ dialog[v].at = "review"
    /\ Op /\ dialog[v].open
    /\ done' = [done EXCEPT ![v] = TRUE]
    /\ Only(v, [dialog[v] EXCEPT !.open = FALSE, !.asked = NULL, !.failed = NULL])

(* has-graph-data counts in one query, or cannot be reached within its     *)
(* time; the answer is dropped once the dialog was closed.                 *)
GraphStatus ==
    IF ~neo4j THEN "unreachable" ELSE IF graph = {} THEN "empty" ELSE "has-data"
ProbeGraph(v) ==
    /\ NoOp /\ dialog[v].asked = "asked"
    /\ \E status \in {GraphStatus, "unreachable"} :
          Only(v, [dialog[v] EXCEPT !.asked = status])
    /\ UNCHANGED done
StatusLands(v) ==
    /\ NoOp /\ dialog[v].asked \notin {NULL, "asked"}
    /\ Only(v, [dialog[v] EXCEPT !.status = dialog[v].asked, !.asked = NULL]) /\ UNCHANGED done

-----------------------------------------------------------------------------
(* handleComplete(): the identity first.                                   *)
SaveIdentity(v) ==
    /\ Op /\ dialog[v].open /\ dialog[v].at = "review" /\ dialog[v].saving = "idle"
    /\ Only(v, [dialog[v] EXCEPT !.saving = "identity", !.failed = NULL]) /\ UNCHANGED done

(* Both steps of the dialog are filled, so the route finds nothing wrong   *)
(* with the payload; it handles one request at a time.                     *)
WriteTemp(v) ==
    /\ NoOp /\ dialog[v].saving = "identity" /\ writing = NULL
    /\ config # NULL /\ ~readonly
    /\ writing' = [by |-> v, read |-> config]
    /\ UNCHANGED <<config, readonly, bundle, neo4j, graph, seedRuns, dialog, done, kept>>

(* An answer that is an error, or none: Save is there again, and the seed  *)
(* step as it was.                                                         *)
IdentityFails(v) ==
    /\ NoOp /\ dialog[v].saving = "identity" /\ writing = NULL
    /\ config = NULL \/ readonly
    /\ Only(v, [dialog[v] EXCEPT !.saving = "idle", !.failed = "identity"]) /\ UNCHANGED done

(* The devUser keys are set in what was read, and the file is renamed over *)
(* the old one.  A browser that still waits marks the onboarding complete  *)
(* and goes on to the seed if its probe had found the graph empty.         *)
WillSeed(v) == dialog[v].wants /\ dialog[v].status = "empty"

(* Faulty variant of Renamed: the file holds the identity alone. *)
RenamedAlone(v) == [identity |-> v, instances |-> FALSE]
Renamed(v) == [writing.read EXCEPT !.identity = v]

Rename ==
    /\ NoOp /\ writing # NULL
    /\ config' = Renamed(writing.by) /\ writing' = NULL
    /\ LET v == writing.by
           waits == dialog[v].saving = "identity"
       IN  /\ done' = IF waits THEN [done EXCEPT ![v] = TRUE] ELSE done
           /\ kept' = IF waits THEN kept \cup {"saved"} ELSE kept
           /\ dialog' = IF ~waits THEN dialog
                        ELSE [dialog EXCEPT
                            ![v] = IF WillSeed(v) THEN [@ EXCEPT !.saving = "seed"]
                                   ELSE [@ EXCEPT !.saving = "idle", !.open = FALSE, !.asked = NULL]]
    /\ UNCHANGED <<readonly, bundle, neo4j, graph, seedRuns>>

-----------------------------------------------------------------------------
(* POST /api/onboarding/seed spawns a seed of its own.                     *)
SpawnSeed(v) ==
    /\ NoOp /\ dialog[v].saving = "seed" /\ writing = NULL
    /\ \A s \in Seeds : seedRuns[s].for # v
    /\ \E s \in Seeds :
          /\ seedRuns[s] = NoSeed
          /\ seedRuns' = [seedRuns EXCEPT ![s] = [for |-> v, next |-> 1, late |-> FALSE]]
    /\ UNCHANGED <<config, readonly, writing, bundle, neo4j, graph, dialog, done, kept>>

(* A node is MERGEd; an edge whose ends are not there matches nothing.     *)
Written(item) ==
    IF item[1] = "edge" /\ ~{<<"node", item[2]>>, <<"node", item[3]>>} \subseteq graph
    THEN graph ELSE graph \cup {item}

SeedWrites(s) ==
    /\ NoOp /\ seedRuns[s].next \in DOMAIN Demo /\ neo4j
    /\ graph' = Written(Demo[seedRuns[s].next])
    /\ seedRuns' = [seedRuns EXCEPT ![s].next = @ + 1]
    /\ UNCHANGED <<config, readonly, writing, bundle, neo4j, dialog, done, kept>>

(* The timer kills pnpm; the route answers when the pipes of the script    *)
(* close, which is when the script ends.                                   *)
SeedTimesOut(s) ==
    /\ Op /\ seedRuns[s].next > 0 /\ ~seedRuns[s].late /\ seedRuns[s].for # NULL
    /\ seedRuns' = [seedRuns EXCEPT ![s].late = TRUE]
    /\ UNCHANGED <<config, readonly, writing, bundle, neo4j, graph, dialog, done, kept>>

SeedAnswers(s, ok) ==
    /\ seedRuns' = [seedRuns EXCEPT ![s] = NoSeed]
    /\ LET v == seedRuns[s].for
           waits == v # NULL /\ dialog[v].saving = "seed"
       IN  /\ kept' = IF waits /\ ok THEN kept \cup {"loaded"} ELSE kept
           /\ dialog' = IF ~waits THEN dialog
                        ELSE [dialog EXCEPT
                            ![v] = IF ok THEN [@ EXCEPT !.saving = "idle", !.open = FALSE, !.asked = NULL]
                                   ELSE [@ EXCEPT !.saving = "idle", !.failed = "seed"]]
    /\ UNCHANGED <<config, readonly, writing, bundle, neo4j, graph, done>>

SeedEnds(s) == NoOp /\ seedRuns[s].next > Len(Demo) /\ SeedAnswers(s, ~seedRuns[s].late)
SeedFails(s) == NoOp /\ seedRuns[s].next \in DOMAIN Demo /\ ~neo4j /\ SeedAnswers(s, FALSE)

(* The connection of a browser breaks: handleComplete() gives up, and what *)
(* it had asked for goes on for nobody.                                    *)
ConnectionBreaks(v) ==
    /\ Op /\ dialog[v].saving # "idle"
    /\ dialog' = [dialog EXCEPT ![v].saving = "idle", ![v].failed = dialog[v].saving]
    /\ seedRuns' = [s \in Seeds |-> IF seedRuns[s].for = v THEN [seedRuns[s] EXCEPT !.for = NULL]
                                   ELSE seedRuns[s]]
    /\ UNCHANGED <<config, readonly, writing, bundle, neo4j, graph, done, kept>>

(* The dev servers are stopped and started: a request that was being       *)
(* handled is gone, with what it had written beside the file; a seed may   *)
(* go on.                                                                  *)
ServersRestart ==
    /\ Op /\ writing' = NULL
    /\ bundle' = IF config = NULL THEN NULL ELSE config.identity
    /\ \E dies \in BOOLEAN :
          seedRuns' = [s \in Seeds |-> IF dies THEN NoSeed ELSE [seedRuns[s] EXCEPT !.for = NULL]]
    /\ dialog' = [v \in Visitors |->
          IF dialog[v].saving = "idle" THEN dialog[v]
          ELSE [dialog[v] EXCEPT !.saving = "idle", !.failed = dialog[v].saving]]
    /\ UNCHANGED <<config, readonly, neo4j, graph, done, kept>>

OnboardingNext ==
    \/ FileGoes \/ DirectoryLocks \/ Neo4jGoes \/ Neo4jComes \/ SyncWrites \/ InstancesSaved
    \/ Rename \/ ServersRestart
    \/ \E v \in Visitors :
          \/ LoadPage(v) \/ FillIn(v) \/ WantsSeed(v) \/ StepForward(v) \/ StepBackward(v)
          \/ DontShowAgain(v) \/ PastedByHand(v) \/ ProbeGraph(v) \/ StatusLands(v)
          \/ SaveIdentity(v) \/ WriteTemp(v) \/ IdentityFails(v) \/ SpawnSeed(v) \/ ConnectionBreaks(v)
    \/ \E s \in Seeds : SeedWrites(s) \/ SeedTimesOut(s) \/ SeedEnds(s) \/ SeedFails(s)

-----------------------------------------------------------------------------
(* With several browsers, seeds that run beside each other, seeds that     *)
(* nobody waits for any more, connections that break, Neo4j going away and *)
(* servers restarting in the middle, what a dialog reported is so: the     *)
(* dataset it said is loaded is whole, nodes and edges; the identity it    *)
(* said is saved is in the file, or a later one is; and a connector saved  *)
(* in the meantime is in it too.                                           *)
ReportedIsDone ==
    part = "onboarding" =>
        /\ "loaded" \in kept => {Demo[i] : i \in DOMAIN Demo} \subseteq graph
        /\ "saved" \in kept => config.identity # NULL
        /\ "instances" \in kept => config.instances
=============================================================================
