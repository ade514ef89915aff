----------------------------- MODULE MCGraphData -----------------------------
(* What people and syncs do to the graph and to the knowledge store, for    *)
(* TLC: a behaviour moves one of the parts.  pickSurvivor() is a choice, so *)
(* nothing tells nodes, values or candidates apart.                         *)
EXTENDS GraphEdits, KnowledgeContainers, ClaimValues, Relations, GitHubKnowledge, Migrations,
        TLC

CONSTANT Parts

Bounds == 
    [edits |-> 0, containers |-> 0, claims |-> 4, relations |-> 4, github |-> 3, migrations |-> 6]

Symmetry ==
    Permutations(Nodes)

(* The parts that do not move hold nothing.                                 *)
EditsIdle ==
    /\ edits = NULL /\ syncs = NULL /\ claims = NULL /\ hidden = NULL /\ events = NULL
    /\ cand = NULL /\ distinct = NULL /\ merges = NULL /\ pending = NULL /\ told = NULL
ContainersIdle ==
    /\ src = NULL /\ row = NULL /\ docs = NULL /\ life = NULL
    /\ empty = NULL /\ conn = NULL /\ born = NULL /\ cachedLife = NULL /\ run = NULL
    /\ refresh = NULL /\ put = NULL /\ del = NULL /\ consent = NULL /\ lastEmpty = NULL
ValuesIdle ==
    /\ strategy = NULL /\ group = NULL /\ week = NULL /\ stored = NULL /\ edited = NULL
    /\ shown = NULL /\ attested = NULL
RelationsIdle ==
    /\ cardinality = NULL /\ edges = NULL /\ linked = NULL /\ asked = NULL /\ trail = NULL
    /\ begunBy = NULL /\ crossed = NULL /\ clock = NULL
KnowledgeIdle ==
    /\ github = NULL /\ chosen = NULL /\ kept = NULL /\ keptFiles = NULL /\ ck = NULL
    /\ mark = NULL /\ job = NULL /\ reach = NULL /\ lastRead = NULL
MigrationsIdle ==
    /\ applied = NULL /\ done = NULL /\ index = NULL /\ lock = NULL /\ deployed = NULL

Init ==
    /\ PlatformInit(Parts)
    /\ IF part = "edits" THEN EditsInit ELSE EditsIdle
    /\ IF part = "containers" THEN ContainersInit ELSE ContainersIdle
    /\ IF part = "claims" THEN ValuesInit ELSE ValuesIdle
    /\ IF part = "relations" THEN RelationsInit ELSE RelationsIdle
    /\ IF part = "github" THEN KnowledgeInit ELSE KnowledgeIdle
    /\ IF part = "migrations" THEN MigrationsInit ELSE MigrationsIdle

vars == <<part, ops, graphEditVars, containerVars, valueVars, relationVars, githubVars, migrationVars>>

Next ==
    \/ /\ part = "edits" /\ EditsNext /\ NoOp
       /\ UNCHANGED <<containerVars, valueVars, relationVars, githubVars, migrationVars>>
    \/ /\ part = "containers" /\ ContainersNext /\ NoOp
       /\ UNCHANGED <<graphEditVars, valueVars, relationVars, githubVars, migrationVars>>
    \/ /\ part = "claims" /\ ValuesNext
       /\ UNCHANGED <<graphEditVars, containerVars, relationVars, githubVars, migrationVars>>
    \/ /\ part = "relations" /\ RelationsNext
       /\ UNCHANGED <<graphEditVars, containerVars, valueVars, githubVars, migrationVars>>
    \/ /\ part = "github" /\ KnowledgeNext
       /\ UNCHANGED <<graphEditVars, containerVars, valueVars, relationVars, migrationVars>>
    \/ /\ part = "migrations" /\ MigrationsNext
       /\ UNCHANGED <<graphEditVars, containerVars, valueVars, relationVars, githubVars>>

Spec == Init /\ [][Next]_vars
=============================================================================
