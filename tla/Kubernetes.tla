----------------------------- MODULE Kubernetes ------------------------------
(***************************************************************************)
(* A Kubernetes connector: the wizard that stores its credentials, tests   *)
(* them and creates it, and its runs, which list the namespaces in scope   *)
(* and then, namespace by namespace and kind by kind, the workloads with   *)
(* the restarts of their pods.  A run that listed everything it should     *)
(* ends with a sweep: what it did not see is marked absent.  What the      *)
(* cluster's roles allow may change at any moment.                         *)
(*                                                                         *)
(* A page's event is taken to reach the graph in order; GraphWriter is     *)
(* about what the bus does to it.                                          *)
(***************************************************************************)
EXTENDS Platform

CONSTANTS
    Workloads,      \* <<namespace, kind, name>>; a list goes in this order
    CronJobs,       \* kinds that own no pods
    Policies,       \* what a role may deny: sets of <<namespace, kind>>
    Accounts,       \* the service accounts
    Pod             \* the one of the pod the api-server runs in

Spaces == {w[1] : w \in Workloads}
Kinds == {w[2] : w \in Workloads}

(* What a run keeps while it goes on, and what a node of the graph says.   *)
Clusters == [access : {NULL, "in-cluster", "file"}, kinds : SUBSET Kinds, excluded : SUBSET Spaces]
RunStates ==
    [doing : {"namespaces", "listing", "paging", "ending"}, account : Accounts \cup {NULL},
     scope : Clusters, spaces : SUBSET Spaces, cell : (Spaces \X Kinds) \cup {NULL},
     rest : SUBSET Workloads, forbidden : SUBSET Kinds, unrolled : BOOLEAN,
     cache : [space : Spaces \cup {NULL}, crashed : SUBSET Workloads] \cup {NULL},
     warned : BOOLEAN, failed : BOOLEAN, seen : SUBSET Workloads, crashed : SUBSET Workloads]
NodeStates == [restarts : {NULL, 0, 1}, absent : BOOLEAN, crashed : BOOLEAN]

ASSUME KubernetesAssumption ==
    /\ Pod \in Accounts /\ Workloads \subseteq Nat \X Nat \X Nat
    /\ NULL \notin RunStates \cup NodeStates

VARIABLES
    exists,         \* workloads of the cluster
    crashed,        \* those whose pods have restarted
    denies,         \* account -> the policy in force
    file,           \* the account in the connector's credential file
    wizard,
    cluster,        \* NULL, or the connector's access and the kinds in scope
    run,            \* NULL, or the run in progress
    node,           \* workload -> NULL, or its node in the graph
    standing,       \* in scope and in the cluster since the last run began
    outcome         \* how the last run ended
kubernetesVars == <<exists, crashed, denies, file, wizard, cluster, run, node, standing, outcome>>

Pods == 0
NoWizard == [at |-> "access", access |-> NULL, probe |-> NULL, picked |-> NULL]

KubernetesInit ==
    /\ exists = Workloads
    /\ crashed = {} /\ file = NULL /\ wizard = NoWizard /\ cluster = NULL
    /\ denies \in {[a \in Accounts |-> p] : p \in Policies}
    /\ run = NULL /\ node = [w \in Workloads |-> NULL] /\ standing = {} /\ outcome = NULL

-----------------------------------------------------------------------------
(* The cluster.                                                            *)

WorkloadCreated(w) ==
    /\ Op /\ w \notin exists
    /\ exists' = exists \cup {w}
    /\ UNCHANGED <<crashed, denies, file, wizard, cluster, run, node, standing, outcome>>

WorkloadDeleted(w) ==
    /\ Op /\ w \in exists
    /\ exists' = exists \ {w} /\ crashed' = crashed \ {w} /\ standing' = standing \ {w}
    /\ UNCHANGED <<denies, file, wizard, cluster, run, node, outcome>>

PodRestarts(w) ==
    /\ Op /\ w \in exists \ crashed /\ w[2] \notin CronJobs
    /\ crashed' = crashed \cup {w}
    /\ UNCHANGED <<exists, denies, file, wizard, cluster, run, node, standing, outcome>>

RoleChanges(a) ==
    /\ Op
    /\ \E p \in Policies \ {denies[a]} : denies' = [denies EXCEPT ![a] = p]
    /\ UNCHANGED <<exists, crashed, file, wizard, cluster, run, node, standing, outcome>>

-----------------------------------------------------------------------------
(* The wizard.                                                             *)

(* credentialsFromAccess(): in-cluster access needs no file; the other two *)
(* modes read theirs whenever they are used.                               *)
AccountOf(access) == IF access = "in-cluster" THEN Pod ELSE file

StoreCredentials(a) ==
    /\ Op /\ wizard.at = "access" /\ cluster = NULL
    /\ wizard' = [wizard EXCEPT !.at = "connect", !.access = IF a = Pod THEN "in-cluster" ELSE "file"]
    /\ file' = IF a = Pod THEN file ELSE a
    /\ UNCHANGED <<exists, crashed, denies, cluster, run, node, standing, outcome>>

(* runProbe() of kubernetes.ts: the kinds are tried in one namespace, and  *)
(* none is when the namespaces cannot be listed.                           *)
Probed(space) == {k \in Kinds : <<space, k>> \notin denies[AccountOf(wizard.access)]}
RunProbe ==
    /\ wizard.at = "connect" /\ cluster = NULL
    /\ wizard' = [wizard EXCEPT !.probe = Probed(CHOOSE s \in Spaces : \A t \in Spaces : s <= t)]
    /\ UNCHANGED <<ops, part, exists, crashed, denies, file, cluster, run, node, standing, outcome>>

(* effectiveKinds: what was picked, or the kinds the probe could list, or  *)
(* every kind if it could list none.                                       *)
EffectiveKinds ==
    IF wizard.picked # NULL THEN wizard.picked
    ELSE IF wizard.probe = {} THEN Kinds ELSE wizard.probe

WizardGoesOn ==
    /\ cluster = NULL
    /\ \/ /\ wizard.at = "connect" /\ wizard.probe # NULL
          /\ wizard' = [wizard EXCEPT !.at = "configure"]
       \/ /\ wizard.at = "configure" /\ EffectiveKinds # {}
          /\ wizard' = [wizard EXCEPT !.at = "review"]
    /\ UNCHANGED <<ops, part, exists, crashed, denies, file, cluster, run, node, standing, outcome>>

(* Neither the access nor the probe is reset when the person goes back and *)
(* stores other credentials.                                               *)
WizardGoesBack ==
    /\ cluster = NULL /\ wizard.at # "access"
    /\ wizard' = [wizard EXCEPT !.at = "access"]
    /\ UNCHANGED <<ops, part, exists, crashed, denies, file, cluster, run, node, standing, outcome>>

ToggleKind(k) ==
    /\ Op /\ wizard.at = "configure" /\ cluster = NULL
    /\ wizard' = [wizard EXCEPT !.picked = (EffectiveKinds \ {k}) \cup ({k} \ EffectiveKinds)]
    /\ UNCHANGED <<exists, crashed, denies, file, cluster, run, node, standing, outcome>>

ConnectCluster ==
    /\ wizard.at = "review" /\ cluster = NULL
    /\ cluster' = [access |-> wizard.access, kinds |-> EffectiveKinds, excluded |-> {}]
    /\ UNCHANGED <<ops, part, exists, crashed, denies, file, wizard, run, node, standing, outcome>>

(* PATCH narrows or widens the scope of the next run.                      *)
ScopeChanges ==
    /\ Op /\ cluster # NULL
    /\ \E s \in (SUBSET Spaces) \ {cluster.excluded} : cluster' = [cluster EXCEPT !.excluded = s]
    /\ UNCHANGED <<exists, crashed, denies, file, wizard, run, node, standing, outcome>>

-----------------------------------------------------------------------------
(* A run.                                                                  *)

InScope(c) == {w \in Workloads : w[1] \notin c.excluded /\ w[2] \in c.kinds}

(* build() and authenticate() read the file once and forget the last run.  *)
StartRun ==
    /\ Op /\ cluster # NULL /\ run = NULL
    /\ run' = [doing |-> "namespaces", account |-> AccountOf(cluster.access), scope |-> cluster,
               spaces |-> {}, cell |-> NULL, rest |-> {}, forbidden |-> {}, unrolled |-> FALSE,
               cache |-> NULL, warned |-> FALSE, failed |-> FALSE, seen |-> {}, crashed |-> crashed]
    /\ standing' = exists \cap InScope(cluster)
    /\ UNCHANGED <<exists, crashed, denies, file, wizard, cluster, node, outcome>>

(* The credentials are refused: nothing was synced.                        *)
NotAuthenticated ==
    /\ run # NULL /\ run.doing = "namespaces"
    /\ run' = NULL /\ outcome' = "failed"
    /\ UNCHANGED <<ops, part, exists, crashed, denies, file, wizard, cluster, node, standing>>

RunGoesTo(r) ==
    /\ run' = r
    /\ UNCHANGED <<ops, part, exists, crashed, denies, file, wizard, cluster, standing, outcome>>

(* The cells the run has still to list, in the order of its cursor.        *)
Before(c, d) == c[1] < d[1] \/ (c[1] = d[1] /\ c[2] < d[2])
CellsAfter(r, c) ==
    {d \in r.spaces \X r.scope.kinds : (c = NULL \/ Before(c, d)) /\ d[2] \notin r.forbidden}
Advance(r) ==
    LET left == CellsAfter(r, r.cell)
    IN  IF left = {} THEN [r EXCEPT !.doing = "ending"]
        ELSE [r EXCEPT !.doing = "listing", !.rest = {},
                       !.cell = CHOOSE d \in left : \A o \in left \ {d} : Before(d, o)]

(* Some pages of the namespaces may have arrived before one fails; the     *)
(* workloads of those are listed all the same.                             *)
ListNamespaces ==
    /\ run # NULL /\ run.doing = "namespaces"
    /\ \E some \in SUBSET (Spaces \ run.scope.excluded) :
          LET all == some = Spaces \ run.scope.excluded
          IN  RunGoesTo(Advance([run EXCEPT !.spaces = some, !.failed = ~all \/ some = {}]))
    /\ UNCHANGED node

Denied(r, c) == c \in denies[r.account]

(* The first 403 of a kind gives it up for the whole run.                  *)
KindForbidden ==
    /\ run # NULL /\ run.doing \in {"listing", "paging"} /\ Denied(run, run.cell)
    /\ RunGoesTo(Advance([run EXCEPT !.forbidden = @ \cup {run.cell[2]}, !.warned = TRUE]))
    /\ UNCHANGED node

(* namespaceCache(): the pods of the namespace the run is in, read once;   *)
(* after a 403 they are not asked for again in this run.                   *)
NoPods == [space |-> NULL, crashed |-> {}]
NamespaceCache(r) ==
    IF r.cell[2] \in CronJobs \/ (r.cache # NULL /\ r.cache.space = r.cell[1]) THEN r
    ELSE IF r.unrolled \/ Denied(r, <<r.cell[1], Pods>>)
    THEN [r EXCEPT !.warned = TRUE, !.unrolled = TRUE, !.cache = NoPods]
    ELSE [r EXCEPT !.cache = [space |-> r.cell[1], crashed |-> {w \in crashed : w[1] = r.cell[1]}]]

(* summarizePods(): nothing for a CronJob, else the sum over its pods.     *)
Restarts(r, w) ==
    IF w[2] \in CronJobs THEN NULL ELSE IF w \in r.cache.crashed THEN 1 ELSE 0

(* fetch(): one page, in its place in the list as it was when it began.    *)
FetchPage ==
    /\ run # NULL /\ run.doing \in {"listing", "paging"} /\ ~Denied(run, run.cell)
    /\ LET r == NamespaceCache(run)
           all == IF run.doing = "paging" THEN run.rest
                  ELSE {w \in exists : <<w[1], w[2]>> = run.cell}
           w == CHOOSE w \in all : \A v \in all : w[3] <= v[3]
           seen == [r EXCEPT !.seen = @ \cup {w}, !.rest = all \ {w}, !.doing = "paging"]
       IN  IF all = {} THEN RunGoesTo(Advance(r)) /\ UNCHANGED node
           ELSE /\ RunGoesTo(IF seen.rest = {} THEN Advance(seen) ELSE seen)
                /\ node' = [node EXCEPT ![w] =
                     [restarts |-> Restarts(r, w), absent |-> FALSE, crashed |-> w \in run.crashed]]

(* Any other error, a continue token that is too old among them, ends the  *)
(* list.                                                                   *)
FetchFails ==
    /\ run # NULL /\ run.doing \in {"listing", "paging"}
    /\ RunGoesTo([run EXCEPT !.doing = "ending", !.failed = TRUE])
    /\ UNCHANGED node

(* processJob(): a warning makes a run partial, and only a run that is not *)
(* sweeps.                                                                 *)
RunOutcomeByErrors(r) == IF r.failed THEN "partial" ELSE "success"
RunOutcome(r) == IF r.failed \/ r.warned THEN "partial" ELSE "success"
Swept(r) ==
    [w \in Workloads |->
        IF node[w] # NULL /\ w \notin r.seen THEN [node[w] EXCEPT !.absent = TRUE] ELSE node[w]]

RunEnds ==
    /\ run # NULL /\ run.doing = "ending"
    /\ run' = NULL /\ outcome' = RunOutcome(run)
    /\ node' = IF RunOutcome(run) = "success" THEN Swept(run) ELSE node
    /\ UNCHANGED <<ops, part, exists, crashed, denies, file, wizard, cluster, standing>>

KubernetesNext ==
    \/ \E w \in Workloads : WorkloadCreated(w) \/ WorkloadDeleted(w) \/ PodRestarts(w)
    \/ \E a \in Accounts : RoleChanges(a) \/ StoreCredentials(a)
    \/ \E k \in Kinds : ToggleKind(k)
    \/ RunProbe \/ WizardGoesOn \/ WizardGoesBack \/ ConnectCluster \/ ScopeChanges
    \/ StartRun \/ NotAuthenticated \/ ListNamespaces \/ KindForbidden
    \/ FetchPage \/ FetchFails \/ RunEnds

-----------------------------------------------------------------------------
(* A run that ends as a success has seen whatever was in its scope all the *)
(* while it ran: none of it is marked absent, and none is missing, however *)
(* the roles changed and whichever list failed in between.                 *)
SuccessIsExhaustive ==
    part = "kubernetes" /\ run = NULL /\ outcome = "success" =>
        \A w \in standing : node[w] # NULL /\ ~node[w].absent

(* A workload that had restarted before the run began never reads as       *)
(* restarts: 0, "as if that were fact" (types.ts).  It does not hold where  *)
(* the pods could not be listed (README).                                  *)
ZeroIsMeasured ==
    part = "kubernetes" => \A w \in Workloads :
        node[w] # NULL /\ node[w].restarts = 0 => ~node[w].crashed
=============================================================================
