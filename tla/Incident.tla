------------------------------ MODULE Incident -------------------------------
(***************************************************************************)
(* The incident dashboard of web-ui: the queries of useIncidentContext()   *)
(* and their cache, the reads of Neo4jService they make, what the panels   *)
(* derive from the answers (lib/incident/derivations.ts) and what they     *)
(* show, for one browser over a graph that changes under it.               *)
(***************************************************************************)
EXTENDS Platform

CONSTANTS
    Services,       \* ids of logical services
    Links,          \* the edges the graph may have: <<from, type, to>>
    Depth,          \* of the blast radius
    MaxBlast,       \* MAX_BLAST_RADIUS_NODES
    MaxEntries      \* of the recently viewed list

Grades == {[tier |-> 1, retired |-> FALSE], [tier |-> 3, retired |-> TRUE]}
Service(s) == <<"LogicalService", s>>
Type(n) == n[1]
Nodes == {Service(s) : s \in Services} \cup {l[1] : l \in Links} \cup {l[3] : l \in Links}

(* What the two queries answer with, the facts the properties speak of     *)
(* (owned, joined, whole, and the graph it was read of) included.          *)
Snapshots == (SUBSET Links) \X (SUBSET Nodes)
NearReads == [nodes : SUBSET Nodes, edges : SUBSET Links, grade : [Services -> Grades],
              owned : BOOLEAN, of : Snapshots]
BlastReads == [nodes : SUBSET Nodes, grade : [Services -> Grades], truncated : BOOLEAN,
               whole : BOOLEAN, joined : SUBSET Nodes, of : Snapshots]

(* People are on call and teams own, as the schema has it.                 *)
ASSUME IncidentAssumption ==
    /\ Depth \in Nat \ {0} /\ MaxBlast \in Nat /\ MaxEntries \in Nat /\ IsFiniteSet(Nodes)
    /\ \A l \in Links : l = <<l[1], l[2], l[3]>>
    /\ \A l \in Links : l[2] = "ON_CALL_FOR" => Type(l[1]) = "Person"
    /\ \A l \in Links : l[2] = "OWNS" => Type(l[1]) = "Team"
    /\ \A n \in Nodes : n = <<n[1], n[2]>> /\ (Type(n) = "LogicalService" => n[2] \in Services)
    /\ NULL \notin NearReads \cup BlastReads

VARIABLES
    edges,      \* of the graph
    grade,      \* per service: tier, and whether its lifecycle is one of the retired ones
    gone,       \* nodes the sync sweep has marked absent
    viewing,    \* the service of the page, or NULL
    cached,     \* per query key: whether data was read, the data, the last fetch's failure
    asking,     \* query keys with a fetch under way
    paused,     \* those of them whose fetch waits for the network
    online,     \* whether the browser has a network
    old,        \* query keys whose data is older than their staleTime
    viewed      \* the recently viewed services, newest first

incidentVars == <<edges, grade, gone, viewing, cached, asking, paused, online, old, viewed>>
catalogGraph == <<edges, grade, gone>>
network == <<paused, online>>

Keys == Services \X {"near", "blast"}
Unread == [data |-> NULL, failed |-> FALSE]

IncidentInit ==
    /\ edges \in SUBSET Links
    /\ grade \in [Services -> Grades]
    /\ gone = {}
    /\ viewing = NULL /\ cached = [k \in Keys |-> Unread] /\ asking = {}
    /\ paused = {} /\ online = TRUE /\ old = {} /\ viewed = <<>>

-----------------------------------------------------------------------------
(* The graph, which syncs and people change.                               *)
EdgeChanges(l) ==
    /\ Op /\ edges' = (edges \ {l}) \cup ({l} \ edges)
    /\ UNCHANGED <<grade, gone, viewing, cached, asking, network, old, viewed>>

GradeChanges(s, g) ==
    /\ Op /\ grade[s] # g /\ grade' = [grade EXCEPT ![s] = g]
    /\ UNCHANGED <<edges, gone, viewing, cached, asking, network, old, viewed>>

Sweep(n) ==
    /\ Op /\ gone' = (gone \ {n}) \cup ({n} \ gone)
    /\ UNCHANGED <<edges, grade, viewing, cached, asking, network, old, viewed>>

-----------------------------------------------------------------------------
(* The fact the responders panel is about: somebody is on call for the     *)
(* service or owns it.  (Code owners are two edges away and never read.)   *)
Owned(s) ==
    \E n \in Nodes \ gone, t \in {"ON_CALL_FOR", "OWNS"} : <<n, t, Service(s)>> \in edges

(* getNeighborhood(): the subgraph of depth 1, without its absent nodes.   *)
Near(s) ==
    LET found == {Service(s)} \cup {l[1] : l \in {m \in edges : m[3] = Service(s)}}
                              \cup {l[3] : l \in {m \in edges : m[1] = Service(s)}}
        nodes == found \ gone
    IN  [nodes |-> nodes, edges |-> {l \in edges : l[1] \in nodes /\ l[3] \in nodes},
         grade |-> grade, owned |-> Owned(s), of |-> <<edges, gone>>]

(* The relationshipFilter of getBlastRadius(). *)
Inbound == {"DEPENDS_ON", "CALLS", "MONITORS"}
Outbound == {"OWNS", "CODEOWNER_OF"}
Affected(S) ==
    S \cup {l[1] : l \in {m \in edges : m[2] \in Inbound /\ m[3] \in S}}
      \cup {l[3] : l \in {m \in edges : m[2] \in Outbound /\ m[1] \in S}}

Walk(s) ==  \* what is within so many hops
    LET within[d \in 0 .. Depth] ==
            IF d = 0 THEN {Service(s)} ELSE Affected(within[d - 1])
    IN  within

(* subgraphAll() goes breadth-first and stops at its limit, of one node    *)
(* more than MaxBlast.                                                     *)
Reached(s) ==
    LET within == Walk(s)
    IN  IF Cardinality(within[Depth]) <= MaxBlast + 1 THEN {within[Depth]}
        ELSE {S \in SUBSET within[Depth] :
                /\ Cardinality(S) = MaxBlast + 1
                /\ \E d \in 1 .. Depth : within[d - 1] \subseteq S /\ S \subseteq within[d]}

(* The fact behind the answer: what else of the catalog a chain of edges   *)
(* joins to the service.                                                   *)
Hop(n, m) ==
    \/ \E t \in Inbound : <<m, t, n>> \in edges
    \/ \E t \in Outbound : <<n, t, m>> \in edges
Joined(s) ==
    {n \in Nodes \ (gone \cup {Service(s)}) :
        \E len \in 1 .. Depth : \E chain \in [0 .. len -> Nodes] :
            /\ chain[0] = Service(s) /\ chain[len] = n
            /\ \A i \in 1 .. len : Hop(chain[i - 1], chain[i])}

(* getBlastRadius(): absent nodes are dropped after the walk, and only     *)
(* then is the answer cut.                                                 *)
BlastRadius(s, found) ==
    LET nodes == found \ gone
    IN  {[nodes |-> kept, grade |-> grade, truncated |-> Cardinality(nodes) > MaxBlast,
          whole |-> found = Walk(s)[Depth] /\ kept = nodes, joined |-> Joined(s),
          of |-> <<edges, gone>>] :
            kept \in {S \in SUBSET nodes :
                        /\ Cardinality(S) = (IF Cardinality(nodes) > MaxBlast
                                             THEN MaxBlast ELSE Cardinality(nodes))
                        /\ Service(s) \in nodes => Service(s) \in S}}

(* What the graph holds for a query now. *)
Reads(k) ==
    IF k[2] = "near" THEN {Near(k[1])}
    ELSE UNION {BlastRadius(k[1], found) : found \in Reached(k[1])}

-----------------------------------------------------------------------------
(* What the page shows of a service comes from the data cached under that  *)
(* service.                                                                *)
Data(q) == cached[<<viewing, q>>].data

(* Faulty variant of BlastData: another service's answer stays until this one's. *)
BlastKept ==
    LET others == {k \in Keys : k[2] = "blast" /\ cached[k].data # NULL}
    IN  IF Data("blast") # NULL \/ others = {} THEN Data("blast")
        ELSE cached[CHOOSE k \in others : TRUE].data

(* blast.data of the page. *)
BlastData == Data("blast")

(* findService() *)
Found == viewing # NULL /\ Data("near") # NULL /\ Service(viewing) \in Data("near").nodes
HeaderGrade == Data("near").grade[viewing]

(* rankedBlastRadius() gets blast.data, and lists nothing without it.      *)
Entries == IF BlastData = NULL THEN {} ELSE BlastData.nodes \ {Service(viewing)}
TierOne == {n \in Entries : Type(n) = "LogicalService" /\ BlastData.grade[n[2]].tier = 1}

(* safetyVerdict() *)
Verdict ==
    IF ~Found THEN "unknown"
    ELSE IF HeaderGrade.tier = 1 \/ TierOne # {} THEN "red"
    ELSE IF HeaderGrade.tier = 3 /\ Entries = {} /\ HeaderGrade.retired THEN "green"
    ELSE "yellow"

(* From(types, to): the nodes an edge of one of the types comes from.      *)
From(types, to) == {l[1] : l \in {m \in Data("near").edges : m[2] \in types /\ m[3] = to}}
To(from, types) == {l[3] : l \in {m \in Data("near").edges : m[2] \in types /\ m[1] = from}}

(* responders() *)
OnCall == {n \in From({"ON_CALL_FOR"}, Service(viewing)) : Type(n) = "Person"}
OwningTeams == {n \in From({"OWNS"}, Service(viewing)) : Type(n) = "Team"}
CodeOwners == UNION {{n \in From({"CODEOWNER_OF"}, r) : Type(n) \in {"Team", "Person"}} :
                        r \in To(Service(viewing), {"IMPLEMENTED_BY"})}

(* directDependents() and monitorsFor() *)
Dependents == From({"DEPENDS_ON", "CALLS"}, Service(viewing))
Monitors == From({"MONITORS"}, Service(viewing))

(* What the page is while it is open.  A query without data is loading     *)
(* (isLoading) while its fetch is under way, and not while that is paused. *)
Fetching(q) == <<viewing, q>> \in asking \ paused
Page == IF Fetching("near") /\ Data("near") = NULL THEN "spinner"
        ELSE IF ~Found THEN "not in catalog" ELSE "dashboard"
RespondersPanel == IF OnCall \cup OwningTeams \cup CodeOwners = {} THEN "none" ELSE "some"
BlastPanel ==
    IF Fetching("blast") /\ BlastData = NULL THEN "spinner"
    ELSE IF cached[<<viewing, "blast">>].failed THEN "error"
    ELSE IF Entries = {} THEN "no impact" ELSE "table"

-----------------------------------------------------------------------------
(* A fetch starts when a component mounts on a key whose data is missing   *)
(* or old; a key has one fetch at a time.                                  *)
Mounts(s) == {k \in Keys : k[1] = s /\ (cached[k].data = NULL \/ k \in old)}

(* It pauses at once without a network, and one without data forgets the   *)
(* failure of before.  With a network nothing is left waiting.             *)
Fetch(keys, net) ==
    LET begun == keys \ asking
    IN  /\ asking' = asking \cup keys
        /\ paused' = IF net THEN {} ELSE paused \cup begun
        /\ cached' = [k \in Keys |-> IF k \in begun /\ cached[k].data = NULL
                                     THEN Unread ELSE cached[k]]

(* add() of the page's effect. *)
Add(s) ==
    LET others == SelectSeq(viewed, LAMBDA v : v # s)
    IN  viewed' = SubSeq(<<s>> \o others, 1, IF Len(others) < MaxEntries
                                             THEN Len(others) + 1 ELSE MaxEntries)

(* The effect runs when the page has a service it did not have before.     *)
Visits(s, near) == IF near # NULL /\ Service(s) \in near.nodes THEN Add(s) ELSE UNCHANGED viewed

OpenDashboard(s) ==
    /\ Op /\ viewing # s /\ viewing' = s /\ Fetch(Mounts(s), online)
    /\ Visits(s, cached[<<s, "near">>].data)
    /\ UNCHANGED <<catalogGraph, online, old>>

LeaveDashboard ==
    /\ Op /\ viewing # NULL /\ viewing' = NULL
    /\ UNCHANGED <<catalogGraph, cached, asking, network, old, viewed>>

GrowsOld(k) ==
    /\ Op /\ cached[k].data # NULL /\ k \notin old /\ old' = old \cup {k}
    /\ UNCHANGED <<catalogGraph, viewing, cached, asking, network, viewed>>

(* Back online, what was paused goes on and what the page has not, or has  *)
(* old, is fetched again.                                                  *)
GoOffline ==
    /\ Op /\ online /\ online' = FALSE
    /\ UNCHANGED <<catalogGraph, viewing, cached, asking, paused, old, viewed>>

GoOnline ==
    /\ Op /\ ~online /\ online' = TRUE
    /\ Fetch(IF viewing = NULL THEN {} ELSE Mounts(viewing), TRUE)
    /\ UNCHANGED <<catalogGraph, viewing, old, viewed>>

(* The request failed, and its retry waits for the network; a query that   *)
(* nothing shows is not tried again.                                       *)
RetryPauses(k) ==
    /\ NoOp /\ k \in asking \ paused /\ k[1] = viewing /\ ~online
    /\ paused' = paused \cup {k}
    /\ UNCHANGED <<catalogGraph, viewing, cached, asking, online, old, viewed>>

Answered(k, data) ==
    /\ NoOp /\ k \in asking \ paused /\ data \in Reads(k)
    /\ asking' = asking \ {k} /\ old' = old \ {k}
    /\ cached' = [cached EXCEPT ![k] = [data |-> data, failed |-> FALSE]]
    /\ IF k = <<viewing, "near">> THEN Visits(viewing, data) ELSE UNCHANGED viewed
    /\ UNCHANGED <<catalogGraph, viewing, network>>

(* The request failed, and so did its retry: data of before is kept.       *)
FetchError(k) ==
    /\ Op /\ k \in asking \ paused /\ asking' = asking \ {k}
    /\ cached' = [cached EXCEPT ![k].failed = TRUE]
    /\ UNCHANGED <<catalogGraph, viewing, network, old, viewed>>

IncidentNext ==
    \/ \E l \in Links : EdgeChanges(l)
    \/ \E s \in Services, g \in Grades : GradeChanges(s, g)
    \/ \E n \in Nodes : Sweep(n)
    \/ \E s \in Services : OpenDashboard(s)
    \/ LeaveDashboard \/ GoOffline \/ GoOnline
    \/ \E k \in asking : \E data \in Reads(k) : Answered(k, data)
    \/ \E k \in Keys : GrowsOld(k) \/ RetryPauses(k) \/ FetchError(k)

-----------------------------------------------------------------------------
(* Something of tier 1 was joined to the service when its answer was read. *)
Critical(read) == \E t \in Services : Service(t) \in read.joined /\ read.grade[t].tier = 1

(* What is said of the change risk and of the impact, given the answer the *)
(* page has of the blast radius.                                           *)
RiskIsRead(read) ==
    /\ Verdict = "red" => HeaderGrade.tier = 1 \/ (read # NULL /\ Critical(read))
    /\ HeaderGrade.tier = 1 => Verdict = "red"
    /\ read # NULL /\ read.whole /\ Critical(read) => Verdict = "red"
    /\ read # NULL /\ read.whole /\ read.joined # {} => Verdict # "green"
ImpactIsRead(read) ==
    /\ BlastPanel = "no impact" => read # NULL \/ <<viewing, "blast">> \in paused
    /\ read # NULL /\ read.whole /\ read.joined # {} => BlastPanel # "no impact"
    /\ read # NULL /\ read.whole /\ read.of = Data("near").of =>
          (Dependents \cup Monitors) \ {Service(viewing)} \subseteq Entries

(* What the page says it says of the service it shows, whatever services   *)
(* it showed before and in whichever order the answers came: the change    *)
(* risk is critical only if the service was of tier 1, or had a dependant  *)
(* of tier 1, when that was read for it; once the graph was read whole it  *)
(* is always then critical, and neither "LOW" nor "No downstream impact"   *)
(* is said of a service that has a dependant.  "No downstream impact" is   *)
(* never said of an answer that has failed or is still on its way: of one  *)
(* that never came only while the fetch waits for the network.  The direct *)
(* dependants and the monitors are in the blast radius, when both were     *)
(* read from the same graph (save the service itself, should it depend on  *)
(* itself, which it never lists); and "no on-call, owning team" is said    *)
(* only when it was so when that was read.                                 *)
CriticalIsShown ==
    part = "incident" /\ viewing # NULL /\ Page = "dashboard" =>
        /\ RiskIsRead(Data("blast")) /\ ImpactIsRead(Data("blast"))
        /\ RespondersPanel = "none" => ~Data("near").owned
=============================================================================
