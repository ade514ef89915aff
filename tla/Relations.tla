------------------------------ MODULE Relations -------------------------------
(***************************************************************************)
(* The edges of the graph that people add and remove on an entity's page   *)
(* (relation-manager, routes/claims, relation-edit-service) while          *)
(* connectors write theirs (core-writer neo4j/queries mergeEdge).  One     *)
(* relationship type; the entities are its from- and to-nodes.             *)
(***************************************************************************)
EXTENDS Platform

CONSTANTS
    FromNodes,
    ToNodes,
    Linkers     \* the people with an entity's page open

Joined == FromNodes \X ToNodes
Drawn == [actor : Linkers \cup {NULL}, at : Nat]

ASSUME RelationsAssumption ==
    NULL \notin Linkers /\ NULL \notin Drawn /\ NULL # "connector"

VARIABLES
    cardinality,    \* of the type in the schema
    edges,          \* per pair of nodes: whose edge it is and since when, or NULL
    linked,         \* per person: the rows of the open page, or NULL
    asked,          \* per person: the request in flight, or NULL
    trail,          \* the GraphEditEvents, in order
    begunBy,        \* per pair: who last made an edge of it, or NULL (history)
    crossed,        \* the pairs whose last event is of a request that changed nothing (history)
    clock           \* the api-server's clock

relationVars == <<cardinality, edges, linked, asked, trail, begunBy, crossed, clock>>

RelationsInit ==
    /\ cardinality \in {"N:M", "N:1", "1:N", "1:1"}
    /\ edges = [e \in Joined |-> NULL] /\ begunBy = edges
    /\ linked = [u \in Linkers |-> NULL] /\ asked = linked
    /\ trail = <<>> /\ crossed = {} /\ clock = 0

Manual(e) == edges[e] # NULL /\ edges[e].actor # NULL
Present(e) == edges[e] # NULL

(* mergeEdge(): a connector's properties replace what is there, except for  *)
(* the mark of the person who added the edge.                               *)
MergeEdge(e) ==
    /\ Op
    /\ edges' = [edges EXCEPT ![e] =
         IF Present(e) THEN [@ EXCEPT !.at = clock] ELSE [actor |-> NULL, at |-> clock]]
    /\ begunBy' = IF Present(e) THEN begunBy ELSE [begunBy EXCEPT ![e] = "connector"]
    /\ UNCHANGED <<cardinality, linked, asked, trail, crossed, clock>>

Tock == Op /\ clock' = clock + 1 /\ UNCHANGED <<cardinality, edges, linked, asked, trail, begunBy, crossed>>

-----------------------------------------------------------------------------
(* The page of one from-node: its outgoing edges and which are manual. *)
OpenEntity(u, n) ==
    /\ NoOp /\ linked[u] = NULL
    /\ linked' = [linked EXCEPT ![u] =
         [entity |-> n, manual |-> {e \in Joined : e[1] = n /\ Manual(e)}]]
    /\ UNCHANGED <<cardinality, edges, asked, trail, begunBy, crossed, clock>>

(* The dialog: any type and any target but the entity itself.              *)
AskAdd(u, t) ==
    /\ Op /\ linked[u] # NULL /\ asked[u] = NULL
    /\ asked' = [asked EXCEPT ![u] = [op |-> "add", edge |-> <<linked[u].entity, t>>, at |-> "check", now |-> clock]]
    /\ UNCHANGED <<cardinality, edges, linked, trail, begunBy, crossed, clock>>

(* Only a row the page shows as manual can be deleted. *)
AskDelete(u, e) ==
    /\ Op /\ linked[u] # NULL /\ asked[u] = NULL /\ e \in linked[u].manual
    /\ asked' = [asked EXCEPT ![u] = [op |-> "delete", edge |-> e, at |-> "check", now |-> clock]]
    /\ UNCHANGED <<cardinality, edges, linked, trail, begunBy, crossed, clock>>

Asks(u, op, at) == asked[u] # NULL /\ asked[u].op = op /\ asked[u].at = at
(* The answer invalidates the page. *)
Answered(u) == asked' = [asked EXCEPT ![u] = NULL] /\ linked' = [linked EXCEPT ![u] = NULL]
Record(kind, e) == trail' = Append(trail, [kind |-> kind, edge |-> e])

(* assertCardinality() *)
Conflicts(e) ==
    \/ cardinality \in {"N:1", "1:1"} /\ \E t \in ToNodes \ {e[2]} : Present(<<e[1], t>>)
    \/ cardinality \in {"1:N", "1:1"} /\ \E f \in FromNodes \ {e[1]} : Present(<<f, e[2]>>)

Proceeds(u, l) == asked' = [asked EXCEPT ![u].at = l] /\ UNCHANGED linked

(* The time is taken, and the transaction reads first; nothing keeps what   *)
(* it read from changing.                                                   *)
CheckAdd(u) ==
    /\ NoOp /\ Asks(u, "add", "check")
    /\ IF Conflicts(asked[u].edge) THEN Answered(u)
       ELSE /\ asked' = [asked EXCEPT ![u].at = "merge", ![u].now = clock]
            /\ UNCHANGED linked
    /\ UNCHANGED <<cardinality, edges, trail, begunBy, crossed, clock>>

(* MERGE ... ON CREATE, and the event, which commit together.  An edge that *)
(* is there is left alone; nothing locks it, and when it bears this         *)
(* person's mark and this time the event is still to come.                  *)
AddRelation(u) ==
    /\ NoOp /\ Asks(u, "add", "merge")
    /\ LET e == asked[u].edge
           mark == [actor |-> u, at |-> asked[u].now]
       IN IF Present(e)
          THEN /\ IF edges[e] = mark THEN Proceeds(u, "record") ELSE Answered(u)
               /\ UNCHANGED <<edges, begunBy, trail, crossed>>
          ELSE /\ edges' = [edges EXCEPT ![e] = mark]
               /\ begunBy' = [begunBy EXCEPT ![e] = "person"]
               /\ Record("added", e) /\ crossed' = crossed \ {e}
               /\ Answered(u)
    /\ UNCHANGED <<cardinality, clock>>

(* The probe: a connector's edge is refused, none is no error.             *)
CheckDelete(u) ==
    /\ NoOp /\ Asks(u, "delete", "check")
    /\ IF Manual(asked[u].edge) THEN Proceeds(u, "delete") ELSE Answered(u)
    /\ UNCHANGED <<cardinality, edges, trail, begunBy, crossed, clock>>

Deleted(u) ==
    LET e == asked[u].edge
    IN /\ edges' = [edges EXCEPT ![e] = NULL]
       /\ Record("removed", e) /\ crossed' = crossed \ {e}
       /\ Answered(u) /\ UNCHANGED begunBy

(* Faulty variant of DeleteRelation: what the probe saw is not asked again. *)
DeleteProbed(u) ==
    /\ NoOp /\ Asks(u, "delete", "delete") /\ Deleted(u)
    /\ UNCHANGED <<cardinality, clock>>

(* DELETE of a manual edge, which its transaction locks until the event is  *)
(* written too.  If the edge the probe saw is gone nothing is deleted or    *)
(* locked, and the event is still to come.                                  *)
DeleteRelation(u) ==
    /\ NoOp /\ Asks(u, "delete", "delete")
    /\ IF Manual(asked[u].edge) THEN Deleted(u)
       ELSE Proceeds(u, "record") /\ UNCHANGED <<edges, begunBy, trail, crossed>>
    /\ UNCHANGED <<cardinality, clock>>

(* recordEvent() of a request that changed nothing. *)
RecordRelation(u) ==
    /\ NoOp /\ asked[u] # NULL /\ asked[u].at = "record"
    /\ Record(IF asked[u].op = "add" THEN "added" ELSE "removed", asked[u].edge)
    /\ crossed' = crossed \cup {asked[u].edge}
    /\ Answered(u) /\ UNCHANGED <<cardinality, edges, begunBy, clock>>

RelationsNext ==
    \/ Tock
    \/ \E e \in Joined : MergeEdge(e)
    \/ \E u \in Linkers :
         \/ CheckAdd(u) \/ AddRelation(u)
         \/ CheckDelete(u) \/ DeleteRelation(u) \/ RecordRelation(u)
         \/ \E n \in FromNodes : OpenEntity(u, n)
         \/ \E t \in ToNodes : AskAdd(u, t)
         \/ \E e \in Joined : AskDelete(u, e)

-----------------------------------------------------------------------------
LastOf(e) ==
    LET about == {i \in DOMAIN trail : trail[i].edge = e}
    IN IF about = {} THEN "none" ELSE trail[CHOOSE i \in about : \A j \in about : j <= i].kind

(* The audit trail explains the graph, whatever people and connectors do at *)
(* the same time and in the same tick.  No request deletes an edge that a   *)
(* connector made, or puts a person's mark on one, even when the edge its   *)
(* probe saw was replaced meanwhile.  And an edge bears a person's mark     *)
(* exactly when its last event is an addition, unless that event is of a    *)
(* request that lost such a race and recorded what it did not do.           *)
TrailExplainsEdges ==
    part = "relations" => \A e \in Joined :
        /\ begunBy[e] = "connector" => Present(e)
        /\ Manual(e) => begunBy[e] = "person"
        /\ e \notin crossed => (Manual(e) <=> LastOf(e) = "added")
=============================================================================
