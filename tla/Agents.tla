------------------------------- MODULE Agents --------------------------------
(***************************************************************************)
(* Agent definitions and their published versions (agent-store,            *)
(* definition, routes/agents, builtin-agents): the table of agents, the    *)
(* authors who read, edit, publish and archive them, the models and        *)
(* ceilings of the instance, and the built-in agent that a boot makes sure *)
(* of.  A definition names a model and the capability its grants need.     *)
(***************************************************************************)
EXTENDS Platform

CONSTANTS
    Authors,
    Holders,    \* the authors who hold the capability that grants may need
    Models,
    MaxAgents,  \* bound
    MaxRevision \* bound

ASSUME AgentsAssumption == Holders \subseteq Authors /\ MaxAgents \in Nat /\ MaxRevision \in Nat

VARIABLES
    agents,     \* the table, one row per agent ever created
    allowed,    \* models the running server allows (ai.models, ai.limits)
    reads,      \* per author: agent and revision it has read, or NULL
    publishing, \* per author: the publish request that has passed its check, or NULL
    seeding     \* ensureBuiltinAgents(): what is left of it

agentVars == <<agents, allowed, reads, publishing, seeding>>

Definitions == [model : Models, needs : BOOLEAN]
System == "system"

AgentsInit ==
    /\ agents = <<>> /\ allowed \in SUBSET Models
    /\ reads = [a \in Authors |-> NULL] /\ publishing = [a \in Authors |-> NULL]
    /\ seeding = "look"

(* parseAgentDefinition(), checkDefinitionAgainstPolicy() and              *)
(* grantedServiceEffects(): what a request of this author may contain.     *)
WithinPolicy(d) == d.model \in allowed
Grantable(a, d) == d.needs => a \in Holders
ValidDefinition(a, d) == WithinPolicy(d) /\ Grantable(a, d)

Row(d, slug) ==
    [draft |-> d, slug |-> slug, revision |-> 1, live |-> TRUE, enabled |-> TRUE,
     published |-> 0, versions |-> <<>>]
SlugFree(slug) == \A i \in 1 .. Len(agents) : ~(agents[i].live /\ agents[i].slug = slug)

(* POST / *)
CreateAgent(a, d) ==
    /\ Op /\ Len(agents) < MaxAgents /\ ValidDefinition(a, d) /\ SlugFree("own")
    /\ agents' = Append(agents, Row(d, "own"))
    /\ reads' = [reads EXCEPT ![a] = [id |-> Len(agents) + 1, revision |-> 1]]
    /\ UNCHANGED <<allowed, publishing, seeding>>

(* GET /:id, whose ETag is the revision. *)
Get(a, i) ==
    /\ NoOp /\ i \in 1 .. Len(agents)
    /\ reads' = [reads EXCEPT ![a] = [id |-> i, revision |-> agents[i].revision]]
    /\ UNCHANGED <<agents, allowed, publishing, seeding>>

(* The row an update, publish or archive statement finds: live, and at the *)
(* revision of If-Match when the request has one.                          *)
Matches(i, expected) ==
    agents[i].live /\ (expected # NULL => agents[i].revision = expected)
Bounded(i) == agents[i].revision < MaxRevision

IfMatch(a, with) == IF with THEN reads[a].revision ELSE NULL
Known(a) == reads[a] # NULL

(* Faulty variant of UpdateDefinition: a new draft keeps the revision. *)
UpdateKeepsRevision(a, d, with) ==
    /\ Op /\ Known(a) /\ ValidDefinition(a, d)
    /\ LET i == reads[a].id IN
         /\ Matches(i, IfMatch(a, with)) /\ Bounded(i)
         /\ agents' = [agents EXCEPT ![i].draft = d]
         /\ reads' = [reads EXCEPT ![a].revision = agents[i].revision]
    /\ UNCHANGED <<allowed, publishing, seeding>>

(* PUT /:id with a definition; the answer carries the new revision. *)
UpdateDefinition(a, d, with) ==
    /\ Op /\ Known(a) /\ ValidDefinition(a, d)
    /\ LET i == reads[a].id IN
         /\ Matches(i, IfMatch(a, with)) /\ Bounded(i)
         /\ agents' = [agents EXCEPT ![i].draft = d, ![i].revision = @ + 1]
         /\ reads' = [reads EXCEPT ![a].revision = agents[i].revision + 1]
    /\ UNCHANGED <<allowed, publishing, seeding>>

(* PUT /:id with `enabled` only. *)
UpdateEnabled(a, with) ==
    /\ Op /\ Known(a)
    /\ LET i == reads[a].id IN
         /\ Matches(i, IfMatch(a, with)) /\ Bounded(i)
         /\ agents' = [agents EXCEPT ![i].enabled = ~@, ![i].revision = @ + 1]
         /\ reads' = [reads EXCEPT ![a].revision = agents[i].revision + 1]
    /\ UNCHANGED <<allowed, publishing, seeding>>

(* DELETE /:id; a built-in agent is protected. *)
Archive(a, with) ==
    /\ Op /\ Known(a)
    /\ LET i == reads[a].id IN
         /\ Matches(i, IfMatch(a, with)) /\ agents[i].slug # "builtin"
         /\ agents' = [agents EXCEPT ![i].live = FALSE, ![i].enabled = FALSE, ![i].revision = @ + 1]
    /\ UNCHANGED <<allowed, reads, publishing, seeding>>

-----------------------------------------------------------------------------
(* POST /:id/publish reads the agent and checks the draft again ...        *)
PublishCheck(a, with) ==
    /\ Op /\ Known(a) /\ publishing[a] = NULL
    /\ LET i == reads[a].id IN
         /\ agents[i].live /\ ValidDefinition(a, agents[i].draft)
         /\ publishing' = [publishing EXCEPT ![a] = [id |-> i, expected |-> IfMatch(a, with)]]
    /\ UNCHANGED <<agents, allowed, reads, seeding>>

Published(row, by, matched) ==
    [row EXCEPT !.versions = Append(@, [def |-> row.draft, by |-> by, matched |-> matched,
                                        offered |-> allowed]),
                !.published = Len(row.versions) + 1, !.revision = @ + 1]

(* ... and publishes the draft it finds then.  A miss is a 404 or a 409.   *)
Publish(a) ==
    /\ NoOp /\ publishing[a] # NULL
    /\ LET p == publishing[a] IN
         /\ agents' = IF Matches(p.id, p.expected)
                      THEN [agents EXCEPT ![p.id] = Published(@, a, p.expected # NULL)] ELSE agents
    /\ publishing' = [publishing EXCEPT ![a] = NULL]
    /\ UNCHANGED <<allowed, reads, seeding>>

-----------------------------------------------------------------------------
(* ensureBuiltinAgents(): a first boot creates the built-in agent and      *)
(* publishes it; a later one publishes what an earlier one left unpublished.*)
Builtin == {i \in 1 .. Len(agents) : agents[i].slug = "builtin"}
EnsureBuiltin ==
    /\ NoOp /\ seeding = "look"
    /\ IF Builtin # {}
       THEN seeding' = (IF \E i \in Builtin : agents[i].published = 0 THEN "publish" ELSE "done")
            /\ UNCHANGED agents
       ELSE IF allowed = {} \/ Len(agents) >= MaxAgents THEN seeding' = "done" /\ UNCHANGED agents
       ELSE /\ agents' = Append(agents, Row([model |-> CHOOSE m \in allowed : TRUE, needs |-> FALSE], "builtin"))
            /\ seeding' = "publish"
    /\ UNCHANGED <<allowed, reads, publishing>>

PublishBuiltin ==
    /\ NoOp /\ seeding = "publish" /\ seeding' = "done"
    /\ agents' = [i \in 1 .. Len(agents) |->
                    IF i \in Builtin THEN Published(agents[i], System, FALSE) ELSE agents[i]]
    /\ UNCHANGED <<allowed, reads, publishing>>

(* The api-server restarts, perhaps with other models. *)
RestartWith(ms) ==
    /\ Op /\ allowed' = ms /\ seeding' = "look"
    /\ publishing' = [a \in Authors |-> NULL]
    /\ UNCHANGED <<agents, reads>>

AgentsNext ==
    \/ \E a \in Authors :
         \/ \E d \in Definitions : CreateAgent(a, d)
         \/ \E i \in 1 .. MaxAgents : Get(a, i)
         \/ \E with \in BOOLEAN :
              \/ \E d \in Definitions : UpdateDefinition(a, d, with)
              \/ UpdateEnabled(a, with) \/ Archive(a, with) \/ PublishCheck(a, with)
         \/ Publish(a)
    \/ EnsureBuiltin \/ PublishBuiltin
    \/ \E ms \in SUBSET Models : RestartWith(ms)

-----------------------------------------------------------------------------
(* A version published under If-Match is a definition the server allowed   *)
(* when it was published, with no grant its publisher does not hold: the   *)
(* draft that was checked is the one that became the version, whoever      *)
(* edited the agent between the two.                                       *)
PublishedWasAllowed ==
    part = "agents" => \A i \in 1 .. Len(agents) : \A k \in 1 .. Len(agents[i].versions) :
        LET v == agents[i].versions[k] IN
            v.matched => v.def.model \in v.offered /\ Grantable(v.by, v.def)
=============================================================================
