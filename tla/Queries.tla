------------------------------- MODULE Queries -------------------------------
(***************************************************************************)
(* Raw Cypher queries: POST /query of the api-server and graph_query of    *)
(* the MCP server, both through runReadOnlyQuery() (routes/query, cypher-  *)
(* query-service, mcp-server auth, index, daily-budget, graph-query and    *)
(* read-only-query), for the callers of one process and one driver.        *)
(***************************************************************************)
EXTENDS Platform

CONSTANTS
    Callers,        \* each has one request at a time and one token
    MaxConcurrent,  \* MAX_CONCURRENT
    PerDay,         \* graphQueryPerDay
    RowLimit,
    HopLimit

(* A request that has passed its checks: where it stands, the rows it has. *)
Calls == [at : {"run", "read", "close"}, rows : 0 .. RowLimit]

ASSUME QueriesAssumption ==
    /\ MaxConcurrent \in Nat /\ PerDay \in Nat /\ RowLimit \in Nat /\ HopLimit \in Nat
    /\ NULL \notin Calls

VARIABLES
    granted,    \* per caller: the scopes of its token, or NULL once it is revoked
    call,       \* per caller: its request, or NULL
    running,    \* the counter of runReadOnlyQuery()
    open,       \* driver sessions that are not closed: their caller and whether it waits
    used,       \* the budget: calls per caller today
    withheld    \* whether a row of an internal node has been withheld

queryVars == <<granted, call, running, open, used, withheld>>

Unbounded == -1
Texts ==    \* what the guard and the hop check tell apart in a query
    [writes : BOOLEAN, hops : {0, HopLimit, HopLimit + 1, Unbounded}]

QueriesInit ==
    /\ granted \in [Callers -> SUBSET {"mcp:invoke", "graph:query"}]
    /\ call = [c \in Callers |-> NULL] /\ running = 0 /\ open = {}
    /\ used = [c \in Callers |-> 0] /\ withheld = FALSE

-----------------------------------------------------------------------------
(* checkReadOnlyCypher() and hopBounds(). *)
ReadOnlyCypher(text) == ~text.writes
HopsWithin(text) == text.hops # Unbounded /\ text.hops <= HopLimit

(* requireRawQueryAccess(), authorizeMcpRequest() and the tool's own check.*)
RawQueryAccess(c) == granted[c] # NULL /\ "graph:query" \in granted[c]
AuthorizeMcpRequest(c) == granted[c] # NULL /\ "mcp:invoke" \in granted[c]

Begun(c) == call' = [call EXCEPT ![c] = [at |-> "run", rows |-> 0]]

PostQuery(c, text) ==
    /\ Op /\ call[c] = NULL /\ RawQueryAccess(c) /\ ReadOnlyCypher(text) /\ Begun(c)
    /\ UNCHANGED <<granted, running, open, used, withheld>>

(* take() counts the call, whatever becomes of it then. *)
GraphQuery(c, text) ==
    /\ Op /\ call[c] = NULL /\ AuthorizeMcpRequest(c) /\ RawQueryAccess(c)
    /\ ReadOnlyCypher(text) /\ HopsWithin(text)
    /\ used[c] < PerDay /\ used' = [used EXCEPT ![c] = @ + 1]
    /\ Begun(c)
    /\ UNCHANGED <<granted, running, open, withheld>>

Midnight ==
    /\ Op /\ used' = [c \in Callers |-> 0]
    /\ UNCHANGED <<granted, call, running, open, withheld>>

RevokeToken(c) ==
    /\ Op /\ granted[c] # NULL /\ granted' = [granted EXCEPT ![c] = NULL]
    /\ UNCHANGED <<call, running, open, used, withheld>>

-----------------------------------------------------------------------------
Is(c, at) == call[c] # NULL /\ call[c].at = at
Over(c) == call' = [call EXCEPT ![c] = NULL]

(* The count is read and raised without an await between the two. *)
EnterOrBusy(c) ==
    /\ NoOp /\ Is(c, "run")
    /\ IF running >= MaxConcurrent
       THEN Over(c) /\ UNCHANGED <<running, open>>
       ELSE /\ running' = running + 1
            /\ open' = open \cup {[of |-> c, waited |-> TRUE]}
            /\ call' = [call EXCEPT ![c].at = "read"]
    /\ UNCHANGED <<granted, used, withheld>>

(* A row, which may hold an internal node; one more than RowLimit is only  *)
(* looked for.                                                             *)
ReadRow(c, internal) ==
    /\ NoOp /\ Is(c, "read") /\ call[c].rows < RowLimit
    /\ call' = [call EXCEPT ![c].rows = @ + 1]
    /\ withheld' = (withheld \/ internal)
    /\ UNCHANGED <<granted, running, open, used>>

(* The rows are read, or the query fails: rollback, then close().          *)
ReadEnds(c) ==
    /\ NoOp /\ Is(c, "read") /\ call' = [call EXCEPT ![c].at = "close"]
    /\ UNCHANGED <<granted, running, open, used, withheld>>

(* Faulty variant of GivesUp: the slot is given back with the answer. *)
GivesUpAndLeaves(c) ==
    /\ Op /\ Is(c, "read") /\ Over(c)
    /\ open' = (open \ {[of |-> c, waited |-> TRUE]}) \cup {[of |-> c, waited |-> FALSE]}
    /\ running' = running - 1
    /\ UNCHANGED <<granted, used, withheld>>

(* The timer wins the race: the caller is answered, and the session closes *)
(* when it closes (bound: one abandoned session per caller).               *)
GivesUp(c) ==
    /\ Op /\ Is(c, "read") /\ [of |-> c, waited |-> FALSE] \notin open
    /\ Over(c)
    /\ open' = (open \ {[of |-> c, waited |-> TRUE]}) \cup {[of |-> c, waited |-> FALSE]}
    /\ UNCHANGED <<granted, running, used, withheld>>

(* close() has settled, either way: leave(). *)
SessionCloses(s) ==
    /\ NoOp /\ s \in open /\ (s.waited => Is(s.of, "close"))
    /\ open' = open \ {s} /\ running' = running - 1
    /\ call' = IF s.waited THEN [call EXCEPT ![s.of] = NULL] ELSE call
    /\ UNCHANGED <<granted, used, withheld>>

QueriesNext ==
    \/ \E c \in Callers :
         \/ \E text \in Texts : PostQuery(c, text) \/ GraphQuery(c, text)
         \/ RevokeToken(c) \/ EnterOrBusy(c) \/ ReadEnds(c) \/ GivesUp(c)
         \/ \E internal \in BOOLEAN : ReadRow(c, internal)
    \/ Midnight
    \/ \E s \in open : SessionCloses(s)

-----------------------------------------------------------------------------
(* The counter of raw queries is the number of driver sessions that are    *)
(* not closed, those of callers that were answered with a timeout          *)
(* included, and never above the limit: a slow database is not given more  *)
(* queries than the limit because callers have stopped waiting.            *)
SlotsAreSessions ==
    part = "queries" => running = Cardinality(open) /\ Cardinality(open) <= MaxConcurrent
=============================================================================
