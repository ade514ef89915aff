------------------------------- MODULE Access --------------------------------
(***************************************************************************)
(* Signing in, sessions and access tokens (routes/auth, state-store, the   *)
(* providers, redis-session-store, require-auth, token-service,            *)
(* routes/tokens).  Sign-in attempts are numbered; the number stands for   *)
(* the state token and the verifier kept under it.  A person's             *)
(* capabilities are written into the session at sign-in.                   *)
(***************************************************************************)
EXTENDS Platform

CONSTANTS
    People,
    Callbacks,  \* callback requests handled at a time
    MaxLogins,  \* bound
    MaxTokens   \* bound

ASSUME AccessAssumption == MaxLogins \in Nat /\ MaxTokens \in Nat

VARIABLES
    admins,     \* accessControl.auth.admins of the running server
    allowList,  \* accessControl.auth.allowList, empty for everyone
    logins,     \* sign-in attempts so far
    states,     \* attempts whose state is in Redis
    callback,   \* per callback request: its attempt and where it stands, or NULL
    sessions,   \* per person: the capabilities in the session, or NULL
    people,     \* Person entities published to the event bus
    tokens,     \* the access tokens
    minting,    \* POST /tokens past its checks: owner and scopes, or NULL
    exchanged   \* attempts whose code was exchanged, as a sequence (history)

loginVars == <<logins, states, callback, people, exchanged>>
tokenVars == <<tokens, minting>>
accessVars == <<admins, allowList, loginVars, sessions, tokenVars>>

TokenScopes == {"mcp:invoke", "graph:read", "graph:query"}
MemberCapabilities == {"graph:read", "graph:write"}
All == TokenScopes \cup MemberCapabilities

AccessInit ==
    /\ admins \in SUBSET People
    /\ allowList \in SUBSET People
    /\ logins = 0 /\ states = {} /\ callback = [c \in Callbacks |-> NULL] /\ people = {}
    /\ sessions = [p \in People |-> NULL] /\ tokens = <<>> /\ minting = NULL
    /\ exchanged = <<>>

ResolveRole(p) == IF p \in admins THEN "admin" ELSE "member"
CapabilitiesForRole(role) == IF role = "admin" THEN All ELSE MemberCapabilities
PassesAllowList(p) == allowList = {} \/ p \in allowList

-----------------------------------------------------------------------------
(* GET /login/:provider *)
StartAuthorization ==
    /\ Op /\ logins < MaxLogins
    /\ logins' = logins + 1 /\ states' = states \cup {logins + 1}
    /\ UNCHANGED <<admins, allowList, callback, people, exchanged, sessions, tokenVars>>

(* GET /callback/:provider: any state the provider was sent, as often as   *)
(* the browser repeats the request.                                        *)
Callback(c, n) ==
    /\ Op /\ callback[c] = NULL /\ n \in 1 .. logins
    /\ callback' = [callback EXCEPT ![c] = [attempt |-> n, at |-> "consume"]]
    /\ UNCHANGED <<admins, allowList, logins, states, people, exchanged, sessions, tokenVars>>

(* Faulty variant of Consume: the state is read here and left to its TTL. *)
ConsumeLater(c) ==
    /\ NoOp /\ callback[c] # NULL /\ callback[c].at = "consume"
    /\ callback' = [callback EXCEPT ![c] =
         IF callback[c].attempt \in states THEN [@ EXCEPT !.at = "exchange"] ELSE NULL]
    /\ UNCHANGED <<admins, allowList, logins, states, people, exchanged, sessions, tokenVars>>

(* consume() is one GETDEL; a state that is not there ends the callback.   *)
Consume(c) ==
    /\ NoOp /\ callback[c] # NULL /\ callback[c].at = "consume"
    /\ states' = states \ {callback[c].attempt}
    /\ callback' = [callback EXCEPT ![c] =
         IF callback[c].attempt \in states THEN [@ EXCEPT !.at = "exchange"] ELSE NULL]
    /\ UNCHANGED <<admins, allowList, logins, people, exchanged, sessions, tokenVars>>

(* The provider exchanges the code and says who it is; the session takes   *)
(* the role of now, unless the account is not on the allow list.  The      *)
(* Person entity is published without waiting, and its failure is logged.  *)
Exchange(c, p) ==
    /\ NoOp /\ callback[c] # NULL /\ callback[c].at = "exchange"
    /\ callback' = [callback EXCEPT ![c] = NULL]
    /\ exchanged' = Append(exchanged, callback[c].attempt)
    /\ LET role == ResolveRole(p)
           enters == role = "admin" \/ PassesAllowList(p) IN
         /\ sessions' = IF enters THEN [sessions EXCEPT ![p] = CapabilitiesForRole(role)] ELSE sessions
         /\ people' \in IF enters THEN {people, people \cup {p}} ELSE {people}
    /\ UNCHANGED <<admins, allowList, logins, states, tokenVars>>

(* The provider refuses, or its answer cannot be used. *)
ExchangeFailed(c) ==
    /\ Op /\ callback[c] # NULL /\ callback[c].at = "exchange"
    /\ callback' = [callback EXCEPT ![c] = NULL]
    /\ UNCHANGED <<admins, allowList, logins, states, people, exchanged, sessions, tokenVars>>

(* STATE_TTL_SECONDS *)
StateExpires(n) ==
    /\ Op /\ n \in states /\ states' = states \ {n}
    /\ UNCHANGED <<admins, allowList, logins, callback, people, exchanged, sessions, tokenVars>>

(* POST /logout, or twelve hours. *)
SessionEnds(p) ==
    /\ NoOp /\ sessions[p] # NULL /\ sessions' = [sessions EXCEPT ![p] = NULL]
    /\ UNCHANGED <<admins, allowList, loginVars, tokenVars>>

(* The api-server restarts, perhaps with other lists; Redis and the graph  *)
(* keep what they have.                                                    *)
RestartWithLists(as, ls) ==
    /\ Op /\ admins' = as /\ allowList' = ls
    /\ callback' = [c \in Callbacks |-> NULL] /\ minting' = NULL
    /\ UNCHANGED <<logins, states, people, exchanged, sessions, tokens>>

-----------------------------------------------------------------------------
(* resolveContext(): a request carries a token or a session. *)
ValidToken(k) == k \in 1 .. Len(tokens) /\ ~tokens[k].revoked
Contexts ==
    {[owner |-> p, caps |-> sessions[p]] : p \in {p \in People : sessions[p] # NULL}}
    \cup {[owner |-> tokens[k].owner, caps |-> tokens[k].scopes] : k \in {k \in 1 .. Len(tokens) : ValidToken(k)}}

(* POST /tokens: known scopes, each within the reach of the request.       *)
Mint(ctx, scopes) ==
    /\ Op /\ minting = NULL /\ Len(tokens) < MaxTokens /\ ctx \in Contexts
    /\ scopes \subseteq ctx.caps
    /\ minting' = [owner |-> ctx.owner, scopes |-> scopes]
    /\ UNCHANGED <<admins, allowList, loginVars, sessions, tokens>>

CreateToken ==
    /\ NoOp /\ minting # NULL /\ minting' = NULL
    /\ tokens' = Append(tokens, [owner |-> minting.owner, scopes |-> minting.scopes, revoked |-> FALSE])
    /\ UNCHANGED <<admins, allowList, loginVars, sessions>>

(* DELETE /tokens/:id, for the owner's own tokens, with a session or with  *)
(* any of the owner's tokens.                                              *)
Revoke(ctx, k) ==
    /\ NoOp /\ ctx \in Contexts /\ ValidToken(k) /\ tokens[k].owner = ctx.owner
    /\ tokens' = [tokens EXCEPT ![k].revoked = TRUE]
    /\ UNCHANGED <<admins, allowList, loginVars, sessions, minting>>

AccessNext ==
    \/ StartAuthorization \/ CreateToken
    \/ \E c \in Callbacks :
         \/ \E n \in 1 .. MaxLogins : Callback(c, n)
         \/ Consume(c) \/ ExchangeFailed(c)
         \/ \E p \in People : Exchange(c, p)
    \/ \E n \in 1 .. MaxLogins : StateExpires(n)
    \/ \E p \in People : SessionEnds(p)
    \/ \E as, ls \in SUBSET People : RestartWithLists(as, ls)
    \/ \E ctx \in Contexts :
         \/ \E scopes \in SUBSET TokenScopes : Mint(ctx, scopes)
         \/ \E k \in 1 .. MaxTokens : Revoke(ctx, k)

-----------------------------------------------------------------------------
(* A sign-in attempt is exchanged at most once, however often its callback *)
(* is requested and however these requests overlap.                        *)
OneExchangePerAttempt ==
    part = "access" => \A i, j \in 1 .. Len(exchanged) : exchanged[i] = exchanged[j] => i = j
=============================================================================
