-------------------------------- MODULE Setup --------------------------------
(***************************************************************************)
(* First-run setup: what the deployment keeps in Secret Manager, the       *)
(* environment of the running api-server, the gates that only an operator  *)
(* can open, and the setup page (setup-service, routes/setup, hydrate,     *)
(* auth-bootability, the boot of index.ts, the setup page).  A value is    *)
(* present or absent.                                                      *)
(***************************************************************************)
EXTENDS Platform

CONSTANT Browsers

VARIABLES
    vault,      \* Secret Manager: the secrets that have a version
    operator,   \* the operator's gates that are open: session secret, allowed origins
    env,        \* the running process: the secrets its environment holds
    session,    \* the session secret, as the boot has found it
    server,     \* "down", "setup", "active" or "failed" (the boot has thrown)
    restarting, \* whether scheduleRestart() has been called
    request,    \* per browser: the request the server works on, or NULL
    page        \* per browser: the setup page

processVars == <<env, session, server, restarting>>
setupVars == <<vault, operator, processVars, request, page>>

Secrets == {"admins", "id", "secret"}
Gates == {"session", "origins"}
Wizard == [at |-> "wizard", step |-> "admin", busy |-> FALSE, loaded |-> FALSE]
OnPage(b, where) == page[b].at = where
Probing == [Wizard EXCEPT !.at = "probing"]

SetupInit ==
    /\ vault = {} /\ operator \in SUBSET Gates
    /\ env = {} /\ session = FALSE /\ server = "down" /\ restarting = FALSE
    /\ request = [b \in Browsers |-> NULL] /\ page = [b \in Browsers |-> Probing]

-----------------------------------------------------------------------------
(* applyDerivedAuthConfig() and evaluateAuthBootability(): the gates that  *)
(* are missing when these secrets and this session secret are resolved.    *)
ProviderDerived(secrets) == {"id", "secret"} \subseteq secrets
AdminsDerived(secrets) == "admins" \in secrets
Missing(secrets, signed) ==
    {g \in {"provider", "admins", "origins", "session"} :
        CASE g = "provider" -> ~ProviderDerived(secrets)
          [] g = "admins" -> ~AdminsDerived(secrets)
          [] g = "origins" -> "origins" \notin operator
          [] g = "session" -> ~signed}
Bootable(secrets, signed) == Missing(secrets, signed) = {}

WizardFixable == {"provider", "admins"}
ShouldEnterSetupMode(secrets, signed) ==
    /\ ~Bootable(secrets, signed)
    /\ "done" \notin vault
    /\ \/ secrets = {} /\ ~signed
       \/ Missing(secrets, signed) \subseteq WizardFixable

(* hydrateSecrets() copies the store into the environment of the new       *)
(* process; a boot that is neither bootable nor in setup mode throws.      *)
Boot ==
    /\ server \in {"down", "failed"} /\ IF server = "failed" THEN Op ELSE NoOp
    /\ LET held == vault \cap Secrets
           signed == "session" \in operator IN
         /\ env' = held /\ session' = signed
         /\ server' = IF Bootable(held, signed) THEN "active"
                      ELSE IF ShouldEnterSetupMode(held, signed) THEN "setup" ELSE "failed"
    /\ restarting' = FALSE
    /\ UNCHANGED <<vault, operator, request, page>>

(* The process ends: a crash, or the restart that complete() scheduled.    *)
(* The requests it worked on fail in their pages.                          *)
ProcessEnds ==
    /\ server \in {"setup", "active"} /\ IF restarting THEN NoOp ELSE Op
    /\ server' = "down" /\ restarting' = FALSE /\ env' = {} /\ session' = FALSE
    /\ request' = [b \in Browsers |-> NULL]
    /\ page' = [b \in Browsers |-> [page[b] EXCEPT !.busy = FALSE]]
    /\ UNCHANGED <<vault, operator>>

OperatorOpens(g) ==
    /\ Op /\ g \in Gates \ operator /\ operator' = operator \cup {g}
    /\ UNCHANGED <<vault, processVars, request, page>>

-----------------------------------------------------------------------------
(* What a request writes into the store, in this order, and the variables  *)
(* of the environment it sets when all of it is written.                   *)
Writes(kind) ==
    CASE kind = "admin" -> <<"admins">>
      [] kind = "github" -> <<"id", "secret">>
      [] kind = "finish" -> <<"done">>
Sets(kind) == CASE kind = "admin" -> {"admins"} [] kind = "github" -> {"id", "secret"} [] OTHER -> {}

Answer(b, ok) ==
    page' = [page EXCEPT ![b] =
        IF ~@.busy THEN @
        ELSE IF ~ok THEN [@ EXCEPT !.busy = FALSE]
        ELSE CASE @.step = "admin" -> [@ EXCEPT !.busy = FALSE, !.step = "github"]
               [] @.step = "github" -> [@ EXCEPT !.busy = FALSE, !.step = "finish"]
               [] OTHER -> [@ EXCEPT !.busy = FALSE, !.at = "restarting"]]

(* The form of the page's step; refused outside setup mode, and complete() *)
(* also while the next boot would fail with what is resolved now.          *)
Accepted(kind) == server = "setup" /\ (kind = "finish" => Bootable(env, session))

(* Faulty variant of Submit: the environment is set before the store is written.   *)
SubmitEnvFirst(b) ==
    /\ Op /\ OnPage(b, "wizard") /\ ~page[b].busy /\ request[b] = NULL /\ server # "down"
    /\ Accepted(page[b].step)
    /\ request' = [request EXCEPT ![b] = [kind |-> page[b].step, left |-> Writes(page[b].step)]]
    /\ env' = env \cup Sets(page[b].step)
    /\ page' = [page EXCEPT ![b].busy = TRUE]
    /\ UNCHANGED <<vault, operator, session, server, restarting>>

Submit(b) ==
    /\ Op /\ OnPage(b, "wizard") /\ ~page[b].busy /\ request[b] = NULL /\ server # "down"
    /\ Accepted(page[b].step)
    /\ request' = [request EXCEPT ![b] = [kind |-> page[b].step, left |-> Writes(page[b].step)]]
    /\ page' = [page EXCEPT ![b].busy = TRUE]
    /\ UNCHANGED <<vault, operator, processVars>>

(* One write of Secret Manager. *)
StoreWrite(b) ==
    /\ NoOp /\ request[b] # NULL /\ request[b].left # <<>>
    /\ vault' = vault \cup {Head(request[b].left)}
    /\ request' = [request EXCEPT ![b].left = Tail(@)]
    /\ UNCHANGED <<operator, processVars, page>>

(* A write fails, with or without having added the version: a 500.         *)
WriteFails(b, added) ==
    /\ Op /\ request[b] # NULL /\ request[b].left # <<>>
    /\ vault' = IF added THEN vault \cup {Head(request[b].left)} ELSE vault
    /\ request' = [request EXCEPT ![b] = NULL] /\ Answer(b, FALSE)
    /\ UNCHANGED <<operator, processVars>>

(* All is written: the live environment follows, and complete() schedules  *)
(* the restart.                                                            *)
Acknowledge(b) ==
    /\ NoOp /\ request[b] # NULL /\ request[b].left = <<>>
    /\ env' = env \cup Sets(request[b].kind)
    /\ restarting' = (restarting \/ request[b].kind = "finish")
    /\ request' = [request EXCEPT ![b] = NULL] /\ Answer(b, TRUE)
    /\ UNCHANGED <<vault, operator, session, server>>

-----------------------------------------------------------------------------
(* The page asks for the server's mode, then shows the wizard, the login   *)
(* page or that nothing answers.                                           *)
Mode == IF server \in {"setup", "active"} THEN server ELSE "unreachable"
Probe(b) ==
    /\ NoOp /\ OnPage(b, "probing")
    /\ page' = [page EXCEPT ![b] =
         CASE Mode = "setup" -> Wizard
           [] Mode = "active" -> [@ EXCEPT !.at = "login"]
           [] OTHER -> [@ EXCEPT !.at = "unreachable"]]
    /\ UNCHANGED <<vault, operator, processVars, request>>

(* The status of the gates puts the wizard at its first open step.         *)
FetchStatus(b) ==
    /\ NoOp /\ OnPage(b, "wizard") /\ ~page[b].loaded /\ server \in {"setup", "active"}
    /\ page' = [page EXCEPT ![b].loaded = TRUE,
         ![b].step = IF "admins" \notin env THEN @
                     ELSE IF ProviderDerived(env) THEN "finish" ELSE "github"]
    /\ UNCHANGED <<vault, operator, processVars, request>>

PollRestart(b) ==
    /\ NoOp /\ OnPage(b, "restarting") /\ Mode = "active"
    /\ page' = [page EXCEPT ![b].at = "login"]
    /\ UNCHANGED <<vault, operator, processVars, request>>

(* RESTART_POLL_LIMIT polls without an active server. *)
RestartTimesOut(b) ==
    /\ NoOp /\ OnPage(b, "restarting") /\ Mode # "active"
    /\ page' = [page EXCEPT ![b].at = "restart-timeout"]
    /\ UNCHANGED <<vault, operator, processVars, request>>

Reload(b) ==
    /\ Op /\ page[b].at # "probing" /\ page' = [page EXCEPT ![b] = Probing]
    /\ UNCHANGED <<vault, operator, processVars, request>>

SetupNext ==
    \/ Boot \/ ProcessEnds
    \/ \E g \in Gates : OperatorOpens(g)
    \/ \E b \in Browsers :
         \/ Submit(b) \/ StoreWrite(b) \/ Acknowledge(b)
         \/ \E added \in BOOLEAN : WriteFails(b, added)
         \/ Probe(b) \/ FetchStatus(b) \/ PollRestart(b) \/ RestartTimesOut(b) \/ Reload(b)

-----------------------------------------------------------------------------
(* Once setup is recorded as completed, which locks the setup endpoints    *)
(* for good, the next boot needs nothing more: what complete() found in    *)
(* the process was in Secret Manager by then, whatever writes failed and   *)
(* wherever the process died.                                              *)
CompletedBoots ==
    part = "setup" /\ "done" \in vault => Bootable(vault \cap Secrets, "session" \in operator)
=============================================================================
