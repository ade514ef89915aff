----------------------------- MODULE MCPlatform ------------------------------
(* The administrative parts for TLC: a behaviour moves one of them. *)
EXTENDS Connectors, Webhooks, GitHubApp, Setup, Schema, Agents, Access, Queries,
        Kubernetes, Incident, Drawer, Onboarding, Feedback, TLC

CONSTANT Parts

Joins == Types \X Types
Bounds ==
    [connectors |-> 3, webhooks |-> 7, wizard |-> 4, setup |-> 7, schema |-> 4,
     agents |-> 3, access |-> 5, queries |-> 5, kubernetes |-> 4, incident |-> 3,
     drawer |-> 5, onboarding |-> 5, feedback |-> 5]

(* Two kinds of workload in one namespace, one of them in a second one; and *)
(* what the roles of the two accounts may deny.                             *)
W == {<<1, 1, 1>>, <<1, 1, 2>>, <<2, 1, 1>>, <<1, 2, 1>>}
Denials == {{}, {<<1, 0>>, <<2, 0>>}, {<<1, 1>>, <<2, 1>>}, {<<2, 1>>}}
(* A dependant, a monitor, an owner and a repository of one service.        *)
Named(t) == <<t, t>>
Around == {<<Service("u2"), "DEPENDS_ON", Service("u1")>>,
           <<Named("Monitor"), "MONITORS", Service("u1")>>,
           <<Named("Team"), "OWNS", Service("u1")>>,
           <<Service("u1"), "IMPLEMENTED_BY", Named("Repository")>>}
DemoGraph == <<<<"node", 1>>, <<"node", 2>>, <<"edge", 1, 2>>>>

(* The sets of the parts share their values, so that one small group of     *)
(* permutations serves all of them.                                         *)
Symmetry == Permutations(Ids) \cup Permutations(Requests) \cup Permutations(Schedules)

(* The parts that do not move hold nothing.                                 *)
ConnectorsIdle ==
    /\ mem = NULL /\ yaml = NULL /\ blob = NULL /\ key = NULL /\ req = NULL /\ chain = NULL
    /\ scheds = NULL /\ queue = NULL /\ working = NULL /\ status = NULL /\ runs = NULL
    /\ restarts = NULL /\ torn = NULL /\ behind = NULL
WebhooksIdle ==
    /\ head = NULL /\ handler = NULL /\ seen = NULL /\ refetch = NULL /\ reading = NULL
    /\ published = NULL /\ connector = NULL /\ trust = NULL /\ verified = NULL
    /\ taken = NULL /\ lapsed = NULL
AppIdle ==
    /\ launches = NULL /\ stateTokens = NULL /\ exchanges = NULL /\ slots = NULL
    /\ globalApp = NULL /\ record = NULL /\ tab = NULL /\ installed = NULL
SetupIdle ==
    /\ vault = NULL /\ operator = NULL /\ env = NULL /\ session = NULL /\ server = NULL
    /\ restarting = NULL /\ request = NULL /\ page = NULL
SchemaIdle ==
    /\ schemaFile = NULL /\ history = NULL /\ memory = NULL /\ updates = NULL
    /\ editor = NULL /\ known = NULL
AgentsIdle ==
    /\ agents = NULL /\ allowed = NULL /\ reads = NULL /\ publishing = NULL
    /\ seeding = NULL
AccessIdle ==
    /\ admins = NULL /\ allowList = NULL /\ logins = NULL /\ states = NULL
    /\ callback = NULL /\ sessions = NULL /\ people = NULL /\ tokens = NULL
    /\ minting = NULL /\ exchanged = NULL
QueriesIdle ==
    /\ granted = NULL /\ call = NULL /\ running = NULL /\ open = NULL /\ used = NULL
    /\ withheld = NULL
KubernetesIdle ==
    /\ exists = NULL /\ crashed = NULL /\ denies = NULL /\ file = NULL /\ wizard = NULL
    /\ cluster = NULL /\ run = NULL /\ node = NULL /\ standing = NULL /\ outcome = NULL
IncidentIdle ==
    /\ edges = NULL /\ grade = NULL /\ gone = NULL /\ viewing = NULL /\ cached = NULL
    /\ asking = NULL /\ paused = NULL /\ online = NULL /\ old = NULL /\ viewed = NULL
DrawerIdle ==
    /\ row = NULL /\ life = NULL /\ queued = NULL /\ runsKept = NULL /\ drawer = NULL
    /\ draft = NULL /\ polling = NULL /\ sent = NULL /\ conflict = NULL /\ unseen = NULL
OnboardingIdle ==
    /\ config = NULL /\ readonly = NULL /\ writing = NULL /\ bundle = NULL /\ neo4j = NULL
    /\ graph = NULL /\ seedRuns = NULL /\ dialog = NULL /\ done = NULL /\ kept = NULL
FeedbackIdle ==
    /\ feedback = NULL /\ limiter = NULL /\ cooldown = NULL /\ form = NULL /\ report = NULL
    /\ issues = NULL

Init ==
    /\ PlatformInit(Parts)
    /\ IF part = "connectors" THEN ConnectorsInit ELSE ConnectorsIdle
    /\ IF part = "webhooks" THEN WebhooksInit ELSE WebhooksIdle
    /\ IF part = "wizard" THEN AppInit ELSE AppIdle
    /\ IF part = "setup" THEN SetupInit ELSE SetupIdle
    /\ IF part = "schema" THEN SchemaInit ELSE SchemaIdle
    /\ IF part = "agents" THEN AgentsInit ELSE AgentsIdle
    /\ IF part = "access" THEN AccessInit ELSE AccessIdle
    /\ IF part = "queries" THEN QueriesInit ELSE QueriesIdle
    /\ IF part = "kubernetes" THEN KubernetesInit ELSE KubernetesIdle
    /\ IF part = "incident" THEN IncidentInit ELSE IncidentIdle
    /\ IF part = "drawer" THEN DrawerInit ELSE DrawerIdle
    /\ IF part = "onboarding" THEN OnboardingInit ELSE OnboardingIdle
    /\ IF part = "feedback" THEN FeedbackInit ELSE FeedbackIdle

vars == <<part, ops, connectorVars, webhookVars, appVars, setupVars, schemaVars, agentVars,
          accessVars, queryVars, kubernetesVars, incidentVars, drawerVars, onboardingVars,
          feedbackVars>>

Next ==
    \/ /\ part = "connectors" /\ ConnectorsNext
       /\ UNCHANGED <<webhookVars, appVars, setupVars, schemaVars, agentVars, accessVars,
                       queryVars, kubernetesVars, incidentVars, drawerVars, onboardingVars,
                       feedbackVars>>
    \/ /\ part = "webhooks" /\ WebhooksNext
       /\ UNCHANGED <<connectorVars, appVars, setupVars, schemaVars, agentVars,
                       accessVars, queryVars, kubernetesVars, incidentVars, drawerVars,
                       onboardingVars, feedbackVars>>
    \/ /\ part = "wizard" /\ AppNext
       /\ UNCHANGED <<connectorVars, webhookVars, setupVars, schemaVars, agentVars,
                       accessVars, queryVars, kubernetesVars, incidentVars, drawerVars,
                       onboardingVars, feedbackVars>>
    \/ /\ part = "setup" /\ SetupNext
       /\ UNCHANGED <<connectorVars, webhookVars, appVars, schemaVars, agentVars,
                       accessVars, queryVars, kubernetesVars, incidentVars, drawerVars,
                       onboardingVars, feedbackVars>>
    \/ /\ part = "schema" /\ SchemaNext
       /\ UNCHANGED <<connectorVars, webhookVars, appVars, setupVars, agentVars,
                       accessVars, queryVars, kubernetesVars, incidentVars, drawerVars,
                       onboardingVars, feedbackVars>>
    \/ /\ part = "agents" /\ AgentsNext
       /\ UNCHANGED <<connectorVars, webhookVars, appVars, setupVars, schemaVars,
                       accessVars, queryVars, kubernetesVars, incidentVars, drawerVars,
                       onboardingVars, feedbackVars>>
    \/ /\ part = "access" /\ AccessNext
       /\ UNCHANGED <<connectorVars, webhookVars, appVars, setupVars, schemaVars,
                       agentVars, queryVars, kubernetesVars, incidentVars, drawerVars,
                       onboardingVars, feedbackVars>>
    \/ /\ part = "queries" /\ QueriesNext
       /\ UNCHANGED <<connectorVars, webhookVars, appVars, setupVars, schemaVars,
                       agentVars, accessVars, kubernetesVars, incidentVars, drawerVars,
                       onboardingVars, feedbackVars>>
    \/ /\ part = "kubernetes" /\ KubernetesNext
       /\ UNCHANGED <<connectorVars, webhookVars, appVars, setupVars, schemaVars,
                       agentVars, accessVars, queryVars, incidentVars, drawerVars,
                       onboardingVars, feedbackVars>>
    \/ /\ part = "incident" /\ IncidentNext
       /\ UNCHANGED <<connectorVars, webhookVars, appVars, setupVars, schemaVars,
                       agentVars, accessVars, queryVars, kubernetesVars, drawerVars,
                       onboardingVars, feedbackVars>>
    \/ /\ part = "drawer" /\ DrawerNext
       /\ UNCHANGED <<connectorVars, webhookVars, appVars, setupVars, schemaVars,
                       agentVars, accessVars, queryVars, kubernetesVars, incidentVars,
                       onboardingVars, feedbackVars>>
    \/ /\ part = "onboarding" /\ OnboardingNext
       /\ UNCHANGED <<connectorVars, webhookVars, appVars, setupVars, schemaVars,
                       agentVars, accessVars, queryVars, kubernetesVars, incidentVars,
                       drawerVars, feedbackVars>>
    \/ /\ part = "feedback" /\ FeedbackNext
       /\ UNCHANGED <<connectorVars, webhookVars, appVars, setupVars, schemaVars,
                       agentVars, accessVars, queryVars, kubernetesVars, incidentVars,
                       drawerVars, onboardingVars>>

Spec == Init /\ [][Next]_vars
=============================================================================
