SPECIFICATION Spec
CONSTANTS
    NULL = NULL
    Parts = {"connectors", "webhooks", "wizard", "setup", "schema", "agents", "access", "queries",
             "kubernetes", "incident", "drawer", "onboarding", "feedback"}
    MaxOps <- Bounds
    Ids = {u1, u2}
    Requests = {v1, v2}
    Schedules = {w1, w2}
    MaxRuns = 1
    MaxRestarts = 1
    Overlap = FALSE
    Handlers = {u1, u2}
    MaxPushes = 2
    Tabs = {t1}
    Installations = {u1, u2}
    MaxLaunches = 2
    MaxPolls = 2
    Browsers = {u1, u2}
    Types = {team}
    Rels <- Joins
    Editors = {u1, u2}
    HistoryLimit = 2
    OverlapSaves = FALSE
    Authors = {a1, a2}
    Holders = {a1}
    Models = {m1}
    MaxAgents = 2
    MaxRevision = 3
    People = {u1, u2}
    Callbacks = {v1, v2}
    MaxLogins = 2
    MaxTokens = 2
    Callers = {u1, u2, u3}
    MaxConcurrent = 2
    PerDay = 2
    RowLimit = 1
    HopLimit = 1
    Workloads <- W
    CronJobs = {2}
    Policies <- Denials
    Accounts = {k1, k2}
    Pod = k1
    Services = {"u1", "u2"}
    Links <- Around
    Depth = 2
    MaxBlast = 1
    MaxEntries = 1
    Admins = {u1, u2}
    MaxLives = 2
    MaxLanded = 1
    Visitors = {u1, u2}
    Demo <- DemoGraph
    Seeds = {v1, v2}
    BothWrite = FALSE
    Widgets = {u1, u2}
SYMMETRY Symmetry
INVARIANTS RegistryHolds DuplicateWasTaken AttachedIsLatest CompletedBoots NoBlindOverwrite PublishedWasAllowed OneExchangePerAttempt SlotsAreSessions SuccessIsExhaustive CriticalIsShown SavesWhatWasShown ReportedIsDone OneIssuePerCooldown
CHECK_DEADLOCK FALSE
