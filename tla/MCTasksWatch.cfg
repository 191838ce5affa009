SPECIFICATION FairTasksSpec
CONSTANTS
    r = r  o = o  w = w  e1 = e1  e2 = e2  e3 = e3
    None = None
    Engines = {e1, e2}
    Solo = TRUE
    Tasks = {w}
    Period <- MCPeriod
    At <- MCAt
    Jitter <- NoJitter
    SkipLate = {}
    Watches = {w}
    Expires <- MCExpires
    Grace <- MCGrace
    Slack = 1
    StartupGrace = 2
    MaxConcurrent = 1
    MaxFailures = 2
    Keep = 1
    Retention = 1
    Admin = {"pause", "resume", "run_now", "delete"}
    MaxAsked = 1
    Horizon = 6
    Parts = {"sqlite"}
    FirstUp = {"e"}  Alone = FALSE  Nobody = None  MaxClock = 3
    Replicas = {"e"}  MaxRemoved = 0  MaxCrashed = 0
PROPERTIES WatchIsSettled
CHECK_DEADLOCK FALSE
