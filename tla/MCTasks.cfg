SPECIFICATION TasksSpec
CONSTANTS
    r = r  o = o  w = w  e1 = e1  e2 = e2  e3 = e3
    None = None
    Engines = {e1, e2}
    Solo = FALSE
    Tasks = {r, o}
    Period <- MCPeriod
    At <- MCAt
    Jitter <- NoJitter
    SkipLate = {}
    Watches = {}
    Expires <- MCExpires
    Grace <- MCGrace
    Slack = 1
    StartupGrace = 2
    MaxConcurrent = 1
    MaxFailures = 2
    Keep = 1
    Retention = 1
    Admin = {}
    MaxAsked = 0
    Horizon = 4
    Parts = {"sqlite", "mongo"}
    FirstUp = {"e"}  Alone = FALSE  Nobody = None  MaxClock = 3
    Replicas = {"e", "f"}  MaxRemoved = 2  MaxCrashed = 1
SYMMETRY AnyStart
PROPERTIES DecidedOnce MongoDecidesOnce
CHECK_DEADLOCK FALSE
