SPECIFICATION Spec
CONSTANTS
    Parts = {"profiles", "scopes", "login", "skills", "update", "broken copy", "deploy", "made twice", "command", "typed", "window", "tasks", "guard"}
    Lifetime = 24  Interval = 3  Margin = 12  Own = 1  Bridged = 2  MaxInRow = 3  MaxNow = 45  MaxStops = 1  MaxPlants = 1
    Calls = {"s", "t", "u"}  ToolOf <- MCToolOf  Words <- MCWords  Answers = {"1", "2"}  Ids = {"i", "j"}
    Given <- MCGiven  MaxCalls = 6  MaxTurns = 2
    Order <- MCOrder  Engine = {"s"}  Convs = {"c", "d"}  OwnerOf <- MCOwnerOf  Versions <- MCVersions  First <- MCFirst
    Baked <- Fields  Scoped <- MCScoped  Narrowed <- Fields  Bad = {"bad"}  Doubles = {}  Reloads = {"r1", "r2"}
    MaxEdited = 2  MaxBegun = 2  Absent = Absent
    Launches = {"p1", "p2", "q", "m"}  ConvOf <- MCConvOf  HostOf <- MCHostOf  FirstLevel = "conversation"
    Levels = {"conversation", "agent", "off"}  SharedDirs = {"k"}  Abi = 3  KeptDays = 0
    MaxDays = 1  MaxLevels = 1  MaxRestarts = 1  RunNamed = FALSE  Memoryless = "none"
    OnScreen = {"n"}  Shortened = {"other"}
INVARIANTS LoginIsUsable SkillsAreKept AgentsAreWhole GuardIsJust
PROPERTIES ProfilesAreWhole ProcessesAreConfined ScreensAreKept
CHECK_DEADLOCK FALSE
