SPECIFICATION PlatformSpec
CONSTANTS
    m1 = m1  m2 = m2  m3 = m3  m4 = m4  t1 = t1  t2 = t2  d = d  x = x
    None = None
    Keys = {t1, t2}
    Msgs = {m1, m2, m3, m4}
    MaxTurns = 4
    MaxDeliveries = 2
    MaxCrashes = 1
    KeyOf <- Thread
    ConvOf <- Thread
    NamesOf <- InDM
    Processes = {"p1", "p2"}  Fetch = 4  Budget = 2  MaxNow = 11
    Parts = {"flow", "catch up", "files", "purges", "cascade", "alone", "admission", "midnight", "capped"}
    Toolset = {}  NoLookup = FALSE  All = All
INVARIANTS TurnsAreAccounted CaughtUp FilesAreKept ChannelStaysInBounds AdmittedTogether
PROPERTIES ToldOfTheLastOnly
CHECK_DEADLOCK FALSE
