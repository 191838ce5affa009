SPECIFICATION ReplicasSpec
CONSTANTS
    c1 = c1  c2 = c2
    s1 = s1  s2 = s2  s3 = s3  s4 = s4
    i1 = i1  i2 = i2  i3 = i3  i4 = i4
    NoSub = NoSub  Nobody = Nobody
    Procs = {"p1", "p2", "p3"}  Ttl = 3  RenewEvery = 1  OnTime = TRUE
    Convs = {c1, c2}
    Subs = {s1, s2, s3, s4}
    Ids = {i1, i2, i3, i4}
    ConvOf <- MCConvOf
    IdOf <- MCIdOf
    Tracked = {s1, s3, s4}
    Outcomes = {"REPLIED", "ERROR"}
    Parts = {"one after another", "side by side", "lease", "owner"}
PROPERTIES TasksEndOnce OneConnection SomebodyServes BatchesRunOnce
CHECK_DEADLOCK FALSE
