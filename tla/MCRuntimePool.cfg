SPECIFICATION RuntimeSpec
CONSTANTS
    a1 = a1  a2 = a2  k1 = k1  k2 = k2
    t1 = t1  t2 = t2  t3 = t3  p1 = p1  p2 = p2  p3 = p3
    None = None
    Agents = {a1, a2}
    Keys = {k1, k2}
    AgentOf <- MCOneAgent
    Tasks = {t1, t2, t3}
    Procs = {p1, p2, p3}
    Capacity = 2
    PerAgent = 2
    EvictIdle = TRUE
    TurnTimeout = 1  Silence = 0  Large = {}
    Offered = {"turn", "oneshot", "cancel", "reset", "reap", "reload"}
    Parts = {"pool"}
SYMMETRY Interchangeable
INVARIANTS PoolIsExact
CHECK_DEADLOCK FALSE
