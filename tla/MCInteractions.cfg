SPECIFICATION AllSpec
CONSTANTS
    Nobody = Nobody  NoSocket = Nobody
    Calls = {"c1", "c2"}  GateHosts = {"r1", "r2"}  HostOf <- MCHostOf
    Tools = {"t1"}  Grantable = {"t1"}
    Convs = {"k1", "k2"}  AskerOf <- MCAskerOf  ShownIn <- MCShownIn
    People = {"p1", "p2"}  Approvers = {}
    Ladder = {1, 3}  MaxGrant = 1  MaxNow = 1  MaxAtOnce = 1
    Questions = {"q1"}  ConvOfQ <- MCConvOfQ  Keyed = {}  Shown = {"w1"}
    Forms = {"f1", "f2"}  Handled = {"f2"}  Submits = {"d1", "d2"}
    Frames = {1, 2}  Sockets = {"s1", "s2", "s3"}  Limit = 1
INVARIANTS PromptsAreTrue CallsRunOnAnswers FramesAreKept 
CHECK_DEADLOCK FALSE
