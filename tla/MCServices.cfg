SPECIFICATION AllSpec
CONSTANTS
    Parts = {"ward", "edits", "folds", "vault", "rotations", "setup", "stdio", "http", "pins", "trusted", "reloads", "full disk", "two servers", "connections", "moves", "door", "old door"}
    Keep = Keep  NoPolicy = NoPolicy  NoGrant = NoGrant  Newest = Newest  NoId = NoId  None = None  Nobody = Nobody  All = All
    Sessions = {"s1", "s2"}  Tools = {"t", "u"}  Confirmed = {"u"}  Needs <- MCNeeds
    GatewayOf <- MCGatewayOf  Caps <- MCCaps  Sets <- MCSets
    Calls = {"k1", "k2", "k3"}  From <- MCFrom  Named <- MCNamed  ToolOf <- MCToolOf
    MaxSpawns = 2  MaxTurns = 1  MaxMoves = 1
INVARIANTS SecretsByAuthority CallsRunOnce
PROPERTIES VaultStaysOpen ToolsAreReviewed GrantsAreKept DoorIsKept
CHECK_DEADLOCK FALSE
