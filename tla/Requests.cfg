SPECIFICATION Spec
CONSTANTS
    TaskCount = 3
    Limit = 2
    Presses = {p1, p2}
    Keys = 2
    MaxObjects = 2
    Setters <- TwoCommands
    UseRedis = TRUE
    MayClose = TRUE
    MaxErrors = 1
    StartRows <- SomeRows
    Messages = {m1}
    Posts <- SomePosts
    Commands = {c1, c2, c3}
    Allowed = {"user", "admin", "owner"}
    Locked = "none"
    Tiers <- TwoTiers
    Gemini = {"gemini"}
    RoutingKeys = 2
    Default = "gemini"
    MaxFaults = 2
    Replies = {"r1", "r2"}
    Requests <- SomeRequests
    Final <- SomeLinks
    Unsafe = {"local"}
    Orders <- SomeOrders
    KeysOf <- SomeKeys
    BatchSize = 2
    MaxEntries = 2
    TTL = 2
    Shared = FALSE
    MaxClock = 3
    MaxReads = 2
    MaxFailures = 1
    Histories <- SomeHistories
    PageSize = 2
    Limits = {1, 3, 6}
    Header = 1
    Attempts = 2
    MaxChanges = 2
    MaxLosses = 2
INVARIANTS EachTaskOnce SameGistTold SavesConverge CloseFlushes   ExportIsNewest
PROPERTY MovesOneChannel
CHECK_DEADLOCK FALSE
