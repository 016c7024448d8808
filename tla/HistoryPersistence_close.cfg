\* Writers, hydration with Redis, one failing write, and bot.close at any time.
SPECIFICATION Spec
CONSTANTS
    t1 = t1
    t2 = t2
    Ids <- Ids1
    Turns <- Two
    Kinds <- Writes
    UseRedis = TRUE
    MayClose = TRUE
    MaxErrors = 1
    MaxVer = 3
    StartRows <- FirstRow
INVARIANTS ShutdownReleases CleanCloseSaves
CHECK_DEADLOCK FALSE
