\* bot.close between the capture of the sibling backend and its wrap.
SPECIFICATION Spec
CONSTANTS
    t1 = t1
    t2 = t2
    Ids <- Ids1
    Turns <- One
    Kinds <- Writes
    UseRedis = TRUE
    MayClose = TRUE
    MaxErrors = 0
    MaxVer = 2
    StartRows <- Empty
INVARIANT HandleOpenWhileSaving
CHECK_DEADLOCK FALSE
