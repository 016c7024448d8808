\* Turns that write and evict while SQLite, which holds a row, is attached;
\* no close and no failing write, with the fairness of the Go scheduler.
SPECIFICATION FairSpec
CONSTANTS
    t1 = t1
    t2 = t2
    Ids <- Ids2
    Turns <- Two
    Kinds <- WriteEvict
    UseRedis = FALSE
    MayClose = FALSE
    MaxErrors = 0
    MaxVer = 3
    StartRows <- FirstRow
INVARIANTS NoTornSnapshot CachedChangeIsPending
PROPERTIES StoredRowsSurvive EventuallySaved
CHECK_DEADLOCK FALSE
