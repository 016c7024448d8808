\* bot.close between the attach of SQLite and the merge of its rows.
SPECIFICATION Spec
CONSTANTS
    t1 = t1
    t2 = t2
    Ids <- Ids2
    Turns <- One
    Kinds <- Writes
    UseRedis = FALSE
    MayClose = TRUE
    MaxErrors = 0
    MaxVer = 2
    StartRows <- FirstRow
PROPERTY StoredRowsSurvive
CHECK_DEADLOCK FALSE
