\* One command while the stored row is being wired and loaded; no Redis, no
\* close and no failure.
SPECIFICATION StateSpec
CONSTANTS
    Setters <- One
    UseRedis = FALSE
    MayClose = FALSE
    MaxErrors = 0
    StartRows <- Stored
PROPERTY StoredSelectionsSurvive
CHECK_DEADLOCK FALSE
