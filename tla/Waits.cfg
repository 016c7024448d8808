\* One card with the two checks of the final render; both retry loops of a
\* reply; a round of searches with every kind of URL and a queue of one.
SPECIFICATION WaitsSpec
CONSTANTS
    EditDelay = 2
    Checks = 2
    Failing = TRUE
    Rounds <- SomeRounds
    Order <- SomeOrder
    Keyed = {"tinyfish", "exa"}
    Found <- SomeFound
    Fold <- Lower
    Kind <- SomeKinds
    Fetchers = {"youtube", "reddit"}
    MaxURLs = 2
    Limit = 2
    QueueSize = 1
    MaxRounds = 1
    MaxFailures = 2
INVARIANTS TypeOK EditsPaced FinalRestored SearchAnswers
PROPERTIES CardKeepsOff WaitsEnd
CHECK_DEADLOCK FALSE
