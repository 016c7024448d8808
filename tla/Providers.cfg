SPECIFICATION Spec
CONSTANTS
    Prompts = {"prompt"}
    NumKeys = 3
    Budget <- SomeBudget
    MaxRounds = 3
    MaxShrinks = 1
    Contents <- SomeContents
    MaxCalls = 2
    Caching = FALSE
    MaxTurns = 3
INVARIANTS  OneStreamShown AllKeysTried CallsReachFollowUp  ReadOnce
PROPERTY PrefixKept
CHECK_DEADLOCK FALSE
