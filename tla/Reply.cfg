\* Two texts of up to two segments, two streams a round, one failing render
\* and a fallback model.
SPECIFICATION Spec
CONSTANTS
    a = a
    b = b
    Contents <- Two
    Linked = a
    Tabled <- None
    MaxSegments = 2
    MaxFailures = 1
    MaxStreams = 2
    MaxUnoffered = 2
    Fallback = TRUE
INVARIANTS TypeOK LockedArePending SuccessShowsAnswer FailureComesLast LinkOnce
CHECK_DEADLOCK FALSE
