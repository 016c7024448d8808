\* A stream that ends early is retried; both texts have a table.
SPECIFICATION Spec
CONSTANTS
    a = a
    b = b
    Contents <- Two
    Linked = a
    Tabled <- Two
    MaxSegments = 1
    MaxFailures = 0
    MaxStreams = 2
    MaxUnoffered = 1
    Fallback = TRUE
INVARIANT TablesMatch
CHECK_DEADLOCK FALSE
