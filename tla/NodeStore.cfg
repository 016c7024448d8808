\* Three concurrent turns of every kind over two ids and room for one node,
\* under the fairness of the Go scheduler and of sync.Mutex.
SPECIFICATION FairSpec
CONSTANTS
    h1 = h1
    h2 = h2
    h3 = h3
    Ids <- Ids2
    Handlers <- Three
    Kinds <- All
    Capacity = 1
    Objects = 3
INVARIANTS TypeOK PendingReplyFindable CapacityRestored
PROPERTIES HeldNodesStay 
CHECK_DEADLOCK FALSE
