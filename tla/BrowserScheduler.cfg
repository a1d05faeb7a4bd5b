SPECIFICATION FairSpec
CONSTANTS
    Jobs = {j1, j2, j3, j4}
    Bounded = {j1}
    Cancellable = {j2}
    Capacity = 1
    QueueCapacity = 2
    LockRaises = TRUE
INVARIANTS
    TypeOK
    SlotsAreAccounted
PROPERTIES
    ImplementsPool
    AcquireReturns
    EveryWaiterIsServed
