SPECIFICATION Spec
CONSTANTS
    Listings = {l1, l2}
    Sweepers = {s1}
    Refreshes = {c1}
    Requested = {{l1}}
    Batch = 1
    Regular = 2
    Jitter = 0
    RetryBase = 1
    RetryMax = 2
    Grace = 1
    Lease = 1
    Expiries = {1, 99}
    Never = 99
    MaxTime = 2
    MaxFaults = 1
INVARIANTS
    TypeOK
    ChecksAreExclusive
    WatchedIsScheduled
    EventsContinueHistory
PROPERTIES
    SweepsExpireEnded
    DueIsChecked
