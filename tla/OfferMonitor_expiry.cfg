SPECIFICATION Spec
CONSTANTS
    Listings = {l1}
    Sweepers = {s1}
    Refreshes = {c1}
    Requested = {{l1}}
    Batch = 1
    Regular = 2
    Jitter = 0
    RetryBase = 1
    RetryMax = 2
    Grace = 1
    Lease = 1
    Expiries = {1, 3}
    Never = 99
    MaxTime = 3
    MaxFaults = 1
INVARIANTS
    ExpiredHasEnded
