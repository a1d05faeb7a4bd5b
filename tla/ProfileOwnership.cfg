SPECIFICATION FairSpec
CONSTANTS
    Fetchers = {o1, o2}
    Fetches = {f1, f2, f3}
    MaxFaults = 3
INVARIANTS
    TypeOK
    OwnersAgree
    ExclusiveUnderLease
PROPERTIES
    ImplementsLease
    EveryFetchEnds
