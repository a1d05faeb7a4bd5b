SPECIFICATION FairSpec
CONSTANTS
    Offers = {c1}
    Items = {c2}
    Galleries = {c3}
    Processes = {p1, p2}
    MaxFaults = 1
INVARIANTS
    TypeOK
    CooldownsGuard
PROPERTIES
    CacheIsUsed
    EveryCallReturns
