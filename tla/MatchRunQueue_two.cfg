SPECIFICATION Spec
CONSTANTS
    Products = {p1}
    Stores = {s1}
    Workers = {w1, w2}
    Clients = {c1, c2}
    MaxRuns = 2
    MaxAttempts = 2
    Batch = 1
    Concurrency = 1
    MaxFaults = 1
SYMMETRY Symmetry
INVARIANTS
    RequestsAreServed
PROPERTIES
    LiveLeaseProtects
    ImplementsContract
