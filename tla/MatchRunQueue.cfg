SPECIFICATION Spec
CONSTANTS
    Products = {p1}
    Stores = {s1, s2}
    Workers = {w1, w2}
    Clients = {c1}
    MaxRuns = 1
    MaxAttempts = 2
    Batch = 1
    Concurrency = 2
    MaxFaults = 2
SYMMETRY Symmetry
INVARIANTS
    TypeOK
    AnswersAddUp
    ReportAgreesWithRows
PROPERTIES
    OnlyTheHolderWrites
CHECK_DEADLOCK FALSE
