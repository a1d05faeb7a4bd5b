SPECIFICATION Spec
CONSTANTS
    RateCount = 2
    Sweepers = {s1}
    Requests = {q1}
    Quotes <- MCQuotes
    Low = 50
    High = 200
    MaxChange = 15
    StaleAfter = 1
    Interval = 1
    Jitter = 1
    MaxTime = 2
    MaxFaults = 1
INVARIANTS
    TypeOK
PROPERTIES
    RatesAreHonest
    DueIsRefreshed
