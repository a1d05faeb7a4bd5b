SPECIFICATION FairSpec
CONSTANTS
    Callers = {c1, c2, c3}
    Threshold = 2
    MaxFaults = 1
INVARIANTS
    TypeOK
    OneProbe
PROPERTIES
    ProbeWaits
    RecoversWithTheBrowser
