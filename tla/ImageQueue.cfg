SPECIFICATION Spec
CONSTANTS
    Images = {i1, i2}
    Imported = {i1}
    Twins = {i1, i2}
    Jobs = {j1, j2}
    Calls = {c1}
    MaxFaults = 1
INVARIANTS
    TypeOK
    JobsAreExclusive
    FilesAreKept
PROPERTIES
    EveryImageSettles
CHECK_DEADLOCK FALSE
