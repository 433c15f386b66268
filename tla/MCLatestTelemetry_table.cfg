CONSTANTS
    Sessions = {s1, s2}
    MaxTime = 3
    Sec <- HalfSeconds
    StartOf <- FirstHalf
    TenDigits = 0
    Flushes = {f1}
    Runs = {r1}
    Faults <- AllFaults
    MaxFaults = 2
SPECIFICATION FairSpec
INVARIANTS
    NewestIsKept
    NoLostUpdate
PROPERTIES
    TableInOrder
    ReachesTable
CHECK_DEADLOCK FALSE
