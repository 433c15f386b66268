CONSTANTS
    Commands = {c1, c2, c3}
    Sessions = {s1}
    MaxRetries = 1
    MaxWire = 1
    Faults <- AllFaults
    NoCmd = NoCmd
SPECIFICATION FairSpec
INVARIANTS
    Custody
    GivenUpOnlyAfterRetries
PROPERTIES
    NeverResentOnceSettled
    ImplementsLifecycle
    EveryCommandSettles
