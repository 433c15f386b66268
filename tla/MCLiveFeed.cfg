CONSTANTS
    home = home
    away = away
    noFix = noFix
    d1 = d1
    d2 = d2
    Devices = {d1, d2}
    Sockets = {s1}
    Places = {home, away, noFix}
    NoFix = noFix
    MaxUpdates = 3
    Updates <- OneMoves
    Route <- FixThenMove
    Buffer = 1
    MaxBatch = 1
    MaxRooms = 2
    Faults <- AllFaults
    MaxFaults = 1
SPECIFICATION FairSpec
INVARIANTS
    OnlyAllowed
    InOrder
    MarkerAgrees
PROPERTIES
    UpdateShown
CHECK_DEADLOCK FALSE
