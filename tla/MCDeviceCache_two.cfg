CONSTANTS
    parser = parser
    replay = replay
    conn = conn
    day = day
    i1 = i1
    i2 = i2
    Imeis = {i1}
    Servers = {parser, replay}
    Clients = {day}
    Replays = {day}
    ServerOf <- DayServer
    ImeiOf <- DayImei
    Requests = {q1}
    ApiKinds = {"disabled"}
    MaxEdits = 1
    Faults <- WriteFaults
    MaxFaults = 1
SPECIFICATION Spec
INVARIANTS
    Fresh
