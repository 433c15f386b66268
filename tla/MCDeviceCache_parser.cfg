CONSTANTS
    parser = parser
    replay = replay
    conn = conn
    day = day
    i1 = i1
    i2 = i2
    Imeis = {i1, i2}
    Servers = {parser}
    Clients = {conn}
    Replays = {}
    ServerOf <- ConnServer
    ImeiOf <- ConnImei
    Requests = {q1}
    ApiKinds = {"active", "foreign"}
    MaxEdits = 1
    Faults <- AllFaults
    MaxFaults = 1
SPECIFICATION FairSpec
PROPERTIES
    Converges
    EventuallyServed
