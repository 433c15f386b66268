CONSTANTS
    Messages = {m1, m2, m3}
    MaxSize = 2
    Prefetch = 2
    MaxRetries = 1
    QueueName = "telemetry"
    RoutingKey = "telemetry"
    Faults <- DatabaseFaults
    MaxFaults = 1
    MaxRows = 2
SPECIFICATION Spec
INVARIANTS
    Accounted
    StoredOnce
SYMMETRY MessageSymmetry
CHECK_DEADLOCK FALSE
