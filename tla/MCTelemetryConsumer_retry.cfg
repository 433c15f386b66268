CONSTANTS
    Messages = {m1, m2, m3}
    MaxSize = 2
    Prefetch = 2
    MaxRetries = 3
    QueueName = "telemetry"
    RoutingKey = "teltonika_telemetry"
    Faults <- InsertFault
    MaxFaults = 0
    MaxRows = 2
SPECIFICATION Spec
INVARIANT
    Accounted
CHECK_DEADLOCK FALSE
