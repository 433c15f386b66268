CONSTANTS
    Messages = {m1, m2}
    MaxSize = 2
    Prefetch = 2
    MaxRetries = 1
    QueueName = "telemetry"
    RoutingKey = "teltonika_telemetry"
    Faults <- LinkFaults
    MaxFaults = 1
    MaxRows = 2
SPECIFICATION FairSpec
PROPERTIES
    EveryMessageStored
    QueueDrains
CHECK_DEADLOCK FALSE
