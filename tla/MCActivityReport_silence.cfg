CONSTANTS
    Elapsed <- SoonOrLate
    Distances <- StayMoveJump
    MaxPoints = 6
    Windows <- WholeOrPart
    MinimumMovementMeters = 1
    MovementConfirmationPoints = 3
    MovementConfirmationMeters = 1
    StationaryConfirmationSeconds = 2
    MaximumPointGapSeconds = 2
    MaximumPlausibleSpeed = 2
    MinimumJumpMeters = 3
    MinimumRouteHoleSeconds = 2
SPECIFICATION Spec
CHECK_DEADLOCK FALSE
INVARIANT
    SilenceIsNotWork
