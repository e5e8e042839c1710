CONSTANTS
    Sessions = {s1, s2}
    MaxPlayerId = 3
    InputAxes <- MCLineAxes
    AxisMax = 2
    MoveSpeed = 1
    DashSpeed = 2
    CollisionDistance = 3
    SpawnX = 4
    WallX = 5
    WallY = 3
    DashDuration = 1
    DashCooldown = 2
    RoleInterval = 2
    GameDuration = 4
    MaxTickDelta = 2
\* Once every player id is used an empty room admits nobody and stays as it is.
CHECK_DEADLOCK FALSE
SYMMETRY SessionSymmetry
SPECIFICATION Spec
INVARIANTS
    TypeOK
    RolesFollowClock
PROPERTIES
    EveryDashPaid
    PointsFollowClock
