CONSTANTS
    Sessions = {s1, s2}
    MaxPlayerId = 2
    InputAxes <- MCLineAxes
    AxisMax = 2
    MoveSpeed = 1
    DashSpeed = 2
    CollisionDistance = 3
    SpawnX = 3
    WallX = 4
    WallY = 4
    DashDuration = 1
    DashCooldown = 2
    RoleInterval = 2
    GameDuration = 3
    MaxTickDelta = 2
\* Once every player id is used an empty room admits nobody and stays as it is.
CHECK_DEADLOCK FALSE
SYMMETRY SessionSymmetry
SPECIFICATION Spec
INVARIANTS
    NoContactMissed
