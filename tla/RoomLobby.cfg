CONSTANTS
    Sessions = {s1, s2, s3}
    MaxPlayerId = 3
    InputAxes <- MCOneAxis
    AxisMax = 2
    MoveSpeed = 1
    DashSpeed = 2
    CollisionDistance = 3
    SpawnX = 2
    WallX = 3
    WallY = 1
    DashDuration = 1
    DashCooldown = 1
    RoleInterval = 1
    GameDuration = 2
    MaxTickDelta = 1
\* Once every player id is used an empty room admits nobody and stays as it is.
CHECK_DEADLOCK FALSE
SPECIFICATION FairSpec
INVARIANTS
    SeatsAndIdsDistinct
    GameStateConsistent
    SnapshotEncodable
PROPERTIES
    ImplementsLobby
    GameEnds
