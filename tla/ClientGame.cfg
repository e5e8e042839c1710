CONSTANTS
    Delay = 2
    HistorySize = 3
    SendLimit = 1
    MaxOpponents = 2
    MaxTime = 5
SPECIFICATION Spec
CHECK_DEADLOCK FALSE
INVARIANTS
    TypeOK
    HistoryFollowsState
    NoKeySticks
PROPERTIES
    PictureNeverGoesBack
