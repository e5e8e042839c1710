CONSTANTS
    Delay = 1
    HistorySize = 4
    SendLimit = 1
    MaxOpponents = 2
    MaxTime = 4
SPECIFICATION Spec

INVARIANT InputReachesServer
