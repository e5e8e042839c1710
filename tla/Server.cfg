CONSTANTS
    Sessions = {1, 2, 3}
    MessageSize <- MCMessageSize
    MaxPendingSendBytes = 4
    MaxTicks = 2
    MaxQueue = 1
\* A server that was stopped comes to rest.
CHECK_DEADLOCK FALSE
SPECIFICATION FairSpec
INVARIANTS
    TypeOK
    SeatsRegistryAndSocketsAgree
    OneAcceptOneTimer
    StoppedIsEmpty
    IdentityFirst
PROPERTIES
    ImplementsLobby
    ShutdownCompletes
