CONSTANTS
    MessageSize <- MCMessageSize
    MaxPendingSendBytes = 2
    MaxGenerations = 3
    MaxMessages = 2
    Base = 12
    MaxMessageSize = 87
    MaxPlayerInputAxisRawValue = 50
    NonFinite = {5}
    Negative = {7}
SPECIFICATION FairSpec
CHECK_DEADLOCK FALSE
INVARIANTS
    TypeOK
    OperationChains
    SendQueueAccounted
    FramedExactly
PROPERTIES
    ConnectionContract
    EverythingHeard
