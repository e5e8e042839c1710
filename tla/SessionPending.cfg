CONSTANTS
    MessageSize <- MCMessageSize
    MaxPendingSendBytes = 6
    MaxAccepted = 7
\* A closed session whose operations have come back does nothing more.
CHECK_DEADLOCK FALSE
SPECIFICATION Spec
INVARIANT
    PendingBytesMatchQueue
