CONSTANTS
    Sizes = {small, large, wide}
    InitialSize = small
SPECIFICATION Spec
CHECK_DEADLOCK FALSE
INVARIANTS
    TypeOK
    PictureWhole
    EndsCleanly
