SPECIFICATION WalkSpec
CONSTANTS
    ErrorCode = 1000
    byteBits = 8
    immBits = 12
    shamtBits = 5
INVARIANTS
    ChoosesCommentedOperation
CHECK_DEADLOCK FALSE
