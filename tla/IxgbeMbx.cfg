SPECIFICATION Spec
CONSTANTS
    MbxTimeout = 2
    InitTimeout = 1
    MaxQueues = 2
    MaxCalls = 3
    MaxPfResets = 1
INVARIANTS
    AnswerIsOwn
    HandledWhole
    ResetKept
CHECK_DEADLOCK FALSE
