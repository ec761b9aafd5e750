CONSTANTS
    Apis = {h1, h2}
    Pcbs = {p1, p2}
    Ids = {i1}
    NULL = NULL
    BufLen = 2
    MaxChain = 1
    MaxBufs = 2
    MaxFilters = 1
    SndBuf = 1
SPECIFICATION Spec
CHECK_DEADLOCK FALSE
INVARIANTS BlocksAgree GivenInOrder 
