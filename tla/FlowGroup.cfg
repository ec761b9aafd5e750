CONSTANTS
    Cpus = {c1, c2}
    Fgs = {g1, g2}
    Owners = {c1, None}
    None = None
    MaxDepth = 1
    MbufsRunOut = TRUE
    BadSums = TRUE
    MaxPkts = 2
    MaxCmds = 1
SPECIFICATION FairSpec
CHECK_DEADLOCK FALSE
INVARIANTS InOrder LossNeedsCause
PROPERTIES ProcessedByOwner MigrationEnds PacketsHandled
