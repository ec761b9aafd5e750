CONSTANTS
    Pools = {c1, c2}
    NrElems = 6
    ElemsPerPage = 7
    ChunkSize = 2
    Nostraddle = TRUE
    BugOnTraps = FALSE
    MaxDeficit = 2
    NULL = NULL
    Dirty = Dirty
SPECIFICATION FairSpec
INVARIANTS Conserved
PROPERTIES CallsReturn
