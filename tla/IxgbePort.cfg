SPECIFICATION Spec
CHECK_DEADLOCK FALSE
CONSTANTS
    Lesm = TRUE
    AnySfp = FALSE
    Confs <- MCConfs
    FcConfs <- MCFcConfs
    Priorities = {1}
    Modules <- MCModules
    SriovPools = {0, 32}
    Queues = {40}
    StatIdx = {0, 1}
    MaxCalls = 3
INVARIANTS
    PauseHonoured
    OffersAsked
    MarksFit
    MapRestored
