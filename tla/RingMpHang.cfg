CONSTANTS
    Producers = {p1}
    Consumers = {c1}
    Size = 4
    IndexMod = 8
    Behaviors = {"RING_QUEUE_FIXED"}
    BurstSizes = {1}
    Objs = {o1}
    NoObj = NoObj
    WaterMarks = {}
    SpEnqueue = FALSE
    ScDequeue = TRUE
    CmpxchgReturnsOld = TRUE
SPECIFICATION FairSpec
PROPERTY
    ReservationsPublished
