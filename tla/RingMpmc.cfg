CONSTANTS
    Producers = {p1, p2}
    Consumers = {c1}
    Size = 4
    IndexMod = 4
    Behaviors = {"RING_QUEUE_VARIABLE"}
    BurstSizes = {1}
    Objs = {o1}
    NoObj = NoObj
    WaterMarks = {}
    SpEnqueue = FALSE
    ScDequeue = FALSE
    CmpxchgReturnsOld = FALSE
SPECIFICATION FairSpec
PROPERTIES
    ImplementsFifo
    ReservationsPublished
    CallsReturn
