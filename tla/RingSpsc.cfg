CONSTANTS
    Producers = {p1}
    Consumers = {c1}
    Size = 4
    IndexMod = 8
    Behaviors = {"RING_QUEUE_FIXED", "RING_QUEUE_VARIABLE"}
    BurstSizes = {0, 2}
    Objs = {o1, o2}
    NoObj = NoObj
    WaterMarks = {2}
    SpEnqueue = TRUE
    ScDequeue = TRUE
    CmpxchgReturnsOld = TRUE
SPECIFICATION Spec
SYMMETRY ObjSymmetry
INVARIANTS
    TypeOK
    IndexOrder
    ExclusiveSlots
PROPERTIES
    ImplementsFifo
