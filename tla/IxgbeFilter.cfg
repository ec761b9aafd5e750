SPECIFICATION Spec
CHECK_DEADLOCK FALSE
CONSTANTS
    Own = "own"
    San = "san"
    NoAddr = "none"
    Addrs = {"a1", "a2", "a3"}
    McAddrs = {"m1", "m3"}
    Vectors = {0, 1}
    Vector <- MCVector
    Pools = {0, 1}
    NumRar = 4
    Vlans = {0, 1, 2, 33}
    NoVlan = NoVlan
    Slots = {0, 1, 2}
    RxQueues = {0}
    RxModes = {"untag"}
    Half = 1
    Confs <- MCConfs
    Vfs = {0, 1}
    UcLists <- MCUcLists
    Rules <- MCRules
    Flows <- MCFlows
    Masks <- MCMasks
    RarIndex = {1, 2, 3}
    MaxCalls = 5
INVARIANTS
    AddrReceived
    VlanAsAsked
    
    FiltersCurrent
