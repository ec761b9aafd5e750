SPECIFICATION FairSpec
CONSTANTS
    Cpus = {c1, c2}
    Addrs = {a, g, s}
    OnLink = {g}
    Gateway = g
    Dests = {a}
    Static = {s}
    Mbufs = {m1, m2}
    Entries = {e1, e2}
    Pendings = {p1}
    TxCap = 2
    None = None
INVARIANTS
    OneHolder OneEntry LocksReleased PagesPinned
PROPERTIES
    DispatchedSent
CHECK_DEADLOCK FALSE
