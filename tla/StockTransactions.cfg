SPECIFICATION FairSpec
CONSTANTS
    w1 = w1
    w2 = w2
    l1 = l1
    l2 = l2
    t1 = t1
    r1 = r1
    k1 = k1
    k2 = k2
    k3 = k3
    k4 = k4
    k5 = k5
    None = None
    Workers = {w1, w2}
    Requests <- MixedRequests
    Locations = {l1, l2}
    Lots = {t1}
    Reservations = {r1}
    Keys = {k1, k2, k3, k4, k5}
    Quantities = {1, 2}
    RequestTypes = {"receipt", "issue", "transfer"}
PROPERTIES
    ImplementsLedger
    EveryCallEnds
CHECK_DEADLOCK FALSE
