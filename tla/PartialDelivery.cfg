SPECIFICATION Spec
CONSTANTS
    o1 = o1
    l1 = l1
    l2 = l2
    Orders = {o1}
    Lines = {x1}
    OrderOf <- OneOrder
    Ordered <- Two
    Deliveries = {d1, d2}
    ReturnKeys = {k1, k2}
    Locations = {l1}
    Receiving = {}
    Quantities = {1, 2}
    Workshops = {l1}
    OfferedTerms <- InPlace
    MaxReceipts = 1
    MaxOther = 1
    None = None
SYMMETRY Symmetry
INVARIANTS
    IssuedExactlyWhenDelivered
    ReturnsTraceToIssues
PROPERTIES
    OnlyApprovedGoodsLeave
    HistoryIsKept
    ImplementsFulfilment
