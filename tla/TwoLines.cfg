SPECIFICATION Spec
CONSTANTS
    o1 = o1
    l1 = l1
    l2 = l2
    Orders = {o1}
    Lines = {x1, x2}
    OrderOf <- OneOrder
    Ordered <- One
    Deliveries = {d1, d2}
    ReturnKeys = {k1}
    Locations = {l1, l2}
    Receiving = {l2}
    Quantities = {1}
    Workshops = {l1}
    OfferedTerms <- SetAside
    MaxReceipts = 2
    MaxOther = 0
    None = None
SYMMETRY Symmetry
INVARIANTS
    PreparedIsProduced
    StockFollowsDeliveries
