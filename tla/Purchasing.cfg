SPECIFICATION WatchedSpec
CONSTANTS
    r1 = r1
    r2 = r2
    i1 = i1
    s1 = s1
    Suppliers = {s1, s2}
    Requests = {q1}
    Rfqs = {f1}
    Orders = {o1}
    Items = {i1}
    Users = {u1, u2}
    MaxQuantity = 2
    Threshold = 2
    None = None
    Inspections = {n1, n2}
    NoInspection = NoInspection
    Subjects <- MCSubjects
    Receipts = {r1, r2}
    Catalogued <- MCCatalogued
CONSTRAINT FewAtOnce
SYMMETRY Symmetry
INVARIANTS
    PurchasingTypeOK
    ApprovedWhileRuleStays
    ReceivedIsStocked
PROPERTIES
    RefusedGoodsStayOut
CHECK_DEADLOCK FALSE
