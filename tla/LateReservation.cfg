SPECIFICATION ManufacturingSpec
CONSTANTS
    m1 = m1
    p1 = p1
    p2 = p2
    Orders = {m1}
    Planned <- MCPlanned
    Required <- MCPlanned
    Operations = {}
    PartOf <- MCPartOf
    Place <- MCPlace
    Inspected = {}
    Editors = {}
    Locations = {l1}
    Lots = {t1}
    Reservations = {r1, r2}
    Keys = {k1}
    Quantities = {1, 2}
    RequestTypes = {}
    None = None
PROPERTY CompletionResolvesMaterial
CHECK_DEADLOCK FALSE
