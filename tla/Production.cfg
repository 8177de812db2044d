SPECIFICATION ManufacturingSpec
CONSTANTS
    m1 = m1
    p1 = p1
    p2 = p2
    Orders = {m1}
    Planned <- MCPlanned
    Required <- MCPlanned
    Operations = {p1, p2}
    PartOf <- MCPartOf
    Place <- MCPlace
    Inspected = {m1, p1}
    Editors = {}
    Locations = {l1}
    Lots = {t1, t2, t3}
    Reservations = {r1, r2}
    Keys = {k1, k2}
    Quantities = {1, 2}
    RequestTypes = {}
    None = None
CONSTRAINT Bounded
SYMMETRY Symmetry
INVARIANTS
    ManufacturingTypeOK
    PartsWithinReservation
    HeldIsOwed
    MaterialIsTraced
    RemnantsWithinConsumption
    DoneMeansFinished
    RunsInSequence
PROPERTIES
    BucketsMoveWithReservations
    FinishedOrdersRest
CHECK_DEADLOCK FALSE
