SPECIFICATION ProductionSpec
CONSTANTS
    Locations = {l1}
    Lots = {t1}
    Reservations = {r1, r2}
    Keys = {k1, k2, k3}
    Quantities = {1, 2}
    Editors = {}
    RequestTypes = {"receipt", "issue"}
    None = None
SYMMETRY Symmetry
INVARIANT ConsumptionWithinReservation
CHECK_DEADLOCK FALSE
