SPECIFICATION Spec
CONSTANTS
    Locations = {l1, l2}
    Lots = {t1}
    Reservations = {r1, r2}
    Keys = {k1, k2}
    Quantities = {1, 2}
    RequestTypes = {"receipt", "issue", "transfer", "damage", "restore_damage"}
    Editors = {e1}
    None = None
CONSTRAINT FewPieces
SYMMETRY Symmetry
INVARIANTS
    TypeOK
    StockConserved
    BucketsBackReservations
    ConsumptionIsRecorded
PROPERTIES
    PhysicalChangeIsRecorded
    LotsMoveWithTheLedger
    ReservationMovesForward
CHECK_DEADLOCK FALSE
