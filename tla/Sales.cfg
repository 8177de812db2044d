SPECIFICATION SalesSpec
CONSTANTS
    Customers = {c1, c2}
    MeasurementSets = {n1, n2, n3}
    NoSet = NoSet
    Quotations = {q1}
    Orders = {o1}
    Fittings = {f1, f2, f3}
    Alterations = {a1}
    Boms = {b1}
    Materials = {x1, x2}
    Planned = {m1, m2}
    None = None
CONSTRAINT FewAtOnce
SYMMETRY Symmetry
INVARIANTS
    ValidatedFittingsStand
    VersionsAreSequential
    ReadyMeansSettled
    PlansKeepTheirLines
CHECK_DEADLOCK FALSE
