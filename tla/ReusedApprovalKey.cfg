SPECIFICATION WatchedSpec
CONSTANTS
    l1 = l1
    l2 = l2
    Locations = {l1}
    Lots = {}
    Reservations = {}
    Keys = {k1, k2}
    Quantities = {1, 2}
    Editors = {}
    RequestTypes = {"receipt", "issue"}
    Users = {u1, u2}
    Rules <- MCRules
    None = None
SYMMETRY Symmetry
INVARIANTS
    UsedForWhatItApproves
CHECK_DEADLOCK FALSE
