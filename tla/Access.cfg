\* Two users with three sessions and two recovery codes; two grants over two
\* companies; a chain of three modules.
CONSTANTS
    None = None
    Users = {u1, u2}
    Sessions = {s1, s2, s3}
    Codes = {k1, k2}
    IdleLifetime = 1
    AbsoluteLifetime = 2
    MaxTime = 2
    admin = admin
    Roles = {admin, clerk}
    AdminRole = admin
    Groups = {team}
    Grants = {g1, g2}
    c1 = c1
    c2 = c2
    Companies = {c1, c2}
    e1 = e1
    e2 = e2
    Establishments = {e1, e2}
    CompanyOf <- TwoCompanies
    foundation = foundation
    catalog = catalog
    sales = sales
    Modules = {foundation, catalog, sales}
    DependsOn <- ChainOf
    Required = {foundation}
    DefaultOn = {foundation, catalog, sales}
SPECIFICATION WatchedSpec
CONSTRAINT OnePartMoves
SYMMETRY Symmetry
INVARIANTS
    CodesAreSpentOnce
    ListsAgreeWithChecks
    DependenciesWhileAlone
PROPERTIES
    SessionsEnd
CHECK_DEADLOCK FALSE
