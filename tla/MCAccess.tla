------------------------------- MODULE MCAccess -------------------------------
(* Instances of Access for TLC.                                            *)
EXTENDS Access, TLC

CONSTANTS foundation, catalog, sales, c1, c2, e1, e2

\* extensibility/defaults.py, the modules that the chain needs.
ChainOf == (foundation :> {}) @@ (catalog :> {foundation})
             @@ (sales :> {foundation, catalog})

TwoCompanies == (e1 :> c1) @@ (e2 :> c2)

-----------------------------------------------------------------------------
(* Bounds: a run moves factors, or accounts, or grants, or modules; three  *)
(* sessions (of one user) are open in the first case, two in the second,   *)
(* else one, and two requests or logins are under way at a time.           *)

Open == {s \in Sessions : session[s] # None \/ login[s] # None}

\* The users with a session, or a login that is to create one.
Present == {IF session[s] # None THEN session[s].user ELSE login[s].user : s \in Open}

UnderWay == {s \in Sessions : login[s] # None \/ call[s] # None}

FactorsMoved ==
    \/ \E u \in Users : credential[u] # "none"
    \/ \E c \in Codes : code[c].state # "unissued"

Edits(s) == call[s] # None /\ call[s].stage = "editing"

AccountsMoved == now > 0 \/ enabled # Users \/ \E s \in Sessions : Edits(s)

GrantsMoved ==
    \/ role # [r \in Roles |-> [active |-> TRUE, allows |-> r = AdminRole]]
    \/ \E g \in Groups : group[g] # [active |-> TRUE, members |-> {}]
    \/ revoking # {} \/ \E x \in Grants : grant[x] # None /\ grant[x].revoked
    \/ Cardinality({x \in Grants : grant[x] # None}) > 1

ModulesMoved == installation # [m \in Modules |-> "default"] \/ switching # {}

OnePartMoves ==
    LET moved == {p \in {<<"factors", FactorsMoved>>, <<"accounts", AccountsMoved>>,
                         <<"grants", GrantsMoved>>, <<"modules", ModulesMoved>>} : p[2]}
    IN  /\ Cardinality(moved) <= 1
        /\ AccountsMoved => Cardinality(Open) <= 2
        /\ GrantsMoved \/ ModulesMoved => Cardinality(Open) <= 1
        /\ Cardinality(UnderWay) <= 2
        /\ Cardinality(Open) = 3 => Cardinality(Present) = 1

Symmetry == Permutations(Users) \union Permutations(Sessions)
               \union Permutations(Codes) \union Permutations(Grants)

=============================================================================
