----------------------------- MODULE MCReceiving -----------------------------
EXTENDS Receiving, TLC

CONSTANTS r1, r2, i1, s1

\* Inspectors look at the first receipt only (bound of a run).
MCSubjects == {<<r1, i1>>}
MCCatalogued == {<<s1, i1>>}

\* Bounds of the run, for what no code compares: requests, RFQs and orders are
\* not used together; suppliers are blocked and the rule is edited before goods
\* arrive; inspections are of a receipt that is alone, with no PATCH in flight.
FewAtOnce ==
    LET requests == \E q \in Requests : request[q] # None
        rfqs == \E f \in Rfqs : rfq[f] # None
        orders == \E o \in Orders : order[o] # None
        arrivals == \E r \in Receipts : receipt[r] # None
    IN  /\ requests => ~rfqs /\ ~orders
        /\ rfqs => ~orders
        /\ requests \/ arrivals => active = Suppliers
        /\ arrivals => ~edited
        /\ Created # {} => receipt[r2] = None /\ \A d \in DOMAIN patch : patch[d] = None

Symmetry == Permutations(Users) \union Permutations(Inspections)
=============================================================================
