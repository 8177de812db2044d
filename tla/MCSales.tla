------------------------------- MODULE MCSales -------------------------------
EXTENDS Sales, TLC

\* Bounds of the run, for what no code compares: measurements are taken before
\* there is an order, quotations do not move once a fitting is booked, and
\* production is planned for orders without measurements or fittings.
FewAtOnce ==
    LET ordered == \E o \in Orders : order[o] # None
        booked == \E f \in Fittings : fitting[f] # None \/ booking[f] # None
        production == \E b \in Boms : bom[b] # None
    IN  /\ ordered => \A n \in MeasurementSets : recording[n].version = 0
        /\ booked => moving = {} /\ \A q \in Quotations : quotation[q] = None
        /\ production => ~booked /\ \A n \in MeasurementSets : measured[n].version = 0
        /\ production => \A q \in Quotations : quotation[q] = None
        /\ booked => \A n \in MeasurementSets : measured[n].version = 0

Symmetry == Permutations(Fittings) \union Permutations(MeasurementSets)
               \union Permutations(Customers)
=============================================================================
