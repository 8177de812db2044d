--------------------------- MODULE MCManufacturing ---------------------------
EXTENDS Manufacturing, TLC

CONSTANTS m1, p1, p2

\* One order for two pieces that need two of material, with two operations.
MCPlanned == [o \in Orders |-> 2]
MCPartOf == [p \in Operations |-> m1]
MCPlace == [p \in Operations |-> IF p = p1 THEN 1 ELSE 2]

\* Bound of a run: lots hold three pieces in all when they are opened.
FewPieces ==
    SumFunction([t \in {x \in Lots : lot[x] # None} |-> lot[t].initial]) <= 3

\* Bound of a run: orders with operations do not touch material.
OnePartMoves ==
    \/ operation = [p \in Operations |-> None] /\ planning = {}
         /\ accepted = [x \in Orders \union Operations |-> TRUE]
    \/ lot = [t \in Lots |-> None] /\ movement = [k \in MovementKeys |-> None]

Bounded == FewPieces /\ OnePartMoves

Symmetry == Permutations(Keys) \union Permutations(Reservations)
              \union Permutations(Lots)
=============================================================================
