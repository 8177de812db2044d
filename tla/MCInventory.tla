----------------------------- MODULE MCInventory -----------------------------
EXTENDS Inventory, TLC

\* Bound of a run: the locations hold three pieces in all.
FewPieces == SumFunction([l \in Locations |-> Total(l)]) <= 3

\* Locations, keys and reservations are interchangeable: the specification
\* only compares them for equality.
Symmetry == Permutations(Locations) \union Permutations(Keys)
              \union Permutations(Reservations)
=============================================================================
