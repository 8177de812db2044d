-------------------------- MODULE MCProductionStock --------------------------
EXTENDS ProductionStock, TLC

Symmetry == Permutations(Locations) \union Permutations(Keys)
              \union Permutations(Reservations)
=============================================================================
