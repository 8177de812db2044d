----------------------------- MODULE MCDelivery ------------------------------
EXTENDS Delivery, TLC

CONSTANTS o1, l1, l2

OneOrder == [l \in Lines |-> o1]
One == [l \in Lines |-> 1]
Two == [l \in Lines |-> 2]

\* What callers say of returned lines: back where they came from, damaged, or
\* into quarantine at the receiving location l2 (l1 is none, and is refused).
Restock == {[disposition |-> "restock", destination |-> None]}
InPlace == Restock \union {[disposition |-> "damaged", destination |-> None]}
SetAside == Restock \union {[disposition |-> "quarantine", destination |-> l1],
                            [disposition |-> "quarantine", destination |-> l2]}

Symmetry == Permutations(Deliveries) \union Permutations(ReturnKeys)
=============================================================================
