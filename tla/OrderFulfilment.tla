--------------------------- MODULE OrderFulfilment ---------------------------
(***************************************************************************)
(* What ivadoo/delivery promises of the lines of customer orders, whatever *)
(* deliveries and returns they are made of: how much of a line is promised *)
(* to deliveries, handed over, taken back, and to be replaced.             *)
(***************************************************************************)
EXTENDS Integers

CONSTANTS
    Lines,       \* order lines
    Ordered,     \* the ordered quantity of each line
    Quantities   \* what one step may move of a line (bound of a run)

VARIABLES
    promised,    \* in deliveries that are neither failed nor cancelled
    handed,      \* with the customer at some time
    returned,    \* taken back
    exchanged    \* taken back to be replaced

counts == <<promised, handed, returned, exchanged>>

Amounts == [Lines -> Quantities \union {0}]

Plus(f, g) == [l \in Lines |-> f[l] + g[l]]
Minus(f, g) == [l \in Lines |-> f[l] - g[l]]
Within(f, g) == \A l \in Lines : f[l] <= g[l]

Init ==
    /\ promised = [l \in Lines |-> 0]
    /\ handed = [l \in Lines |-> 0]
    /\ returned = [l \in Lines |-> 0]
    /\ exchanged = [l \in Lines |-> 0]

\* A delivery is created.
Promise(q) ==
    /\ Within(Plus(promised, q), Plus(Ordered, exchanged))
    /\ promised' = Plus(promised, q)
    /\ UNCHANGED <<handed, returned, exchanged>>

\* A delivery is cancelled or fails.
Withdraw(q) ==
    /\ Within(Plus(handed, q), promised)
    /\ promised' = Minus(promised, q)
    /\ UNCHANGED <<handed, returned, exchanged>>

\* A delivery is completed.
HandOver(q) ==
    /\ Within(Plus(handed, q), promised)
    /\ handed' = Plus(handed, q)
    /\ UNCHANGED <<promised, returned, exchanged>>

\* A return is recorded.
TakeBack(q, exchange) ==
    /\ Within(Plus(returned, q), handed)
    /\ returned' = Plus(returned, q)
    /\ exchanged' = IF exchange THEN Plus(exchanged, q) ELSE exchanged
    /\ UNCHANGED <<promised, handed>>

Next == \E q \in Amounts :
           \/ Promise(q)
           \/ Withdraw(q)
           \/ HandOver(q)
           \/ \E exchange \in BOOLEAN : TakeBack(q, exchange)

Spec == Init /\ [][Next]_counts

-----------------------------------------------------------------------------
(* Properties.                                                             *)

\* Type correctness of the four counts.
TypeOK ==
    /\ promised \in [Lines -> Nat]
    /\ handed \in [Lines -> Nat]
    /\ returned \in [Lines -> Nat]
    /\ exchanged \in [Lines -> Nat]

\* Never more of a line is promised than was ordered or is to be replaced, no
\* more handed over than promised, no more taken back than handed over.
Balanced ==
    /\ Within(promised, Plus(Ordered, exchanged))
    /\ Within(handed, promised)
    /\ Within(returned, handed)
    /\ Within(exchanged, returned)

\* "Concurrent deliveries/returns cannot over-deliver or over-return an order
\* line" (delivery/README.md:11): what the customer holds of a line is between
\* nothing and what was ordered, through any number of exchanges.
CustomerHoldsWhatWasOrdered ==
    \A l \in Lines : handed[l] - returned[l] \in 0..Ordered[l]

=============================================================================
