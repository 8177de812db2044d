--------------------------- MODULE ProductionStock ---------------------------
(***************************************************************************)
(* Inventory with the partial consumption of a reservation that production *)
(* uses, inventory/production_services.py.  The services of Inventory.tla  *)
(* are unchanged: they know nothing of what was consumed before.           *)
(***************************************************************************)
EXTENDS Inventory

ConsumptionsOf(r) ==
    {k \in Recorded : /\ movement[k].type = "production_consumption"
                      /\ movement[k].reservation = r}

\* consumed_reservation_quantity: the sum of the consumption movements that
\* reference the reservation.
ConsumedQuantity(r) ==
    SumFunction([k \in ConsumptionsOf(r) |-> movement[k].quantity])

\* Fault: what was consumed before is forgotten.
RemainingWhole(r) == reservation[r].quantity

Remaining(r) == reservation[r].quantity - ConsumedQuantity(r)

\* Fault: what is consumed is taken from the free stock.
ConsumeFromShelf(r, k, q) ==
    /\ Open(r)
    /\ q <= Remaining(r)
    /\ Take(reservation[r].location, "available", q)
    /\ ApplyLotDelta(reservation[r].lot, -q, None)
    /\ Record(<<"production-reservation", k>>,
              [type |-> "production_consumption", quantity |-> q,
               source |-> reservation[r].location, destination |-> None,
               lot |-> reservation[r].lot, reservation |-> r])
    /\ IF q = Remaining(r)
       THEN SetStatus(r, "consumed")
       ELSE UNCHANGED reservation
    /\ UNCHANGED edit

ConsumeReservedQuantity(r, k, q) ==
    /\ Open(r)
    /\ q <= Remaining(r)
    /\ Take(reservation[r].location, HeldIn(r), q)
    /\ ApplyLotDelta(reservation[r].lot, -q, None)
    /\ Record(<<"production-reservation", k>>,
              [type |-> "production_consumption", quantity |-> q,
               source |-> reservation[r].location, destination |-> None,
               lot |-> reservation[r].lot, reservation |-> r])
    /\ IF q = Remaining(r)
       THEN SetStatus(r, "consumed")
       ELSE UNCHANGED reservation
    /\ UNCHANGED edit

ConsumePart ==
    \E r \in Reservations, k \in Keys, q \in Quantities :
       ConsumeReservedQuantity(r, k, q)

\* Every service of the inventory application.
ProductionNext == Next \/ ConsumePart

ProductionSpec == Init /\ [][ProductionNext]_vars

-----------------------------------------------------------------------------
(* Properties.                                                             *)

\* "Consumption exceeds the remaining reserved quantity."
\* (production_services.py): the movements of a reservation take no more than
\* it reserved, and it is consumed exactly when they took all of it.
\* consume_reservation breaks this after a part was used.
ConsumptionWithinReservation ==
    \A r \in Reservations : reservation[r] # None =>
       /\ ConsumedQuantity(r) <= reservation[r].quantity
       /\ reservation[r].status = "consumed"
            <=> ConsumedQuantity(r) = reservation[r].quantity

ConsumedWhole(r) == movement[<<"reservation-consume", r>>] # None

\* Whatever is called in between: the parts that production uses of a
\* reservation never exceed it, only consume_reservation, once, takes more, and
\* a reservation is consumed exactly when one or the other took all of it.
PartsWithinReservation ==
    \A r \in Reservations : reservation[r] # None =>
       LET whole == IF ConsumedWhole(r) THEN reservation[r].quantity ELSE 0
           parts == ConsumedQuantity(r) - whole
       IN  /\ 0 <= parts /\ parts <= reservation[r].quantity
           /\ ConsumedWhole(r) => parts < reservation[r].quantity
           /\ reservation[r].status = "consumed" <=>
                 ConsumedWhole(r) \/ parts = reservation[r].quantity

\* What a reservation still has in the two buckets of its location.  A release
\* takes all of it back, and a whole consumption takes all of it out, after a
\* part was used as well: the rest is then below zero.
Owed(r) == (IF reservation[r].status = "released"
            THEN 0 ELSE reservation[r].quantity) - ConsumedQuantity(r)

ReservedAt(l) == {r \in Reservations : /\ reservation[r] # None
                                       /\ reservation[r].location = l}

Held(l) == position[l]["reserved"] + position[l]["in_production"]

\* Over any sequence of reserve, start, release and of whole and partial
\* consumption, the reserved and in-production buckets of a location hold what
\* was reserved there and not released, less all that was consumed.
HeldIsOwed ==
    \A l \in Locations :
       Held(l) = SumFunction([r \in ReservedAt(l) |-> Owed(r)])

\* What is left of the reservations of a location in a status.
Outstanding(l, status) ==
    SumFunction([r \in HeldAt(l, status) |->
                   reservation[r].quantity - ConsumedQuantity(r)])

\* The step starts, releases or consumes whole a reservation used in part.
SettlesUsed(r) ==
    /\ Open(r) /\ ConsumedQuantity(r) > 0
    /\ reservation'[r].status # reservation[r].status
    /\ ConsumedQuantity(r)' # reservation[r].quantity

\* Every step changes each of the two buckets by what it changes of what is left
\* of the reservations in it: a partial consumption takes from the bucket its
\* reservation is in, and the last one leaves nothing behind.  The only steps
\* that do otherwise start, release or consume whole a reservation used in part.
BucketsMoveWithReservations ==
    [][\A l \in Locations, status \in {"active", "in_production"} :
         \/ position'[l][BucketOf(status)] - position[l][BucketOf(status)]
              = Outstanding(l, status)' - Outstanding(l, status)
         \/ \E r \in ReservedAt(l) : SettlesUsed(r)]_vars

=============================================================================
