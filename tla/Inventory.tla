------------------------------ MODULE Inventory ------------------------------
(***************************************************************************)
(* The stock ledger of ivadoo/inventory: positions, lots, reservations and *)
(* the immutable stock movements, for ONE item (product, variant, unit) of *)
(* one organization.  A position is then named by its location.            *)
(*                                                                         *)
(* Every service of inventory/services.py is one @transaction.atomic call  *)
(* that holds the row locks of what it reads until it commits, so a        *)
(* service is one action here.  A call that raises rolls back and a call   *)
(* that finds its idempotency key returns the existing row: both leave the *)
(* database as it was and are stuttering steps.                            *)
(*                                                                         *)
(* Only the PATCH of a lot locks nothing: it reads the row in one step and *)
(* saves all of it in another.                                             *)
(***************************************************************************)
EXTENDS Integers, FiniteSetsExt

CONSTANTS
    Locations,      \* StockLocation rows
    Lots,           \* StockLot primary keys
    Reservations,   \* StockReservation primary keys, one per idempotency key
    Keys,           \* idempotency keys that callers choose for a movement
    Quantities,     \* the quantities a caller may ask for (bound of a run)
    RequestTypes,   \* the movement types callers ask for (bound of a run)
    Editors,        \* threads that serve a PATCH of a lot (bound of a run)
    None            \* a null foreign key, or a row that does not exist

Inbound == {"receipt", "adjustment_in", "return_in", "production_output"}
Outbound == {"issue", "adjustment_out", "production_consumption"}
MovementTypes == Inbound \union Outbound
                   \union {"transfer", "damage", "restore_damage"}

\* quantity_subcontractor is a structural column no service writes.
Buckets == {"available", "reserved", "in_production", "damaged"}

Statuses == {"active", "in_production", "released", "consumed"}

(***************************************************************************)
(* The unique (organization, idempotency_key) of StockMovement: a key a    *)
(* caller chose, or one a service builds from the row it works on.  A      *)
(* movement without a key is one whose key is never used again.            *)
(***************************************************************************)
MovementKeys == ({"request", "production-reservation",
                  "manufacturing-supplemental", "manufacturing-remnant"} \X Keys)
                  \union ({"lot-open"} \X Lots)
                  \union ({"reservation-consume"} \X Reservations)

Movement == [type: MovementTypes, quantity: Nat,
             source: Locations \union {None},
             destination: Locations \union {None},
             lot: Lots \union {None},
             reservation: Reservations \union {None}]

\* StockLot.clean: a row agrees with itself.
LotRow == {row \in [location: Locations, initial: Nat, remaining: Nat,
                    status: {"active", "exhausted"}] :
             /\ row.remaining <= row.initial
             /\ row.status = "exhausted" <=> row.remaining = 0}

\* A PATCH in flight: its lot, and the row as it was read.
LotEdit == [lot: Lots, row: LotRow]

Reservation == [location: Locations, lot: Lots \union {None}, quantity: Nat,
                status: Statuses]

ASSUME QuantitiesArePositive == Quantities \subseteq Nat \ {0}
ASSUME RequestTypesAreTypes == RequestTypes \subseteq MovementTypes
ASSUME NoneIsNoRow == /\ None \notin Locations \union Lots \union Reservations
                      /\ None \notin Movement
                      /\ None \notin LotRow \union LotEdit
                      /\ None \notin Reservation

VARIABLES
    position,     \* StockPosition: the buckets of each location
    lot,          \* StockLot rows
    reservation,  \* StockReservation rows
    movement,     \* StockMovement rows, by idempotency key
    edit          \* the PATCH of a lot that an editor serves, or None

vars == <<position, lot, reservation, movement, edit>>

\* A StockPosition row that does not exist yet reads as zero everywhere:
\* _locked_position creates it before it is used.
Init ==
    /\ position = [l \in Locations |-> [b \in Buckets |-> 0]]
    /\ lot = [t \in Lots |-> None]
    /\ reservation = [r \in Reservations |-> None]
    /\ movement = [k \in MovementKeys |-> None]
    /\ edit = [e \in Editors |-> None]

-----------------------------------------------------------------------------
(* Positions, lots and the ledger.                                         *)

Add(l, bucket, q) ==
    position' = [position EXCEPT ![l][bucket] = @ + q]

\* Fault: the balance is not compared with the quantity.
TakeUnchecked(l, bucket, q) ==
    position' = [position EXCEPT ![l][bucket] = @ - q]

Take(l, bucket, q) ==
    /\ position[l][bucket] >= q
    /\ position' = [position EXCEPT ![l][bucket] = @ - q]

\* Fault: what leaves one bucket does not arrive in the other.
ShiftLosing(l, from, to, q) == Take(l, from, q)

Shift(l, from, to, q) ==
    /\ position[l][from] >= q
    /\ position' = [position EXCEPT ![l][from] = @ - q, ![l][to] = @ + q]

\* Fault: the lot is checked, and stays as full as it was.
ApplyLotDeltaNowhere(t, delta, destination) ==
    /\ t # None => lot[t].remaining + delta >= 0
    /\ UNCHANGED lot

\* A lot follows the destination of its movement as a whole, and its initial
\* quantity follows a remaining quantity that outgrows it.
ApplyLotDelta(t, delta, destination) ==
    IF t = None THEN UNCHANGED lot
    ELSE LET remaining == lot[t].remaining + delta
             initial == IF remaining > lot[t].initial
                        THEN remaining ELSE lot[t].initial
         IN  /\ remaining >= 0
             /\ lot' = [lot EXCEPT ![t] =
                  [location |-> IF destination = None
                                THEN lot[t].location ELSE destination,
                   initial |-> initial,
                   remaining |-> remaining,
                   status |-> IF remaining = 0
                              THEN "exhausted" ELSE "active"]]

IsLot(t) == t # None => lot[t] # None

\* Fault: a known idempotency key is applied again.
RecordAgain(k, m) == movement' = [movement EXCEPT ![k] = m]

Record(k, m) ==
    /\ movement[k] = None
    /\ movement' = [movement EXCEPT ![k] = m]

-----------------------------------------------------------------------------
(* apply_stock_movement, one operator per branch on the movement type.     *)

ReceiveStock(q, destination, t) ==
    /\ Add(destination, "available", q)
    /\ ApplyLotDelta(t, q, destination)

IssueStock(q, source, t) ==
    /\ Take(source, "available", q)
    /\ ApplyLotDelta(t, -q, None)

TransferStock(q, source, destination, t) ==
    /\ source # destination
    /\ position[source]["available"] >= q
    /\ position' = [position EXCEPT ![source]["available"] = @ - q,
                                    ![destination]["available"] = @ + q]
    /\ ApplyLotDelta(t, 0, destination)

DamageStock(q, source) ==
    /\ Shift(source, "available", "damaged", q)
    /\ UNCHANGED lot

RestoreStock(q, source) ==
    /\ Shift(source, "damaged", "available", q)
    /\ UNCHANGED lot

\* The locations a movement of this type reads; the others stay null here.
EndsOf(type) ==
    [source: IF type \in Inbound THEN {None} ELSE Locations,
     destination: IF type \in Inbound \union {"transfer"}
                  THEN Locations ELSE {None}]

ApplyStockMovement(k, type, q, source, destination, t) ==
    /\ IsLot(t)
    /\ \/ type \in Inbound /\ ReceiveStock(q, destination, t)
       \/ type \in Outbound /\ IssueStock(q, source, t)
       \/ type = "transfer" /\ TransferStock(q, source, destination, t)
       \/ type = "damage" /\ DamageStock(q, source)
       \/ type = "restore_damage" /\ RestoreStock(q, source)
    /\ Record(k, [type |-> type, quantity |-> q, source |-> source,
                  destination |-> destination, lot |-> t,
                  reservation |-> None])
    /\ UNCHANGED <<reservation, edit>>

\* create_lot_with_opening_stock: the row is created empty, then filled by a
\* receipt under the key "lot-open:<id>" of the same transaction.
CreateLot(t, destination, q) ==
    /\ lot[t] = None
    /\ lot' = [lot EXCEPT ![t] = [location |-> destination, initial |-> q,
                                  remaining |-> q, status |-> "active"]]
    /\ Add(destination, "available", q)
    /\ Record(<<"lot-open", t>>,
              [type |-> "receipt", quantity |-> q, source |-> None,
               destination |-> destination, lot |-> t, reservation |-> None])
    /\ UNCHANGED <<reservation, edit>>

(***************************************************************************)
(* StockLotDetailView: the location of a lot may be edited.  get_object    *)
(* reads the row without a lock; serializer.save() writes all of it, the   *)
(* remaining quantity and the status as they were read.                    *)
(***************************************************************************)
ReadLot(e, t) ==
    /\ edit[e] = None
    /\ lot[t] # None
    /\ edit' = [edit EXCEPT ![e] = [lot |-> t, row |-> lot[t]]]
    /\ UNCHANGED <<position, lot, reservation, movement>>

EndEdit(e) == edit' = [edit EXCEPT ![e] = None]

SaveLot(e, destination) ==
    /\ edit[e] # None
    /\ lot' = [lot EXCEPT ![edit[e].lot] =
                 [edit[e].row EXCEPT !.location = destination]]
    /\ EndEdit(e)
    /\ UNCHANGED <<position, reservation, movement>>

\* A PATCH that is refused, or whose worker dies.
AbandonEdit(e) ==
    /\ edit[e] # None
    /\ EndEdit(e)
    /\ UNCHANGED <<position, lot, reservation, movement>>

-----------------------------------------------------------------------------
(* Reservations.                                                           *)

SetStatus(r, status) ==
    reservation' = [reservation EXCEPT ![r].status = status]

\* The bucket that holds the stock of an open reservation.
BucketOf(status) == IF status = "active" THEN "reserved" ELSE "in_production"

\* Fault: the stock is always looked for in the reserved bucket.
HeldInReserved(r) == "reserved"

HeldIn(r) == BucketOf(reservation[r].status)

Open(r) == /\ reservation[r] # None
           /\ reservation[r].status \in {"active", "in_production"}

ReserveStock(r, l, q, t) ==
    /\ reservation[r] = None
    /\ IsLot(t)
    /\ t # None => lot[t].location = l /\ lot[t].remaining >= q
    /\ Shift(l, "available", "reserved", q)
    /\ reservation' = [reservation EXCEPT ![r] =
         [location |-> l, lot |-> t, quantity |-> q, status |-> "active"]]
    /\ UNCHANGED <<lot, movement, edit>>

\* Fault: any reservation whose stock seems to be there may enter production.
StartAny(r) ==
    /\ reservation[r] # None
    /\ Shift(reservation[r].location, "reserved", "in_production",
             reservation[r].quantity)
    /\ SetStatus(r, "in_production")
    /\ UNCHANGED <<lot, movement, edit>>

StartReservationProduction(r) ==
    /\ reservation[r] # None
    /\ reservation[r].status = "active"
    /\ Shift(reservation[r].location, "reserved", "in_production",
             reservation[r].quantity)
    /\ SetStatus(r, "in_production")
    /\ UNCHANGED <<lot, movement, edit>>

\* Fault: the stock of a released reservation stays where it is.
ReleaseStatusOnly(r) ==
    /\ Open(r)
    /\ SetStatus(r, "released")
    /\ UNCHANGED <<position, lot, movement, edit>>

ReleaseReservation(r) ==
    /\ Open(r)
    /\ Shift(reservation[r].location, HeldIn(r), "available",
             reservation[r].quantity)
    /\ SetStatus(r, "released")
    /\ UNCHANGED <<lot, movement, edit>>

\* Fault: the consumption is recorded and the reservation stays open.
ConsumeUnsaved(r) ==
    /\ Open(r)
    /\ Take(reservation[r].location, HeldIn(r), reservation[r].quantity)
    /\ ApplyLotDelta(reservation[r].lot, -reservation[r].quantity, None)
    /\ Record(<<"reservation-consume", r>>,
              [type |-> "production_consumption",
               quantity |-> reservation[r].quantity,
               source |-> reservation[r].location, destination |-> None,
               lot |-> reservation[r].lot, reservation |-> r])
    /\ UNCHANGED <<reservation, edit>>

ConsumeReservation(r) ==
    /\ Open(r)
    /\ Take(reservation[r].location, HeldIn(r), reservation[r].quantity)
    /\ ApplyLotDelta(reservation[r].lot, -reservation[r].quantity, None)
    /\ Record(<<"reservation-consume", r>>,
              [type |-> "production_consumption",
               quantity |-> reservation[r].quantity,
               source |-> reservation[r].location, destination |-> None,
               lot |-> reservation[r].lot, reservation |-> r])
    /\ SetStatus(r, "consumed")
    /\ UNCHANGED edit

-----------------------------------------------------------------------------
ApplyRequestedMovement ==
    \E k \in Keys, type \in RequestTypes, q \in Quantities,
       t \in Lots \union {None} :
       \E ends \in EndsOf(type) :
          ApplyStockMovement(<<"request", k>>, type, q,
                             ends.source, ends.destination, t)

CreateLots ==
    \E t \in Lots, l \in Locations, q \in Quantities : CreateLot(t, l, q)

EditLots ==
    \E e \in Editors : \/ \E t \in Lots : ReadLot(e, t)
                       \/ \E l \in Locations : SaveLot(e, l)
                       \/ AbandonEdit(e)

Reserve ==
    \E r \in Reservations, l \in Locations, q \in Quantities,
       t \in Lots \union {None} : ReserveStock(r, l, q, t)

SettleReservation ==
    \E r \in Reservations : \/ StartReservationProduction(r)
                            \/ ReleaseReservation(r)
                            \/ ConsumeReservation(r)

Next == \/ ApplyRequestedMovement
        \/ CreateLots
        \/ EditLots
        \/ Reserve
        \/ SettleReservation

Spec == Init /\ [][Next]_vars

-----------------------------------------------------------------------------
(* Properties.                                                             *)

\* Type correctness: no bucket of a position and no remaining quantity of a
\* lot is ever negative (the check constraints of inventory/models.py), and
\* the row of a lot agrees with itself, whoever wrote it.
TypeOK ==
    /\ position \in [Locations -> [Buckets -> Nat]]
    /\ lot \in [Lots -> LotRow \union {None}]
    /\ reservation \in [Reservations -> Reservation \union {None}]
    /\ movement \in [MovementKeys -> Movement \union {None}]
    /\ edit \in [Editors -> LotEdit \union {None}]

\* A reservation never names a lot that does not exist (its lot is PROTECTed).
ReservedLotsExist ==
    \A r \in Reservations : reservation[r] # None => IsLot(reservation[r].lot)

Total(l) == position[l]["available"] + position[l]["reserved"]
              + position[l]["in_production"] + position[l]["damaged"]

\* What a movement does to the stock physically present at a location.
Effect(m, l) ==
    LET enters == m.type \in Inbound \union {"transfer"} /\ m.destination = l
        leaves == m.type \in Outbound \union {"transfer"} /\ m.source = l
    IN  (IF enters THEN m.quantity ELSE 0) - (IF leaves THEN m.quantity ELSE 0)

\* What a movement does to the remaining quantity of a lot.
LotEffect(m, t) ==
    IF m.lot # t THEN 0
    ELSE IF m.type \in Inbound THEN m.quantity
    ELSE IF m.type \in Outbound THEN -m.quantity
    ELSE 0

Recorded == {k \in MovementKeys : movement[k] # None}

\* Stock is conserved: what a location holds, over all its buckets, is the net
\* of the movements recorded for it.
StockConserved ==
    \A l \in Locations :
       Total(l) = SumFunction([k \in Recorded |-> Effect(movement[k], l)])

\* The net of the movements that name a lot, and what is left in it.
LotNet(t) == SumFunction([k \in Recorded |-> LotEffect(movement[k], t)])

LeftIn(t) == IF lot[t] = None THEN 0 ELSE lot[t].remaining

\* The step ends an edit of t by writing back what the edit read.
WrittenBack(t) ==
    /\ movement' = movement
    /\ \E e \in Editors : /\ edit[e] # None /\ edit'[e] = None
                          /\ edit[e].lot = t
                          /\ LeftIn(t)' = edit[e].row.remaining

\* Every service changes what is left in each lot by just what it adds to the
\* net of the movements of that lot.  Nothing else changes it, except the save
\* of an edit, which brings back the quantity that the edit read.
LotsMoveWithTheLedger ==
    [][\A t \in Lots : \/ LeftIn(t)' - LeftIn(t) = LotNet(t)' - LotNet(t)
                       \/ WrittenBack(t)]_vars

HeldAt(l, status) == {r \in Reservations : /\ reservation[r] # None
                                           /\ reservation[r].location = l
                                           /\ reservation[r].status = status}

\* The reserved and in-production buckets are exactly the open reservations, so
\* the "inconsistent with the reservation" errors of the services never occur.
BucketsBackReservations ==
    \A l \in Locations, status \in {"active", "in_production"} :
       position[l][BucketOf(status)] =
          SumFunction([r \in HeldAt(l, status) |-> reservation[r].quantity])

\* A reservation is consumed exactly when its one consumption movement exists,
\* and that movement takes what was reserved, from where it was reserved.
ConsumptionIsRecorded ==
    \A r \in Reservations :
       LET m == movement[<<"reservation-consume", r>>]
           consumed == /\ reservation[r] # None
                       /\ reservation[r].status = "consumed"
       IN  /\ consumed <=> m # None
           /\ consumed => /\ m.type = "production_consumption"
                          /\ m.quantity = reservation[r].quantity
                          /\ m.source = reservation[r].location
                          /\ m.lot = reservation[r].lot

\* No step changes what is physically at a location except by recording one new
\* movement of just that effect, and no recorded movement is changed.
ChangeIsRecorded ==
    \/ /\ movement' = movement
       /\ \A l \in Locations : Total(l)' = Total(l)
    \/ \E k \in MovementKeys :
          /\ movement[k] = None
          /\ movement'[k] # None
          /\ \A j \in MovementKeys \ {k} : movement'[j] = movement[j]
          /\ \A l \in Locations :
                Total(l)' = Total(l) + Effect(movement'[k], l)

PhysicalChangeIsRecorded == [][ChangeIsRecorded]_vars

\* A reservation only moves forward: what it reserves never changes, a released
\* or consumed one never reopens, and none goes back from production to active.
MovesForward(r) ==
    reservation[r] # None =>
       /\ reservation'[r] # None
       /\ reservation'[r].location = reservation[r].location
       /\ reservation'[r].lot = reservation[r].lot
       /\ reservation'[r].quantity = reservation[r].quantity
       /\ \/ reservation'[r].status = reservation[r].status
          \/ reservation[r].status = "active"
          \/ /\ reservation[r].status = "in_production"
             /\ reservation'[r].status # "active"

ReservationMovesForward == [][\A r \in Reservations : MovesForward(r)]_vars

=============================================================================
