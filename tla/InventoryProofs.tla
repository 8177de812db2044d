--------------------------- MODULE InventoryProofs ---------------------------
(***************************************************************************)
(* Proofs about the stock ledger, for any set of locations, lots,          *)
(* reservations and idempotency keys.  They are stated of ProductionSpec,  *)
(* the specification with every service of the inventory application.      *)
(***************************************************************************)
EXTENDS ProductionStock, SumTheorems, TLAPS

Positions == [Locations -> [Buckets -> Nat]]

-----------------------------------------------------------------------------
(* The operators the services are built from.                              *)

\* Adding to a bucket keeps the position well typed and adds to its total.
LEMMA AddProperties ==
    ASSUME position \in Positions, NEW l \in Locations, NEW b \in Buckets,
           NEW q \in Nat, Add(l, b, q)
    PROVE  /\ position' \in Positions
           /\ \A m \in Locations :
                 Total(m)' = Total(m) + (IF m = l THEN q ELSE 0)
  BY DEF Positions, Buckets, Add, Total

\* Taking from a bucket never makes it negative, and takes from the total.
LEMMA TakeProperties ==
    ASSUME position \in Positions, NEW l \in Locations, NEW b \in Buckets,
           NEW q \in Nat, Take(l, b, q)
    PROVE  /\ position' \in Positions
           /\ \A m \in Locations :
                 Total(m)' = Total(m) - (IF m = l THEN q ELSE 0)
  BY DEF Positions, Buckets, Take, Total

\* Shifting between two buckets of a position leaves its total alone.
LEMMA ShiftProperties ==
    ASSUME position \in Positions, NEW l \in Locations,
           NEW from \in Buckets, NEW to \in Buckets, from # to,
           NEW q \in Nat, Shift(l, from, to, q)
    PROVE  /\ position' \in Positions
           /\ \A m \in Locations : Total(m)' = Total(m)
  BY DEF Positions, Buckets, Shift, Total

\* No step deletes a lot row.
LotsRemain == \A t \in Lots : lot[t] # None => lot'[t] # None

\* Applying a delta to a lot keeps the lots well typed and deletes none.
LEMMA LotDeltaProperties ==
    ASSUME lot \in [Lots -> LotRow \union {None}],
           NEW t \in Lots \union {None}, IsLot(t), NEW delta \in Int,
           NEW destination \in Locations \union {None},
           ApplyLotDelta(t, delta, destination)
    PROVE  lot' \in [Lots -> LotRow \union {None}] /\ LotsRemain
  <1>1. CASE t = None
    BY <1>1 DEF ApplyLotDelta, LotsRemain
  <1>2. CASE t # None
    <2>1. t \in Lots /\ lot[t] \in LotRow
      BY <1>2 DEF IsLot
    <2>2. PICK row \in LotRow : lot' = [lot EXCEPT ![t] = row]
      BY <1>2, <2>1 DEF ApplyLotDelta, LotRow
    <2>3. QED
      BY <2>1, <2>2, NoneIsNoRow DEF LotsRemain
  <1>3. QED
    BY <1>1, <1>2

\* Recording a movement fills one free key with it and changes no other.
LEMMA RecordProperties ==
    ASSUME movement \in [MovementKeys -> Movement \union {None}],
           NEW k \in MovementKeys, NEW m \in Movement, Record(k, m)
    PROVE  /\ movement' \in [MovementKeys -> Movement \union {None}]
           /\ movement[k] = None
           /\ movement'[k] = m
           /\ movement'[k] # None
           /\ \A j \in MovementKeys \ {k} : movement'[j] = movement[j]
  BY NoneIsNoRow DEF Record

\* What a movement changes at each location, for the types that move stock.
LEMMA EffectProperties ==
    ASSUME NEW m \in Movement, NEW l \in Locations
    PROVE  /\ m.type \in Inbound =>
                Effect(m, l) = IF m.destination = l THEN m.quantity ELSE 0
           /\ m.type \in Outbound =>
                Effect(m, l) = 0 - (IF m.source = l THEN m.quantity ELSE 0)
           /\ m.type \in {"damage", "restore_damage"} => Effect(m, l) = 0
  BY DEF Effect, Inbound, Outbound, Movement

-----------------------------------------------------------------------------
(* The two facts of a step: types are kept, physical changes are recorded. *)

Kept == TypeOK' /\ ChangeIsRecorded

\* A step that records a movement and changes every total by its effect.
LEMMA RecordedChange ==
    ASSUME TypeOK, NEW k \in MovementKeys, NEW m \in Movement, Record(k, m),
           position' \in Positions, UNCHANGED edit,
           lot' \in [Lots -> LotRow \union {None}],
           reservation' \in [Reservations -> Reservation \union {None}],
           \A l \in Locations : Total(l)' = Total(l) + Effect(m, l)
    PROVE  Kept
  BY RecordProperties DEF Kept, TypeOK, Positions, ChangeIsRecorded

\* A step that records nothing and changes no total.
LEMMA UnrecordedChange ==
    ASSUME TypeOK, movement' = movement, position' \in Positions,
           lot' \in [Lots -> LotRow \union {None}],
           reservation' \in [Reservations -> Reservation \union {None}],
           edit' \in [Editors -> LotEdit \union {None}],
           \A l \in Locations : Total(l)' = Total(l)
    PROVE  Kept
  BY DEF Kept, TypeOK, Positions, ChangeIsRecorded

\* apply_stock_movement, whatever its type.
LEMMA ApplyKeeps ==
    ASSUME TypeOK, NEW k \in MovementKeys, NEW type \in MovementTypes,
           NEW q \in Nat, NEW ends \in EndsOf(type),
           NEW t \in Lots \union {None},
           ApplyStockMovement(k, type, q, ends.source, ends.destination, t)
    PROVE  Kept
  <1> DEFINE m == [type |-> type, quantity |-> q, source |-> ends.source,
                   destination |-> ends.destination, lot |-> t,
                   reservation |-> None]
  <1>1. /\ type \in Inbound => ends.destination \in Locations
        /\ type \in MovementTypes \ Inbound => ends.source \in Locations
        /\ type = "transfer" => ends.destination \in Locations
        /\ ends.source \in Locations \union {None}
        /\ ends.destination \in Locations \union {None}
    BY DEF EndsOf, Inbound, MovementTypes
  <1>2. /\ m \in Movement /\ Record(k, m)
        /\ m.type = type /\ m.quantity = q
        /\ m.source = ends.source /\ m.destination = ends.destination
    BY <1>1 DEF ApplyStockMovement, Movement
  <1>3. /\ IsLot(t)
        /\ lot \in [Lots -> LotRow \union {None}]
        /\ position \in Positions
    BY DEF ApplyStockMovement, TypeOK, Positions
  <1>4. /\ reservation' \in [Reservations -> Reservation \union {None}]
        /\ UNCHANGED edit
    BY DEF ApplyStockMovement, TypeOK
  <1>5. SUFFICES /\ position' \in Positions
                 /\ lot' \in [Lots -> LotRow \union {None}]
                 /\ \A l \in Locations : Total(l)' = Total(l) + Effect(m, l)
    BY <1>2, <1>4, RecordedChange
  <1> HIDE DEF m
  <1>6. CASE type \in Inbound /\ ReceiveStock(q, ends.destination, t)
    <2>1. lot' \in [Lots -> LotRow \union {None}]
      BY <1>1, <1>3, <1>6, LotDeltaProperties DEF ReceiveStock
    <2>2. /\ position' \in Positions
          /\ \A l \in Locations :
                Total(l)' = Total(l) + (IF l = ends.destination THEN q ELSE 0)
      BY <1>1, <1>3, <1>6, AddProperties DEF ReceiveStock, Buckets
    <2>3. QED
      BY <1>2, <1>6, <2>1, <2>2, EffectProperties
  <1>7. CASE type \in Outbound /\ IssueStock(q, ends.source, t)
    <2>1. ends.source \in Locations
      BY <1>1, <1>7 DEF Inbound, Outbound
    <2>2. lot' \in [Lots -> LotRow \union {None}]
      BY <1>3, <1>7, LotDeltaProperties DEF IssueStock
    <2>3. /\ position' \in Positions
          /\ \A l \in Locations :
                Total(l)' = Total(l) - (IF l = ends.source THEN q ELSE 0)
      BY <1>3, <1>7, <2>1, TakeProperties DEF IssueStock, Buckets
    <2>4. \A l \in Locations : Total(l) \in Int
      BY <1>3 DEF Positions, Buckets, Total
    <2>5. QED
      BY <1>2, <1>7, <2>2, <2>3, <2>4, EffectProperties
  <1>8. CASE type = "transfer"
               /\ TransferStock(q, ends.source, ends.destination, t)
    <2>1. ends.source \in Locations /\ ends.destination \in Locations
      BY <1>1, <1>8 DEF Inbound
    <2>2. lot' \in [Lots -> LotRow \union {None}]
      BY <1>3, <1>8, <2>1, LotDeltaProperties DEF TransferStock
    <2>3. /\ position' \in Positions
          /\ \A l \in Locations :
                Total(l)' = Total(l) + (IF l = ends.destination THEN q ELSE 0)
                                     - (IF l = ends.source THEN q ELSE 0)
      BY <1>3, <1>8, <2>1 DEF TransferStock, Positions, Buckets, Total
    <2>4. \A l \in Locations :
             Effect(m, l) = (IF l = ends.destination THEN q ELSE 0)
                              - (IF l = ends.source THEN q ELSE 0)
      BY <1>2, <1>8 DEF Effect, Inbound, Outbound
    <2>5. \A l \in Locations : Total(l) \in Int
      BY <1>3 DEF Positions, Buckets, Total
    <2>6. QED
      BY <2>2, <2>3, <2>4, <2>5
  <1>9. CASE type = "damage" /\ DamageStock(q, ends.source)
    <2>1. /\ position' \in Positions
          /\ \A l \in Locations : Total(l)' = Total(l)
      BY <1>1, <1>3, <1>9, ShiftProperties DEF DamageStock, Buckets, Inbound
    <2>2. QED
      BY <1>2, <1>3, <1>9, <2>1, EffectProperties
         DEF DamageStock, Positions, Buckets, Total
  <1>10. CASE type = "restore_damage" /\ RestoreStock(q, ends.source)
    <2>1. /\ position' \in Positions
          /\ \A l \in Locations : Total(l)' = Total(l)
      BY <1>1, <1>3, <1>10, ShiftProperties DEF RestoreStock, Buckets, Inbound
    <2>2. QED
      BY <1>2, <1>3, <1>10, <2>1, EffectProperties
         DEF RestoreStock, Positions, Buckets, Total
  <1>11. QED
    BY <1>6, <1>7, <1>8, <1>9, <1>10 DEF ApplyStockMovement

\* create_lot_with_opening_stock: its receipt carries the whole opening stock.
LEMMA CreateLotKeeps ==
    ASSUME TypeOK, NEW t \in Lots, NEW l \in Locations, NEW q \in Nat \ {0},
           CreateLot(t, l, q)
    PROVE  Kept
  <1> DEFINE m == [type |-> "receipt", quantity |-> q, source |-> None,
                   destination |-> l, lot |-> t, reservation |-> None]
  <1>1. /\ m \in Movement /\ Record(<<"lot-open", t>>, m)
        /\ m.type \in Inbound /\ m.destination = l /\ m.quantity = q
    BY DEF CreateLot, Movement, MovementTypes, Inbound
  <1>2. /\ lot' \in [Lots -> LotRow \union {None}]
        /\ reservation' \in [Reservations -> Reservation \union {None}]
        /\ <<"lot-open", t>> \in MovementKeys
        /\ UNCHANGED edit
    BY DEF CreateLot, TypeOK, LotRow, MovementKeys
  <1> HIDE DEF m
  <1>3. /\ position' \in Positions
        /\ \A n \in Locations : Total(n)' = Total(n) + (IF n = l THEN q ELSE 0)
    BY AddProperties DEF CreateLot, TypeOK, Positions, Buckets
  <1>4. \A n \in Locations : Total(n)' = Total(n) + Effect(m, n)
    BY <1>1, <1>3, EffectProperties
  <1>5. QED
    BY <1>1, <1>2, <1>3, <1>4, RecordedChange

\* What a save writes: the row as it was read, with another location.
LEMMA SavedRow ==
    ASSUME TypeOK, NEW e \in Editors, NEW l \in Locations, SaveLot(e, l)
    PROVE  \E row \in LotRow :
              /\ edit[e] \in LotEdit /\ edit[e].lot \in Lots
              /\ row # None
              /\ row.remaining = edit[e].row.remaining
              /\ lot' = [lot EXCEPT ![edit[e].lot] = row]
  <1> DEFINE row == [edit[e].row EXCEPT !.location = l]
  <1>1. edit[e] \in LotEdit /\ edit[e].lot \in Lots /\ edit[e].row \in LotRow
    BY DEF SaveLot, TypeOK, LotEdit
  <1>2. row \in LotRow /\ row.remaining = edit[e].row.remaining
    BY <1>1 DEF LotRow
  <1>3. QED
    BY <1>1, <1>2, NoneIsNoRow DEF SaveLot

\* A PATCH of a lot touches neither positions nor movements.
LEMMA EditLotsKeeps ==
    ASSUME TypeOK, EditLots
    PROVE  Kept /\ LotsRemain
  <1>1. UNCHANGED <<position, reservation, movement>>
    BY DEF EditLots, ReadLot, SaveLot, AbandonEdit
  <1>2. \A n \in Locations : Total(n)' = Total(n)
    BY <1>1 DEF Total
  <1>3. edit' \in [Editors -> LotEdit \union {None}]
    <2>1. ASSUME NEW e \in Editors, NEW t \in Lots, ReadLot(e, t)
          PROVE  edit' \in [Editors -> LotEdit \union {None}]
      <3>1. [lot |-> t, row |-> lot[t]] \in LotEdit
        BY <2>1 DEF ReadLot, TypeOK, LotEdit
      <3>2. QED
        BY <2>1, <3>1 DEF ReadLot, TypeOK
    <2>2. QED
      BY <2>1 DEF EditLots, SaveLot, AbandonEdit, EndEdit, TypeOK
  <1>4. lot' \in [Lots -> LotRow \union {None}] /\ LotsRemain
    <2>1. CASE UNCHANGED lot
      BY <2>1 DEF TypeOK, LotsRemain
    <2>2. ASSUME NEW e \in Editors, NEW l \in Locations, SaveLot(e, l)
          PROVE  lot' \in [Lots -> LotRow \union {None}] /\ LotsRemain
      BY <2>2, SavedRow DEF TypeOK, LotsRemain
    <2>3. QED
      BY <2>1, <2>2 DEF EditLots, ReadLot, AbandonEdit
  <1>5. QED
    BY <1>1, <1>2, <1>3, <1>4, UnrecordedChange DEF TypeOK, Positions

\* The row of an open reservation, and a change of its status.
LEMMA OpenProperties ==
    ASSUME TypeOK, NEW r \in Reservations, Open(r)
    PROVE  /\ reservation[r] \in Reservation
           /\ reservation[r].location \in Locations
           /\ reservation[r].lot \in Lots \union {None}
           /\ reservation[r].quantity \in Nat
           /\ HeldIn(r) \in {"reserved", "in_production"}
  BY DEF Open, TypeOK, Reservation, HeldIn, BucketOf

\* Setting a status keeps the reservations well typed.
LEMMA SetStatusProperties ==
    ASSUME TypeOK, NEW r \in Reservations, reservation[r] \in Reservation,
           NEW status \in Statuses, SetStatus(r, status)
    PROVE  reservation' \in [Reservations -> Reservation \union {None}]
  BY DEF SetStatus, TypeOK, Reservation

\* reserve_stock: available stock becomes reserved stock.
LEMMA ReserveKeeps ==
    ASSUME TypeOK, NEW r \in Reservations, NEW l \in Locations,
           NEW q \in Nat, NEW t \in Lots \union {None}, ReserveStock(r, l, q, t)
    PROVE  Kept
  <1>1. reservation' \in [Reservations -> Reservation \union {None}]
    BY DEF ReserveStock, TypeOK, Reservation, Statuses
  <1>2. /\ position' \in Positions
        /\ \A n \in Locations : Total(n)' = Total(n)
    BY ShiftProperties DEF ReserveStock, TypeOK, Positions, Buckets
  <1>3. QED
    BY <1>1, <1>2, UnrecordedChange DEF ReserveStock, TypeOK

\* start_reservation_production: reserved stock becomes stock in production.
LEMMA StartKeeps ==
    ASSUME TypeOK, NEW r \in Reservations, StartReservationProduction(r)
    PROVE  Kept
  <1>1. Open(r)
    BY DEF StartReservationProduction, Open
  <1>2. reservation' \in [Reservations -> Reservation \union {None}]
    BY <1>1, OpenProperties, SetStatusProperties
       DEF StartReservationProduction, Statuses
  <1>3. /\ position' \in Positions
        /\ \A n \in Locations : Total(n)' = Total(n)
    BY <1>1, OpenProperties, ShiftProperties
       DEF StartReservationProduction, TypeOK, Positions, Buckets
  <1>4. QED
    BY <1>2, <1>3, UnrecordedChange DEF StartReservationProduction, TypeOK

\* release_reservation: whatever was consumed before, it moves stock between
\* two buckets of one position.
LEMMA ReleaseKeeps ==
    ASSUME TypeOK, NEW r \in Reservations, ReleaseReservation(r)
    PROVE  Kept
  <1>1. Open(r)
    BY DEF ReleaseReservation
  <1>2. reservation' \in [Reservations -> Reservation \union {None}]
    BY <1>1, OpenProperties, SetStatusProperties DEF ReleaseReservation, Statuses
  <1>3. /\ position' \in Positions
        /\ \A n \in Locations : Total(n)' = Total(n)
    <2>1. Shift(reservation[r].location, HeldIn(r), "available",
                reservation[r].quantity)
      BY DEF ReleaseReservation
    <2>2. /\ HeldIn(r) \in Buckets
          /\ HeldIn(r) # "available"
          /\ "available" \in Buckets
      BY <1>1, OpenProperties DEF Buckets
    <2>3. QED
      BY <1>1, <2>1, <2>2, OpenProperties, ShiftProperties DEF TypeOK, Positions
  <1>4. QED
    BY <1>2, <1>3, UnrecordedChange DEF ReleaseReservation, TypeOK

\* Stock of a reservation that is taken and recorded as consumed, in whole
\* (consume_reservation) or in part (consume_reserved_quantity).
LEMMA ConsumptionKeeps ==
    ASSUME TypeOK, NEW r \in Reservations, Open(r), NEW q \in Nat,
           NEW k \in MovementKeys,
           Take(reservation[r].location, HeldIn(r), q),
           ApplyLotDelta(reservation[r].lot, -q, None),
           Record(k, [type |-> "production_consumption", quantity |-> q,
                      source |-> reservation[r].location, destination |-> None,
                      lot |-> reservation[r].lot, reservation |-> r]),
           SetStatus(r, "consumed") \/ UNCHANGED reservation, UNCHANGED edit,
           IsLot(reservation[r].lot)
    PROVE  Kept
  <1> DEFINE m == [type |-> "production_consumption", quantity |-> q,
                   source |-> reservation[r].location, destination |-> None,
                   lot |-> reservation[r].lot, reservation |-> r]
  <1>1. /\ m \in Movement /\ Record(k, m) /\ m.type \in Outbound
        /\ m.source = reservation[r].location /\ m.quantity = q
    BY OpenProperties DEF Movement, MovementTypes, Outbound
  <1> HIDE DEF m
  <1>2. lot' \in [Lots -> LotRow \union {None}]
    <2>1. /\ lot \in [Lots -> LotRow \union {None}]
          /\ reservation[r].lot \in Lots \union {None}
          /\ -q \in Int
      BY OpenProperties DEF TypeOK
    <2>2. QED
      BY <2>1, LotDeltaProperties
  <1>3. reservation' \in [Reservations -> Reservation \union {None}]
    BY OpenProperties, SetStatusProperties DEF TypeOK, Statuses
  <1>4. /\ position' \in Positions
        /\ \A n \in Locations : Total(n)' =
              Total(n) - (IF n = reservation[r].location THEN q ELSE 0)
    BY OpenProperties, TakeProperties DEF TypeOK, Positions, Buckets
  <1>5. \A n \in Locations : Total(n) \in Int
    BY DEF TypeOK, Buckets, Total
  <1>6. \A n \in Locations : Total(n)' = Total(n) + Effect(m, n)
    BY <1>1, <1>4, <1>5, EffectProperties
  <1>7. QED
    BY <1>1, <1>2, <1>3, <1>4, <1>6, RecordedChange

-----------------------------------------------------------------------------
(* The inductive invariant: types, and no reservation names a lot that does *)
(* not exist.  The second part is what lets a consumption read its lot.     *)

IInv == TypeOK /\ ReservedLotsExist

\* Every quantity a caller may ask for is a positive natural number.
LEMMA QuantityIsPositive == \A q \in Quantities : q \in Nat \ {0}
  BY QuantitiesArePositive

\* Every step of every service keeps the types and records what it changes.
LEMMA StepKeeps ==
    ASSUME IInv, ProductionNext
    PROVE  Kept
  <1> USE DEF IInv, ReservedLotsExist
  <1>1. CASE ApplyRequestedMovement
    <2>1. PICK k \in Keys, type \in RequestTypes, q \in Quantities,
               t \in Lots \union {None} :
             \E ends \in EndsOf(type) :
                ApplyStockMovement(<<"request", k>>, type, q,
                                   ends.source, ends.destination, t)
      BY <1>1 DEF ApplyRequestedMovement
    <2>2. <<"request", k>> \in MovementKeys /\ type \in MovementTypes
      BY RequestTypesAreTypes DEF MovementKeys
    <2>3. QED
      BY <2>1, <2>2, QuantityIsPositive, ApplyKeeps
  <1>2. CASE CreateLots \/ EditLots
    BY <1>2, QuantityIsPositive, CreateLotKeeps, EditLotsKeeps DEF CreateLots
  <1>3. CASE Reserve
    BY <1>3, QuantityIsPositive, ReserveKeeps DEF Reserve
  <1>4. ASSUME NEW r \in Reservations, ConsumeReservation(r)
        PROVE  Kept
    <2>1. /\ Open(r) /\ reservation[r] # None
          /\ reservation[r].quantity \in Nat
          /\ <<"reservation-consume", r>> \in MovementKeys
      BY <1>4, OpenProperties DEF ConsumeReservation, MovementKeys, Open
    <2>2. QED
      BY <1>4, <2>1, ConsumptionKeeps DEF ConsumeReservation
  <1>5. CASE SettleReservation
    BY <1>4, <1>5, StartKeeps, ReleaseKeeps DEF SettleReservation
  <1>6. CASE ConsumePart
    <2>1. PICK r \in Reservations, k \in Keys, q \in Quantities :
             ConsumeReservedQuantity(r, k, q)
      BY <1>6 DEF ConsumePart
    <2>2. /\ Open(r) /\ reservation[r] # None /\ q \in Nat
          /\ <<"production-reservation", k>> \in MovementKeys
      BY <2>1, QuantityIsPositive DEF ConsumeReservedQuantity, MovementKeys, Open
    <2>3. QED
      BY <2>1, <2>2, ConsumptionKeeps DEF ConsumeReservedQuantity
  <1>7. QED
    BY <1>1, <1>2, <1>3, <1>5, <1>6 DEF ProductionNext, Next

-----------------------------------------------------------------------------
(* The life of a reservation, and the lot it names.                        *)

\* The rows of reservations a step may write: r and, if anything, its status.
OnlyStatusOf(r) ==
    /\ reservation[r] # None
    /\ \A n \in Reservations \ {r} : reservation'[n] = reservation[n]
    /\ \/ reservation' = reservation
       \/ \E status \in Statuses : /\ SetStatus(r, status)
                                  /\ \/ reservation[r].status = "active"
                                     \/ /\ reservation[r].status = "in_production"
                                        /\ status # "active"

\* A settlement, whole or partial, only moves the status of its reservation.
LEMMA SettlementProperties ==
    ASSUME TypeOK, NEW r \in Reservations,
           \/ StartReservationProduction(r) \/ ReleaseReservation(r)
           \/ ConsumeReservation(r)
           \/ \E k \in Keys, q \in Quantities : ConsumeReservedQuantity(r, k, q)
    PROVE  OnlyStatusOf(r)
  <1>1. /\ reservation[r] # None
        /\ \/ reservation' = reservation /\ Open(r)
           \/ SetStatus(r, "in_production") /\ reservation[r].status = "active"
           \/ SetStatus(r, "released") /\ Open(r)
           \/ SetStatus(r, "consumed") /\ Open(r)
    BY DEF StartReservationProduction, ReleaseReservation, ConsumeReservation,
           ConsumeReservedQuantity, Open
  <1>2. \A n \in Reservations \ {r} : reservation'[n] = reservation[n]
    BY <1>1 DEF SetStatus, TypeOK
  <1>3. QED
    BY <1>1, <1>2 DEF OnlyStatusOf, Open, Statuses

\* Such a step moves every reservation forward.
LEMMA StatusMovesForward ==
    ASSUME TypeOK, NEW r \in Reservations, OnlyStatusOf(r)
    PROVE  \A n \in Reservations : MovesForward(n)
  <1>1. reservation[r] \in Reservation
    BY DEF OnlyStatusOf, TypeOK
  <1>2. \A n \in Reservations \ {r} : MovesForward(n)
    BY DEF OnlyStatusOf, MovesForward
  <1>3. CASE reservation' = reservation
    BY <1>3 DEF MovesForward
  <1>4. ASSUME NEW status \in Statuses, SetStatus(r, status),
               \/ reservation[r].status = "active"
               \/ reservation[r].status = "in_production" /\ status # "active"
        PROVE  MovesForward(r)
    <2>1. /\ reservation'[r] \in Reservation
          /\ reservation'[r].location = reservation[r].location
          /\ reservation'[r].lot = reservation[r].lot
          /\ reservation'[r].quantity = reservation[r].quantity
          /\ reservation'[r].status = status
      BY <1>1, <1>4 DEF SetStatus, TypeOK, Reservation
    <2>2. QED
      BY <1>4, <2>1, NoneIsNoRow DEF MovesForward
  <1>5. QED
    BY <1>2, <1>3, <1>4 DEF OnlyStatusOf

\* Every step of every service moves reservations forward, and a reservation
\* it creates names a lot that exists.
LEMMA StepMovesForward ==
    ASSUME TypeOK, ProductionNext
    PROVE  /\ \A r \in Reservations : MovesForward(r)
           /\ \A r \in Reservations :
                 reservation[r] = None /\ reservation'[r] # None
                   => IsLot(reservation'[r].lot)
  <1>1. CASE UNCHANGED reservation
    BY <1>1 DEF MovesForward
  <1>2. CASE ApplyRequestedMovement \/ CreateLots \/ EditLots
    BY <1>1, <1>2 DEF ApplyRequestedMovement, ApplyStockMovement, CreateLots,
                      CreateLot, EditLots, ReadLot, SaveLot, AbandonEdit
  <1>3. CASE Reserve
    <2>1. PICK r \in Reservations, l \in Locations, q \in Quantities,
               t \in Lots \union {None} : ReserveStock(r, l, q, t)
      BY <1>3 DEF Reserve
    <2>2. /\ reservation[r] = None /\ IsLot(t)
          /\ reservation'[r].lot = t
          /\ \A n \in Reservations \ {r} : reservation'[n] = reservation[n]
      BY <2>1 DEF ReserveStock, TypeOK
    <2>3. QED
      BY <2>2 DEF MovesForward
  <1>4. ASSUME NEW r \in Reservations,
               \/ StartReservationProduction(r) \/ ReleaseReservation(r)
               \/ ConsumeReservation(r)
               \/ \E k \in Keys, q \in Quantities :
                     ConsumeReservedQuantity(r, k, q)
        PROVE  /\ \A n \in Reservations : MovesForward(n)
               /\ \A n \in Reservations :
                     reservation[n] = None => reservation'[n] = None
    BY <1>4, SettlementProperties, StatusMovesForward DEF OnlyStatusOf
  <1>5. CASE SettleReservation \/ ConsumePart
    BY <1>4, <1>5 DEF SettleReservation, ConsumePart
  <1>6. QED
    BY <1>2, <1>3, <1>5 DEF ProductionNext, Next

\* apply_stock_movement deletes no lot.
LEMMA ApplyKeepsLots ==
    ASSUME TypeOK, NEW k \in MovementKeys, NEW type \in MovementTypes,
           NEW q \in Nat, NEW ends \in EndsOf(type),
           NEW t \in Lots \union {None},
           ApplyStockMovement(k, type, q, ends.source, ends.destination, t)
    PROVE  LotsRemain
  <1>1. /\ type \in Inbound => ends.destination \in Locations
        /\ type = "transfer" => ends.destination \in Locations
    BY DEF EndsOf
  <1>2. \/ UNCHANGED lot
        \/ \E l \in Locations : ApplyLotDelta(t, q, l)
        \/ \E l \in Locations : ApplyLotDelta(t, 0, l)
        \/ ApplyLotDelta(t, -q, None)
    BY <1>1 DEF ApplyStockMovement, ReceiveStock, IssueStock,
                TransferStock, DamageStock, RestoreStock
  <1>3. IsLot(t) /\ q \in Int /\ -q \in Int /\ 0 \in Int
    BY DEF ApplyStockMovement
  <1>4. CASE UNCHANGED lot
    BY <1>4 DEF LotsRemain
  <1>5. QED
    BY <1>2, <1>3, <1>4, LotDeltaProperties DEF TypeOK

\* No service deletes a lot.
LEMMA StepKeepsLots ==
    ASSUME IInv, ProductionNext
    PROVE  LotsRemain
  <1> USE DEF IInv, ReservedLotsExist
  <1>1. CASE UNCHANGED lot
    BY <1>1 DEF LotsRemain
  <1>2. ASSUME NEW t \in Lots, NEW row \in LotRow, lot[t] = None,
               lot' = [lot EXCEPT ![t] = row]
        PROVE  LotsRemain
    BY <1>2 DEF LotsRemain, TypeOK
  <1>3. CASE ApplyRequestedMovement
    <2>1. PICK k \in Keys, type \in RequestTypes, q \in Quantities,
               t \in Lots \union {None} :
             \E ends \in EndsOf(type) :
                ApplyStockMovement(<<"request", k>>, type, q,
                                   ends.source, ends.destination, t)
      BY <1>3 DEF ApplyRequestedMovement
    <2>2. <<"request", k>> \in MovementKeys /\ type \in MovementTypes
      BY RequestTypesAreTypes DEF MovementKeys
    <2>3. QED
      BY <2>1, <2>2, QuantityIsPositive, ApplyKeepsLots
  <1>4. CASE CreateLots \/ EditLots
    <2>1. ASSUME NEW t \in Lots, NEW l \in Locations, NEW q \in Quantities,
                 CreateLot(t, l, q)
          PROVE  LotsRemain
      <3>1. \A n \in Lots \ {t} : lot'[n] = lot[n]
        BY <2>1 DEF CreateLot, TypeOK
      <3>2. QED
        BY <2>1, <3>1 DEF CreateLot, LotsRemain
    <2>2. QED
      BY <1>4, <2>1, EditLotsKeeps DEF CreateLots
  <1>5. CASE Reserve
    BY <1>1, <1>5 DEF Reserve, ReserveStock
  <1>6. ASSUME NEW r \in Reservations, reservation[r] # None, NEW q \in Nat,
               ApplyLotDelta(reservation[r].lot, -q, None)
        PROVE  LotsRemain
    <2>1. /\ reservation[r].lot \in Lots \union {None}
          /\ IsLot(reservation[r].lot) /\ -q \in Int
      BY <1>6 DEF TypeOK, Reservation
    <2>2. QED
      BY <1>6, <2>1, LotDeltaProperties DEF TypeOK
  <1>7. CASE SettleReservation
    <2>1. ASSUME NEW r \in Reservations, ConsumeReservation(r)
          PROVE  LotsRemain
      BY <1>6, <2>1, OpenProperties DEF ConsumeReservation, Open
    <2>2. QED
      BY <1>1, <1>7, <2>1 DEF SettleReservation, StartReservationProduction,
                              ReleaseReservation
  <1>8. CASE ConsumePart
    BY <1>6, <1>8, QuantityIsPositive DEF ConsumePart, ConsumeReservedQuantity, Open
  <1>9. QED
    BY <1>3, <1>4, <1>5, <1>7, <1>8 DEF ProductionNext, Next

-----------------------------------------------------------------------------
(* The theorems.                                                           *)

\* IInv holds initially: there is no row at all.
LEMMA InitInvariant == Init => IInv
  BY NoneIsNoRow
     DEF Init, IInv, TypeOK, ReservedLotsExist, Buckets

\* Every step of every service keeps IInv.
LEMMA StepInvariant == IInv /\ [ProductionNext]_vars => IInv'
  <1> SUFFICES ASSUME IInv, [ProductionNext]_vars
               PROVE  IInv'
    OBVIOUS
  <1>1. CASE ProductionNext
    <2>1. TypeOK' /\ LotsRemain
      BY <1>1, StepKeeps, StepKeepsLots DEF Kept
    <2>2. ASSUME NEW r \in Reservations, reservation'[r] # None
          PROVE  IsLot(reservation[r].lot)'
      <3>1. CASE reservation[r] = None
        <4>1. IsLot(reservation'[r].lot)
          BY <1>1, <2>2, <3>1, StepMovesForward DEF IInv
        <4>2. reservation'[r].lot \in Lots \union {None}
          BY <2>1, <2>2 DEF TypeOK, Reservation
        <4>3. QED
          BY <2>1, <4>1, <4>2 DEF IsLot, LotsRemain
      <3>2. CASE reservation[r] # None
        <4>1. reservation'[r].lot = reservation[r].lot
          BY <1>1, <3>2, StepMovesForward DEF IInv, MovesForward
        <4>2. /\ IsLot(reservation[r].lot)
              /\ reservation[r].lot \in Lots \union {None}
          BY <3>2 DEF IInv, ReservedLotsExist, TypeOK, Reservation
        <4>3. QED
          BY <2>1, <4>1, <4>2 DEF IsLot, LotsRemain
      <3>3. QED
        BY <3>1, <3>2
    <2>3. QED
      BY <2>1, <2>2 DEF IInv, ReservedLotsExist
  <1>2. CASE UNCHANGED vars
    BY <1>2 DEF vars, IInv, TypeOK, ReservedLotsExist, IsLot
  <1>3. QED
    BY <1>1, <1>2

\* IInv is an invariant of the services.
THEOREM InventoryInvariant == ProductionSpec => []IInv
  BY InitInvariant, StepInvariant, PTL DEF ProductionSpec

\* No sequence of service calls makes a bucket of a position or what remains
\* of a lot negative.
THEOREM TypeCorrect == ProductionSpec => []TypeOK
  <1>1. IInv => TypeOK
    BY DEF IInv
  <1>2. QED
    BY <1>1, InventoryInvariant, PTL

\* Whatever is asked of the services, the stock physically at a location
\* changes only by the effect of the one movement that the step records.
THEOREM ChangesAreRecorded == ProductionSpec => PhysicalChangeIsRecorded
  <1>1. IInv /\ [ProductionNext]_vars => [ChangeIsRecorded]_vars
    BY StepKeeps DEF Kept
  <1>2. QED
    BY <1>1, InventoryInvariant, PTL DEF ProductionSpec, PhysicalChangeIsRecorded

\* No service reopens a released or consumed reservation, or edits what a
\* reservation reserves.
THEOREM OnlyForward == ProductionSpec => ReservationMovesForward
  <1>1. IInv /\ [ProductionNext]_vars
          => [\A r \in Reservations : MovesForward(r)]_vars
    BY StepMovesForward DEF IInv
  <1>2. QED
    BY <1>1, InventoryInvariant, PTL DEF ProductionSpec, ReservationMovesForward

-----------------------------------------------------------------------------
(* Lots.  Like the positions, a lot changes only by the effect of the one   *)
(* movement that the step records.                                          *)

\* The step fills the free key k and changes no other movement.
Fills(k) ==
    /\ movement[k] = None
    /\ movement'[k] # None
    /\ \A j \in MovementKeys \ {k} : movement'[j] = movement[j]

LotsAccounted ==
    \/ /\ movement' = movement
       /\ \A n \in Lots : LeftIn(n)' = LeftIn(n) \/ WrittenBack(n)
    \/ \E k \in MovementKeys :
          /\ Fills(k)
          /\ \A n \in Lots :
                LeftIn(n)' = LeftIn(n) + LotEffect(movement'[k], n)

\* A delta changes what is left in its lot and in no other.
LEMMA LotDeltaEffect ==
    ASSUME lot \in [Lots -> LotRow \union {None}],
           NEW t \in Lots \union {None}, IsLot(t), NEW delta \in Int,
           NEW destination \in Locations \union {None},
           ApplyLotDelta(t, delta, destination)
    PROVE  \A n \in Lots :
              /\ LeftIn(n) \in Nat
              /\ LeftIn(n)' = LeftIn(n) + (IF n = t THEN delta ELSE 0)
  <1>1. \A n \in Lots : LeftIn(n) \in Nat
    BY DEF LeftIn, LotRow
  <1>2. CASE t = None
    BY <1>1, <1>2, NoneIsNoRow DEF ApplyLotDelta, LeftIn
  <1>3. CASE t # None
    <2> DEFINE remaining == lot[t].remaining + delta
               row == [location |-> IF destination = None
                                    THEN lot[t].location ELSE destination,
                       initial |-> IF remaining > lot[t].initial
                                   THEN remaining ELSE lot[t].initial,
                       remaining |-> remaining,
                       status |-> IF remaining = 0 THEN "exhausted" ELSE "active"]
    <2>1. t \in Lots /\ lot[t] \in LotRow /\ lot[t] # None
      BY <1>3 DEF IsLot
    <2>2. /\ lot' = [lot EXCEPT ![t] = row]
          /\ row \in LotRow /\ row # None
      BY <1>3, <2>1, NoneIsNoRow DEF ApplyLotDelta, LotRow
    <2>3. /\ lot'[t] = row
          /\ \A n \in Lots \ {t} : lot'[n] = lot[n]
      BY <2>1, <2>2
    <2>4. row.remaining = LeftIn(t) + delta
      BY <2>1 DEF LotRow, LeftIn
    <2>5. ASSUME NEW n \in Lots \ {t}
          PROVE  LeftIn(n)' = LeftIn(n)
      BY <2>3 DEF LeftIn
    <2> HIDE DEF row
    <2>6. LeftIn(t)' = LeftIn(t) + delta
      BY <2>2, <2>3, <2>4 DEF LeftIn
    <2>7. QED
      BY <1>1, <2>5, <2>6
  <1>4. QED
    BY <1>2, <1>3

\* What a movement does to a lot, by its type.
LEMMA LotEffectProperties ==
    ASSUME NEW m \in Movement, NEW t \in Lots
    PROVE  /\ m.type \in Inbound =>
                LotEffect(m, t) = IF t = m.lot THEN m.quantity ELSE 0
           /\ m.type \in Outbound =>
                LotEffect(m, t) = IF t = m.lot THEN -m.quantity ELSE 0
           /\ m.type \in {"transfer", "damage", "restore_damage"} =>
                LotEffect(m, t) = 0
           /\ LotEffect(m, t) \in Int
  BY DEF LotEffect, Inbound, Outbound, Movement, MovementTypes

\* A step that records m and changes every lot by its effect.
LEMMA RecordedLots ==
    ASSUME movement \in [MovementKeys -> Movement \union {None}],
           NEW k \in MovementKeys, NEW m \in Movement, Record(k, m),
           \A n \in Lots : LeftIn(n)' = LeftIn(n) + LotEffect(m, n)
    PROVE  LotsAccounted
  BY RecordProperties DEF LotsAccounted, Fills

\* A step that leaves lots and movements alone.
LEMMA LotsUntouched ==
    ASSUME UNCHANGED <<lot, movement>>
    PROVE  LotsAccounted
  BY DEF LotsAccounted, LeftIn

\* apply_stock_movement, whatever its type, applies its effect to its lot.
LEMMA ApplyAccountsForLots ==
    ASSUME TypeOK, NEW k \in MovementKeys, NEW type \in MovementTypes,
           NEW q \in Nat, NEW ends \in EndsOf(type),
           NEW t \in Lots \union {None},
           ApplyStockMovement(k, type, q, ends.source, ends.destination, t)
    PROVE  LotsAccounted
  <1> DEFINE m == [type |-> type, quantity |-> q, source |-> ends.source,
                   destination |-> ends.destination, lot |-> t,
                   reservation |-> None]
  <1>1. /\ type \in Inbound => ends.destination \in Locations
        /\ type = "transfer" => ends.destination \in Locations
        /\ ends.source \in Locations \union {None}
        /\ ends.destination \in Locations \union {None}
    BY DEF EndsOf
  <1>2. /\ m \in Movement /\ Record(k, m)
        /\ m.type = type /\ m.quantity = q /\ m.lot = t
    BY <1>1 DEF ApplyStockMovement, Movement
  <1>3. /\ IsLot(t)
        /\ lot \in [Lots -> LotRow \union {None}]
        /\ movement \in [MovementKeys -> Movement \union {None}]
    BY DEF ApplyStockMovement, TypeOK
  <1> HIDE DEF m
  <1>4. CASE type \in Inbound /\ ReceiveStock(q, ends.destination, t)
    <2>1. \A n \in Lots : LeftIn(n)' = LeftIn(n) + (IF n = t THEN q ELSE 0)
      BY <1>1, <1>3, <1>4, LotDeltaEffect DEF ReceiveStock
    <2>2. QED
      BY <1>2, <1>3, <1>4, <2>1, LotEffectProperties, RecordedLots
  <1>5. CASE type \in Outbound /\ IssueStock(q, ends.source, t)
    <2>1. -q \in Int /\ ApplyLotDelta(t, -q, None)
      BY <1>5 DEF IssueStock
    <2>2. \A n \in Lots : LeftIn(n)' = LeftIn(n) + (IF n = t THEN -q ELSE 0)
      BY <1>3, <2>1, LotDeltaEffect
    <2>3. QED
      BY <1>2, <1>3, <1>5, <2>2, LotEffectProperties, RecordedLots
  <1>6. CASE type = "transfer"
               /\ TransferStock(q, ends.source, ends.destination, t)
    <2>1. \A n \in Lots : LeftIn(n)' = LeftIn(n) + 0
      BY <1>1, <1>3, <1>6, LotDeltaEffect DEF TransferStock
    <2>2. QED
      BY <1>2, <1>3, <1>6, <2>1, LotEffectProperties, RecordedLots
  <1>7. CASE type \in {"damage", "restore_damage"} /\ UNCHANGED lot
    <2>1. \A n \in Lots : LeftIn(n)' = LeftIn(n) + 0
      BY <1>3, <1>7 DEF LeftIn, LotRow
    <2>2. QED
      BY <1>2, <1>3, <1>7, <2>1, LotEffectProperties, RecordedLots
  <1>8. QED
    BY <1>4, <1>5, <1>6, <1>7
       DEF ApplyStockMovement, DamageStock, RestoreStock

\* create_lot_with_opening_stock: the receipt brings all the new lot holds.
LEMMA CreateLotAccounts ==
    ASSUME TypeOK, NEW t \in Lots, NEW l \in Locations, NEW q \in Nat \ {0},
           CreateLot(t, l, q)
    PROVE  LotsAccounted
  <1> DEFINE m == [type |-> "receipt", quantity |-> q, source |-> None,
                   destination |-> l, lot |-> t, reservation |-> None]
             row == [location |-> l, initial |-> q, remaining |-> q,
                     status |-> "active"]
  <1>1. /\ m \in Movement /\ Record(<<"lot-open", t>>, m)
        /\ m.type \in Inbound /\ m.quantity = q /\ m.lot = t
        /\ <<"lot-open", t>> \in MovementKeys
    BY DEF CreateLot, Movement, MovementTypes, Inbound, MovementKeys
  <1>2. /\ row \in LotRow /\ row # None
        /\ lot[t] = None
        /\ lot' = [lot EXCEPT ![t] = row]
        /\ row.remaining = q /\ row.initial = q /\ row.status = "active"
    BY NoneIsNoRow DEF CreateLot, LotRow
  <1> HIDE DEF m, row
  <1>3. /\ lot'[t] = row
        /\ \A n \in Lots \ {t} : lot'[n] = lot[n]
    BY <1>2 DEF TypeOK
  <1>4. LeftIn(t) = 0 /\ LeftIn(t)' = q
    BY <1>2, <1>3 DEF LeftIn
  <1>5. \A n \in Lots \ {t} : LeftIn(n)' = LeftIn(n) /\ LeftIn(n) \in Nat
    BY <1>3 DEF LeftIn, TypeOK, LotRow
  <1>6. \A n \in Lots : LeftIn(n)' = LeftIn(n) + LotEffect(m, n)
    BY <1>1, <1>4, <1>5, LotEffectProperties
  <1>7. movement \in [MovementKeys -> Movement \union {None}]
    BY DEF TypeOK
  <1>8. QED
    BY <1>1, <1>6, <1>7, RecordedLots

\* A save brings back what the edit read, and no other lot changes.
LEMMA EditLotsAccounts ==
    ASSUME TypeOK, EditLots
    PROVE  LotsAccounted
  <1>1. CASE UNCHANGED <<lot, movement>>
    BY <1>1, LotsUntouched
  <1>2. ASSUME NEW e \in Editors, NEW l \in Locations, SaveLot(e, l)
        PROVE  LotsAccounted
    <2>1. PICK t \in Lots, row \in LotRow :
             /\ t = edit[e].lot /\ row # None
             /\ row.remaining = edit[e].row.remaining
             /\ lot' = [lot EXCEPT ![t] = row]
      BY <1>2, SavedRow
    <2>2. /\ movement' = movement
          /\ edit[e] # None /\ edit'[e] = None
      BY <1>2 DEF SaveLot, EndEdit, TypeOK
    <2>3. /\ LeftIn(t)' = edit[e].row.remaining
          /\ \A n \in Lots \ {t} : LeftIn(n)' = LeftIn(n)
      BY <2>1 DEF LeftIn, TypeOK
    <2>4. WrittenBack(t)
      BY <2>1, <2>2, <2>3 DEF WrittenBack
    <2>5. QED
      BY <2>2, <2>3, <2>4 DEF LotsAccounted
  <1>3. QED
    BY <1>1, <1>2 DEF EditLots, ReadLot, AbandonEdit

\* A consumption, in whole or in part, takes from the lot of its reservation.
LEMMA ConsumptionAccounts ==
    ASSUME TypeOK, NEW r \in Reservations, Open(r), NEW q \in Nat,
           NEW k \in MovementKeys,
           ApplyLotDelta(reservation[r].lot, -q, None),
           Record(k, [type |-> "production_consumption", quantity |-> q,
                      source |-> reservation[r].location, destination |-> None,
                      lot |-> reservation[r].lot, reservation |-> r]),
           IsLot(reservation[r].lot)
    PROVE  LotsAccounted
  <1> DEFINE m == [type |-> "production_consumption", quantity |-> q,
                   source |-> reservation[r].location, destination |-> None,
                   lot |-> reservation[r].lot, reservation |-> r]
  <1>1. /\ m \in Movement /\ Record(k, m) /\ m.type \in Outbound
        /\ m.lot = reservation[r].lot /\ m.quantity = q
    BY OpenProperties DEF Movement, MovementTypes, Outbound
  <1> HIDE DEF m
  <1>2. /\ reservation[r].lot \in Lots \union {None} /\ -q \in Int
        /\ lot \in [Lots -> LotRow \union {None}]
        /\ movement \in [MovementKeys -> Movement \union {None}]
    BY OpenProperties DEF TypeOK
  <1>3. \A n \in Lots : LeftIn(n)' = LeftIn(n) + (IF n = reservation[r].lot THEN -q ELSE 0)
    BY <1>2, LotDeltaEffect
  <1>4. QED
    BY <1>1, <1>2, <1>3, LotEffectProperties, RecordedLots

\* Every step of every service accounts for what it does to the lots.
LEMMA StepAccountsForLots ==
    ASSUME IInv, ProductionNext
    PROVE  LotsAccounted
  <1> USE DEF IInv, ReservedLotsExist
  <1>1. CASE ApplyRequestedMovement
    <2>1. PICK k \in Keys, type \in RequestTypes, q \in Quantities,
               t \in Lots \union {None} :
             \E ends \in EndsOf(type) :
                ApplyStockMovement(<<"request", k>>, type, q,
                                   ends.source, ends.destination, t)
      BY <1>1 DEF ApplyRequestedMovement
    <2>2. <<"request", k>> \in MovementKeys /\ type \in MovementTypes
      BY RequestTypesAreTypes DEF MovementKeys
    <2>3. QED
      BY <2>1, <2>2, QuantityIsPositive, ApplyAccountsForLots
  <1>2. CASE CreateLots \/ EditLots
    BY <1>2, QuantityIsPositive, CreateLotAccounts, EditLotsAccounts
       DEF CreateLots
  <1>3. CASE Reserve
    BY <1>3, LotsUntouched DEF Reserve, ReserveStock
  <1>4. ASSUME NEW r \in Reservations, ConsumeReservation(r)
        PROVE  LotsAccounted
    <2>1. /\ Open(r) /\ reservation[r] # None
          /\ reservation[r].quantity \in Nat
          /\ <<"reservation-consume", r>> \in MovementKeys
      BY <1>4, OpenProperties DEF ConsumeReservation, MovementKeys, Open
    <2>2. QED
      BY <1>4, <2>1, ConsumptionAccounts DEF ConsumeReservation
  <1>5. CASE SettleReservation
    BY <1>4, <1>5, LotsUntouched DEF SettleReservation,
       StartReservationProduction, ReleaseReservation
  <1>6. CASE ConsumePart
    <2>1. PICK r \in Reservations, k \in Keys, q \in Quantities :
             ConsumeReservedQuantity(r, k, q)
      BY <1>6 DEF ConsumePart
    <2>2. /\ Open(r) /\ reservation[r] # None /\ q \in Nat
          /\ <<"production-reservation", k>> \in MovementKeys
      BY <2>1, QuantityIsPositive DEF ConsumeReservedQuantity, MovementKeys, Open
    <2>3. QED
      BY <2>1, <2>2, ConsumptionAccounts DEF ConsumeReservedQuantity
  <1>7. QED
    BY <1>1, <1>2, <1>3, <1>5, <1>6 DEF ProductionNext, Next

-----------------------------------------------------------------------------
(* The ledger as a whole: what is there is the sum of what was recorded.    *)
(* The ledger is finite because a step records at most one movement.        *)

\* A function with one more or one other value sums to that much more.
LEMMA RecordedSum ==
    ASSUME IsFiniteSet(Recorded), NEW k \in MovementKeys, Fills(k),
           NEW f, DOMAIN f = Recorded, NEW g, DOMAIN g = Recorded',
           \A j \in Recorded : f[j] \in Int /\ g[j] = f[j], g[k] \in Int
    PROVE  SumFunction(f) \in Int /\ SumFunction(g) = SumFunction(f) + g[k]
  <1>1. /\ k \notin Recorded /\ k \in Recorded'
        /\ Recorded \ {k} = Recorded' \ {k}
    BY DEF Recorded, Fills
  <1>2. /\ SumFunction(f) = SumFunctionOnSet(f, Recorded)
        /\ SumFunction(g) = SumFunctionOnSet(g, Recorded')
    BY DEF SumFunction
  <1>3. /\ \A j \in Recorded' : g[j] \in Int
        /\ \A j \in Recorded \ {k} : g[j] = f[j]
    BY <1>1
  <1>4. /\ SumFunctionOnSet(f, Recorded) \in Int
        /\ SumFunctionOnSet(g, Recorded')
             = SumFunctionOnSet(f, Recorded) - Share(f, Recorded, k)
                 + Share(g, Recorded', k)
    BY <1>1, <1>3, SumChanges
  <1>5. Share(f, Recorded, k) = 0 /\ Share(g, Recorded', k) = g[k]
    BY <1>1 DEF Share
  <1>6. QED
    BY <1>2, <1>4, <1>5

\* Filling a key keeps the ledger finite.
LEMMA FillingIsFinite ==
    ASSUME IsFiniteSet(Recorded), NEW k \in MovementKeys, Fills(k)
    PROVE  IsFiniteSet(Recorded')
  <1>1. Recorded' = Recorded \union {k}
    BY DEF Recorded, Fills
  <1>2. QED
    BY <1>1, FS_AddElement

Conserved(l) == Total(l) = SumFunction([k \in Recorded |-> Effect(movement[k], l)])

\* A step that records the change of a total keeps it conserved.
LEMMA StepConserves ==
    ASSUME TypeOK, TypeOK', ChangeIsRecorded, IsFiniteSet(Recorded),
           NEW l \in Locations, Conserved(l)
    PROVE  Conserved(l)' /\ IsFiniteSet(Recorded')
  <1>1. CASE movement' = movement /\ Total(l)' = Total(l)
    <2>1. Recorded' = Recorded
      BY <1>1 DEF Recorded
    <2>2. [k \in Recorded' |-> Effect(movement'[k], l)]
            = [k \in Recorded |-> Effect(movement[k], l)]
      BY <1>1, <2>1
    <2>3. QED
      BY <1>1, <2>1, <2>2 DEF Conserved
  <1>2. ASSUME NEW k \in MovementKeys, Fills(k),
               Total(l)' = Total(l) + Effect(movement'[k], l)
        PROVE  Conserved(l)' /\ IsFiniteSet(Recorded')
    <2> DEFINE f == [j \in Recorded |-> Effect(movement[j], l)]
               g == [j \in Recorded' |-> Effect(movement'[j], l)]
    <2>1. \A m \in Movement : Effect(m, l) \in Int
      BY DEF Effect, Movement
    <2>2. /\ \A j \in Recorded : movement[j] \in Movement /\ j \in Recorded'
          /\ \A j \in Recorded : movement'[j] = movement[j]
          /\ k \in Recorded' /\ movement'[k] \in Movement
      BY <1>2 DEF Fills, Recorded, TypeOK
    <2>3. /\ \A j \in Recorded : f[j] \in Int /\ g[j] = f[j]
          /\ g[k] = Effect(movement'[k], l) /\ g[k] \in Int
      BY <2>1, <2>2
    <2>4. DOMAIN f = Recorded /\ DOMAIN g = Recorded'
      OBVIOUS
    <2>5. Total(l) = SumFunction(f)
      BY DEF Conserved
    <2> HIDE DEF f, g
    <2>6. Total(l)' = SumFunction(g)
      BY <1>2, <2>3, <2>4, <2>5, RecordedSum
    <2>7. QED
      BY <1>2, <2>6, FillingIsFinite DEF Conserved, g
  <1>3. QED
    BY <1>1, <1>2 DEF ChangeIsRecorded, Fills

\* A movement that is recorded adds its effect to the net of its lot.
LEMMA LotNetGrows ==
    ASSUME TypeOK, TypeOK', IsFiniteSet(Recorded), NEW k \in MovementKeys,
           Fills(k), NEW t \in Lots
    PROVE  /\ LotNet(t) \in Int
           /\ LotNet(t)' = LotNet(t) + LotEffect(movement'[k], t)
  <1> DEFINE f == [j \in Recorded |-> LotEffect(movement[j], t)]
             g == [j \in Recorded' |-> LotEffect(movement'[j], t)]
  <1>1. /\ \A j \in Recorded : movement[j] \in Movement /\ j \in Recorded'
        /\ \A j \in Recorded : movement'[j] = movement[j]
        /\ k \in Recorded' /\ movement'[k] \in Movement
    BY DEF Fills, Recorded, TypeOK
  <1>2. /\ \A j \in Recorded : f[j] \in Int /\ g[j] = f[j]
        /\ g[k] = LotEffect(movement'[k], t) /\ g[k] \in Int
    BY <1>1, LotEffectProperties
  <1>3. DOMAIN f = Recorded /\ DOMAIN g = Recorded'
    OBVIOUS
  <1>4. LotNet(t) = SumFunction(f) /\ LotNet(t)' = SumFunction(g)
    BY DEF LotNet
  <1> HIDE DEF f, g
  <1>5. QED
    BY <1>2, <1>3, <1>4, RecordedSum

\* The net of a lot is an integer.
LEMMA LotNetIsInt ==
    ASSUME TypeOK, IsFiniteSet(Recorded), NEW t \in Lots
    PROVE  LotNet(t) \in Int
  <1> DEFINE f == [j \in Recorded |-> LotEffect(movement[j], t)]
  <1>1. \A j \in Recorded : f[j] \in Int
    BY LotEffectProperties DEF Recorded, TypeOK
  <1>2. LotNet(t) = SumFunctionOnSet(f, Recorded)
    BY DEF LotNet, SumFunction
  <1> HIDE DEF f
  <1>3. QED
    BY <1>1, <1>2, SumType

\* A step that accounts for the lots moves them with the ledger.
LEMMA StepFollowsLedger ==
    ASSUME TypeOK, TypeOK', LotsAccounted, IsFiniteSet(Recorded), NEW t \in Lots
    PROVE  \/ LeftIn(t)' - LeftIn(t) = LotNet(t)' - LotNet(t)
           \/ WrittenBack(t)
  <1>1. LeftIn(t) \in Int /\ LotNet(t) \in Int
    BY LotNetIsInt DEF LeftIn, TypeOK, LotRow
  <1>2. CASE movement' = movement /\ LeftIn(t)' = LeftIn(t)
    <2>1. LotNet(t)' = LotNet(t)
      BY <1>2 DEF LotNet, Recorded
    <2>2. QED
      BY <1>1, <1>2, <2>1
  <1>3. ASSUME NEW k \in MovementKeys, Fills(k),
               LeftIn(t)' = LeftIn(t) + LotEffect(movement'[k], t)
        PROVE  LeftIn(t)' - LeftIn(t) = LotNet(t)' - LotNet(t)
    <2>1. LotEffect(movement'[k], t) \in Int
      BY <1>3, LotEffectProperties DEF Fills, TypeOK
    <2>2. QED
      BY <1>1, <1>3, <2>1, LotNetGrows
  <1>4. QED
    BY <1>2, <1>3 DEF LotsAccounted

\* The strengthened invariant: the ledger is finite, and every location is the
\* sum of what was recorded for it.
Accounted ==
    /\ IInv
    /\ IsFiniteSet(Recorded)
    /\ \A l \in Locations : Conserved(l)

\* Nothing is recorded at first, and there is nothing.
LEMMA InitAccounted == Init => Accounted
  <1> SUFFICES ASSUME Init PROVE Accounted
    OBVIOUS
  <1>1. Recorded = {}
    BY DEF Init, Recorded
  <1>2. ASSUME NEW f, DOMAIN f = {}
        PROVE  SumFunction(f) = 0
    BY <1>2, SumOfNone DEF SumFunction
  <1>3. \A l \in Locations : Total(l) = 0
    BY DEF Init, Total, Buckets
  <1>4. \A l \in Locations : Conserved(l)
    BY <1>1, <1>2, <1>3 DEF Conserved
  <1>5. QED
    BY <1>1, <1>4, InitInvariant, FS_EmptySet DEF Accounted

\* Every step of every service keeps it.
LEMMA StepAccounted == Accounted /\ [ProductionNext]_vars => Accounted'
  <1> SUFFICES ASSUME Accounted, [ProductionNext]_vars
               PROVE  Accounted'
    OBVIOUS
  <1>1. IInv' /\ TypeOK' /\ IInv /\ TypeOK
    BY StepInvariant DEF Accounted, IInv
  <1>2. CASE ProductionNext
    <2>1. ChangeIsRecorded
      BY <1>1, <1>2, StepKeeps DEF Kept
    <2>2. \/ Recorded' = Recorded
          \/ IsFiniteSet(Recorded')
      BY <2>1, FillingIsFinite DEF ChangeIsRecorded, Fills, Accounted, Recorded
    <2>3. ASSUME NEW l \in Locations
          PROVE  Conserved(l)'
      BY <1>1, <2>1, StepConserves DEF Accounted
    <2>4. QED
      BY <1>1, <2>2, <2>3 DEF Accounted
  <1>3. CASE UNCHANGED vars
    <2>1. UNCHANGED <<position, movement>> /\ Recorded' = Recorded
      BY <1>3 DEF vars, Recorded
    <2>2. ASSUME NEW l \in Locations
          PROVE  Conserved(l)'
      BY <2>1 DEF Accounted, Conserved, Total
    <2>3. QED
      BY <1>1, <2>1, <2>2 DEF Accounted
  <1>4. QED
    BY <1>2, <1>3

\* The strengthened invariant holds of every service.
LEMMA AccountedInvariant == ProductionSpec => []Accounted
  BY InitAccounted, StepAccounted, PTL DEF ProductionSpec

\* Stock is conserved: whatever services are called, what is physically at a
\* location is the net of all the movements ever recorded for it.
THEOREM Conservation == ProductionSpec => []StockConserved
  <1>1. Accounted => StockConserved
    BY DEF Accounted, Conserved, StockConserved
  <1>2. QED
    BY <1>1, AccountedInvariant, PTL

\* Every service, production included, changes what is left in each lot by what
\* it adds to the net of the movements of that lot, and nothing else changes it,
\* but the save of an edit, which brings back the quantity that the edit read.
THEOREM LotsFollowTheLedger == ProductionSpec => LotsMoveWithTheLedger
  <1> DEFINE Moved == \A t \in Lots :
                 \/ LeftIn(t)' - LeftIn(t) = LotNet(t)' - LotNet(t)
                 \/ WrittenBack(t)
  <1>1. ASSUME Accounted, Accounted', [ProductionNext]_vars
        PROVE  [Moved]_vars
    <2>1. IInv /\ TypeOK /\ TypeOK' /\ IsFiniteSet(Recorded)
      BY <1>1 DEF Accounted, IInv
    <2>2. CASE ProductionNext
      BY <2>1, <2>2, StepAccountsForLots, StepFollowsLedger
    <2>3. QED
      BY <1>1, <2>2
  <1>2. QED
    BY <1>1, AccountedInvariant, PTL DEF ProductionSpec, LotsMoveWithTheLedger

-----------------------------------------------------------------------------
(* One consumption movement per consumed reservation, when reservations are *)
(* consumed whole (Spec).                                                   *)

ConsumptionOf(r) == <<"reservation-consume", r>>

Consumed(r) == reservation[r] # None /\ reservation[r].status = "consumed"

Agrees(r) ==
    /\ Consumed(r) <=> movement[ConsumptionOf(r)] # None
    /\ Consumed(r) =>
          /\ movement[ConsumptionOf(r)].type = "production_consumption"
          /\ movement[ConsumptionOf(r)].quantity = reservation[r].quantity
          /\ movement[ConsumptionOf(r)].source = reservation[r].location
          /\ movement[ConsumptionOf(r)].lot = reservation[r].lot

\* A step that leaves a reservation's consumption movement alone, and neither
\* consumes it nor edits it if it is consumed.
LEMMA AgreementKept ==
    ASSUME NEW r \in Reservations, Agrees(r),
           movement'[ConsumptionOf(r)] = movement[ConsumptionOf(r)],
           Consumed(r)' <=> Consumed(r),
           Consumed(r) => reservation'[r] = reservation[r]
    PROVE  Agrees(r)'
  BY DEF Agrees, ConsumptionOf, Consumed

\* Every step of the services of Spec keeps the agreement.
LEMMA StepAgrees ==
    ASSUME TypeOK, Next, NEW r \in Reservations, Agrees(r)
    PROVE  Agrees(r)'
  <1>1. ConsumptionOf(r) \in MovementKeys
    BY DEF ConsumptionOf, MovementKeys
  <1>2. ASSUME NEW k \in MovementKeys, k # ConsumptionOf(r),
               NEW m, Record(k, m), reservation' = reservation
        PROVE  Agrees(r)'
    <2>1. movement'[ConsumptionOf(r)] = movement[ConsumptionOf(r)]
      BY <1>1, <1>2 DEF Record, TypeOK
    <2>2. QED
      BY <1>2, <2>1, AgreementKept DEF Consumed
  <1>3. CASE ApplyRequestedMovement
    <2>1. PICK k \in Keys : \E m : /\ Record(<<"request", k>>, m)
                                   /\ reservation' = reservation
      BY <1>3 DEF ApplyRequestedMovement, ApplyStockMovement
    <2>2. /\ <<"request", k>> \in MovementKeys
          /\ <<"request", k>> # ConsumptionOf(r)
      BY DEF MovementKeys, ConsumptionOf
    <2>3. QED
      BY <1>2, <2>1, <2>2
  <1>4. CASE CreateLots \/ EditLots
    <2>1. CASE EditLots
      BY <2>1, AgreementKept
         DEF EditLots, ReadLot, SaveLot, AbandonEdit, Consumed
    <2>2. ASSUME NEW t \in Lots, NEW l \in Locations, NEW q \in Quantities,
                 CreateLot(t, l, q)
          PROVE  Agrees(r)'
      <3>1. /\ <<"lot-open", t>> \in MovementKeys
            /\ <<"lot-open", t>> # ConsumptionOf(r)
        BY DEF MovementKeys, ConsumptionOf
      <3>2. QED
        BY <1>2, <2>2, <3>1 DEF CreateLot
    <2>3. QED
      BY <1>4, <2>1, <2>2 DEF CreateLots
  <1>5. CASE Reserve
    <2>1. PICK n \in Reservations, l \in Locations, q \in Quantities,
               t \in Lots \union {None} : ReserveStock(n, l, q, t)
      BY <1>5 DEF Reserve
    <2>2. /\ movement' = movement
          /\ reservation[n] = None
          /\ reservation'[n].status = "active"
          /\ n # r => reservation'[r] = reservation[r]
      BY <2>1 DEF ReserveStock, TypeOK
    <2>3. QED
      BY <2>2, AgreementKept DEF Consumed
  <1>6. ASSUME NEW n \in Reservations,
               StartReservationProduction(n) \/ ReleaseReservation(n)
        PROVE  Agrees(r)'
    <2>1. /\ movement' = movement
          /\ Open(n)
          /\ \/ SetStatus(n, "in_production")
             \/ SetStatus(n, "released")
      BY <1>6 DEF StartReservationProduction, ReleaseReservation, Open
    <2>2. /\ n # r => reservation'[r] = reservation[r]
          /\ reservation'[n].status \in {"in_production", "released"}
      BY <2>1, OpenProperties DEF SetStatus, TypeOK, Reservation
    <2>3. QED
      BY <2>1, <2>2, AgreementKept DEF Consumed, Open
  <1>7. ASSUME NEW n \in Reservations, ConsumeReservation(n), n # r
        PROVE  Agrees(r)'
    <2>1. /\ ConsumptionOf(n) \in MovementKeys
          /\ ConsumptionOf(n) # ConsumptionOf(r)
          /\ reservation'[r] = reservation[r]
          /\ movement'[ConsumptionOf(r)] = movement[ConsumptionOf(r)]
      BY <1>1, <1>7 DEF MovementKeys, ConsumptionOf, ConsumeReservation,
                        SetStatus, Record, TypeOK
    <2>2. QED
      BY <2>1, AgreementKept DEF Consumed
  <1>8. CASE ConsumeReservation(r)
    <2> DEFINE m == [type |-> "production_consumption",
                     quantity |-> reservation[r].quantity,
                     source |-> reservation[r].location, destination |-> None,
                     lot |-> reservation[r].lot, reservation |-> r]
    <2>1. /\ reservation[r] \in Reservation
          /\ reservation' = [reservation EXCEPT ![r].status = "consumed"]
          /\ Record(ConsumptionOf(r), m)
          /\ m \in Movement
      BY <1>8, OpenProperties DEF ConsumeReservation, SetStatus, ConsumptionOf,
                                  Movement, MovementTypes, Outbound
    <2>2. /\ reservation'[r] \in Reservation
          /\ reservation'[r].status = "consumed"
          /\ reservation'[r].quantity = reservation[r].quantity
          /\ reservation'[r].location = reservation[r].location
          /\ reservation'[r].lot = reservation[r].lot
      BY <2>1 DEF TypeOK, Reservation, Statuses
    <2>3. movement'[ConsumptionOf(r)] = m /\ m # None
      BY <1>1, <2>1, RecordProperties DEF TypeOK
    <2>4. Consumed(r)'
      BY <2>2, NoneIsNoRow DEF Consumed
    <2>5. QED
      BY <2>2, <2>3, <2>4 DEF Agrees, ConsumptionOf
  <1>9. QED
    BY <1>3, <1>4, <1>5, <1>6, <1>7, <1>8 DEF Next, SettleReservation

\* A reservation consumed whole has exactly one consumption movement, for what
\* it reserved and from where: two calls never consume it twice.
THEOREM ConsumedOnce == Spec => []ConsumptionIsRecorded
  <1> DEFINE AllAgree == \A r \in Reservations : Agrees(r)
  <1>1. Init => IInv /\ AllAgree
    BY InitInvariant
       DEF Init, Agrees, Consumed, ConsumptionOf, MovementKeys
  <1>2. (IInv /\ AllAgree) /\ [Next]_vars => (IInv /\ AllAgree)'
    <2> SUFFICES ASSUME IInv, AllAgree, [Next]_vars
                 PROVE  IInv' /\ AllAgree'
      OBVIOUS
    <2>1. IInv'
      BY StepInvariant DEF ProductionNext
    <2>2. CASE Next
      BY <2>1, <2>2, StepAgrees DEF IInv
    <2>3. CASE UNCHANGED vars
      BY <2>1, <2>3 DEF vars, Agrees, Consumed, ConsumptionOf
    <2>4. QED
      BY <2>1, <2>2, <2>3
  <1>3. AllAgree => ConsumptionIsRecorded
    BY DEF Agrees, Consumed, ConsumptionOf, ConsumptionIsRecorded
  <1>4. QED
    BY <1>1, <1>2, <1>3, PTL DEF Spec

-----------------------------------------------------------------------------
(* Reservations, what was consumed of them, and the buckets that hold them. *)

Holding == {"active", "in_production"}

\* What a movement consumes of a reservation.
Consumes(m, r) ==
    IF m.type = "production_consumption" /\ m.reservation = r
    THEN m.quantity ELSE 0

\* A sum over a finite ledger is a natural number.
LEMMA ConsumedIsNatural ==
    ASSUME TypeOK, IsFiniteSet(Recorded), NEW r \in Reservations
    PROVE  /\ IsFiniteSet(ConsumptionsOf(r))
           /\ ConsumedQuantity(r) \in Nat
  <1> DEFINE f == [k \in ConsumptionsOf(r) |-> movement[k].quantity]
  <1>1. IsFiniteSet(ConsumptionsOf(r))
    BY FS_Subset DEF ConsumptionsOf
  <1>2. \A k \in ConsumptionsOf(r) : f[k] \in Nat
    BY DEF ConsumptionsOf, Recorded, TypeOK, Movement
  <1>3. ConsumedQuantity(r) = SumFunctionOnSet(f, ConsumptionsOf(r))
    BY DEF ConsumedQuantity, SumFunction
  <1> HIDE DEF f
  <1>4. QED
    BY <1>1, <1>2, <1>3, SumIsNatural

\* A movement that is recorded adds to what it consumes and to nothing else.
LEMMA RecordConsumes ==
    ASSUME TypeOK, IsFiniteSet(Recorded), NEW k \in MovementKeys,
           NEW m \in Movement, Record(k, m), NEW r \in Reservations
    PROVE  /\ ConsumedQuantity(r) \in Nat
           /\ ConsumedQuantity(r)' = ConsumedQuantity(r) + Consumes(m, r)
  <1> DEFINE S == ConsumptionsOf(r)
             T == ConsumptionsOf(r)'
             f == [j \in S |-> movement[j].quantity]
             g == [j \in T |-> movement'[j].quantity]
  <1>1. /\ movement[k] = None /\ movement'[k] = m /\ m # None
        /\ \A j \in MovementKeys \ {k} : movement'[j] = movement[j]
        /\ movement' \in [MovementKeys -> Movement \union {None}]
    BY RecordProperties DEF TypeOK
  <1>2. /\ k \notin S
        /\ k \in T <=> m.type = "production_consumption" /\ m.reservation = r
        /\ S \ {k} = T \ {k}
        /\ S \subseteq MovementKeys /\ T \subseteq MovementKeys
    BY <1>1 DEF ConsumptionsOf, Recorded
  <1>3. IsFiniteSet(S) /\ ConsumedQuantity(r) \in Nat
    BY ConsumedIsNatural
  <1>4. /\ \A j \in S : movement[j] \in Movement
        /\ \A j \in T : movement'[j] \in Movement
    BY <1>1 DEF ConsumptionsOf, Recorded, TypeOK
  <1>5. /\ \A j \in S : f[j] \in Int
        /\ \A j \in T : g[j] \in Int
        /\ \A j \in S \ {k} : g[j] = f[j]
        /\ k \in T => g[k] = m.quantity
    BY <1>1, <1>2, <1>4 DEF Movement
  <1>6. /\ ConsumedQuantity(r) = SumFunctionOnSet(f, S)
        /\ ConsumedQuantity(r)' = SumFunctionOnSet(g, T)
    BY DEF ConsumedQuantity, SumFunction
  <1> HIDE DEF S, T, f, g
  <1>7. SumFunctionOnSet(g, T)
           = SumFunctionOnSet(f, S) - Share(f, S, k) + Share(g, T, k)
    BY <1>2, <1>3, <1>5, SumChanges
  <1>8. Share(f, S, k) = 0 /\ Share(g, T, k) = Consumes(m, r)
    BY <1>2, <1>5 DEF Share, Consumes
  <1>9. Consumes(m, r) \in Nat
    BY DEF Consumes, Movement
  <1>10. QED
    BY <1>3, <1>6, <1>7, <1>8, <1>9

\* Nothing is consumed while nothing is recorded.
LEMMA ConsumedStays ==
    ASSUME movement' = movement, NEW r
    PROVE  /\ ConsumedQuantity(r)' = ConsumedQuantity(r)
           /\ ConsumedWhole(r)' = ConsumedWhole(r)
  BY DEF ConsumedQuantity, ConsumptionsOf, Recorded, ConsumedWhole

\* Only a movement under the key of its whole consumption consumes it whole.
LEMMA RecordWholes ==
    ASSUME TypeOK, NEW k \in MovementKeys, NEW m \in Movement, Record(k, m),
           NEW r \in Reservations
    PROVE  ConsumedWhole(r)' <=> ConsumedWhole(r) \/ k = ConsumptionOf(r)
  <1>1. ConsumptionOf(r) \in MovementKeys
    BY DEF ConsumptionOf, MovementKeys
  <1>2. /\ movement'[k] = m /\ m # None
        /\ \A j \in MovementKeys \ {k} : movement'[j] = movement[j]
    BY RecordProperties DEF TypeOK
  <1>3. QED
    BY <1>1, <1>2 DEF ConsumedWhole, ConsumptionOf

\* What a reservation asks for in a bucket, what is left of that, and what it
\* has in both buckets of its location.
Asked(r, l, status) ==
    IF r \in HeldAt(l, status) THEN reservation[r].quantity ELSE 0

Part(r, l, status) ==
    IF r \in HeldAt(l, status)
    THEN reservation[r].quantity - ConsumedQuantity(r) ELSE 0

OwedAt(r, l) == IF r \in ReservedAt(l) THEN Owed(r) ELSE 0

\* What was consumed of a reservation: parts that fit it, and then, at most
\* once, the whole of it.
Measured(r) ==
    IF reservation[r] = None
    THEN ConsumedQuantity(r) = 0 /\ ~ConsumedWhole(r)
    ELSE LET q == reservation[r].quantity
             c == ConsumedQuantity(r)
             consumed == reservation[r].status = "consumed"
         IN  /\ q > 0
             /\ ~ConsumedWhole(r) => c <= q /\ (consumed <=> c = q)
             /\ ConsumedWhole(r) => q <= c /\ c < q + q /\ consumed

\* Only this reservation is changed, or consumed.
OnlyTouches(r) ==
    \A n \in Reservations \ {r} :
       /\ reservation'[n] = reservation[n]
       /\ ConsumedQuantity(n)' = ConsumedQuantity(n)
       /\ ConsumedWhole(n)' = ConsumedWhole(n)

\* The step changes each bucket by what the reservation asked and asks for.
MovesAsked(r) ==
    \A l \in Locations, status \in Holding :
       position'[l][BucketOf(status)] =
          position[l][BucketOf(status)] - Asked(r, l, status)
             + Asked(r, l, status)'

\* The step changes one reservation, the stock held at each location by what it
\* owed and owes there, and each bucket by what was and is left of it.
Settles(r) ==
    /\ OnlyTouches(r)
    /\ Measured(r)' /\ ConsumedQuantity(r)' \in Nat
    /\ \A l \in Locations : Held(l)' = Held(l) - OwedAt(r, l) + OwedAt(r, l)'
    /\ \A l \in Locations, status \in Holding :
          \/ position'[l][BucketOf(status)] =
                position[l][BucketOf(status)] - Part(r, l, status)
                   + Part(r, l, status)'
          \/ r \in ReservedAt(l) /\ SettlesUsed(r)

\* The step changes no reservation and no bucket of reserved stock.
Idles ==
    /\ UNCHANGED reservation
    /\ \A r \in Reservations : /\ ConsumedQuantity(r)' = ConsumedQuantity(r)
                               /\ ConsumedWhole(r)' = ConsumedWhole(r)
    /\ \A l \in Locations, status \in Holding :
          position'[l][BucketOf(status)] = position[l][BucketOf(status)]

\* Only finitely many reservations exist: each step makes at most one.
Reserved == {r \in Reservations : reservation[r] # None}

\* Consumption is measured.
Measuring ==
    /\ IsFiniteSet(Recorded)
    /\ IsFiniteSet(Reserved)
    /\ \A r \in Reservations : Measured(r)

\* The inductive invariant: it is, and what is held is owed.
Backing == Measuring /\ HeldIsOwed

\* What is held at a location, by its two buckets.
LEMMA HeldProperties ==
    ASSUME TypeOK, NEW l \in Locations
    PROVE  /\ Held(l) = position[l][BucketOf("active")]
                          + position[l][BucketOf("in_production")]
           /\ Held(l)' = position'[l][BucketOf("active")]
                           + position'[l][BucketOf("in_production")]
           /\ \A status \in Holding : position[l][BucketOf(status)] \in Nat
  BY DEF Held, BucketOf, TypeOK, Buckets, Holding

\* What was consumed of each reservation is a number, before and after.
LEMMA ConsumedNumbers ==
    ASSUME TypeOK, Measuring, NEW r \in Reservations, OnlyTouches(r),
           ConsumedQuantity(r)' \in Nat
    PROVE  \A n \in Reservations : /\ ConsumedQuantity(n) \in Nat
                                   /\ ConsumedQuantity(n)' \in Nat
  <1>1. \A n \in Reservations : ConsumedQuantity(n) \in Nat
    BY ConsumedIsNatural DEF Measuring
  <1>2. QED
    BY <1>1 DEF OnlyTouches

\* What a location owes changes by what the one reservation owes there.
LEMMA OwedMoves ==
    ASSUME TypeOK, TypeOK', Measuring, NEW r \in Reservations, OnlyTouches(r),
           ConsumedQuantity(r)' \in Nat, NEW l \in Locations
    PROVE  /\ SumFunction([n \in ReservedAt(l) |-> Owed(n)]) \in Int
           /\ OwedAt(r, l) \in Int /\ OwedAt(r, l)' \in Int
           /\ SumFunction([n \in ReservedAt(l) |-> Owed(n)])'
                = SumFunction([n \in ReservedAt(l) |-> Owed(n)])
                    - OwedAt(r, l) + OwedAt(r, l)'
  <1> DEFINE S == ReservedAt(l)
             T == ReservedAt(l)'
             f == [n \in S |-> Owed(n)]
             g == [n \in T |-> Owed(n)']
  <1>1. IsFiniteSet(S)
    <2>1. S \subseteq Reserved
      BY DEF ReservedAt, Reserved
    <2>2. QED
      BY <2>1, FS_Subset DEF Measuring
  <1>2. /\ S \ {r} = T \ {r}
        /\ \A n \in S : reservation[n].quantity \in Nat
        /\ \A n \in T : reservation'[n].quantity \in Nat
        /\ S \subseteq Reservations /\ T \subseteq Reservations
    BY DEF ReservedAt, OnlyTouches, TypeOK, Reservation
  <1>3. /\ \A n \in S : f[n] \in Int
        /\ \A n \in T : g[n] \in Int
        /\ \A n \in S \ {r} : g[n] = f[n]
    BY <1>2, ConsumedNumbers DEF Owed, OnlyTouches
  <1>4. OwedAt(r, l) = Share(f, S, r) /\ OwedAt(r, l)' = Share(g, T, r)
    BY DEF OwedAt, Share
  <1>5. /\ SumFunction([n \in ReservedAt(l) |-> Owed(n)]) = SumFunctionOnSet(f, S)
        /\ SumFunction([n \in ReservedAt(l) |-> Owed(n)])' = SumFunctionOnSet(g, T)
    BY DEF SumFunction
  <1> HIDE DEF S, T, f, g
  <1>6. QED
    BY <1>1, <1>2, <1>3, <1>4, <1>5, SumChanges

\* What is left in a bucket changes by what is left there of the one.
LEMMA OutstandingMoves ==
    ASSUME TypeOK, TypeOK', Measuring, NEW r \in Reservations, OnlyTouches(r),
           ConsumedQuantity(r)' \in Nat, NEW l \in Locations, NEW status \in Holding
    PROVE  /\ Outstanding(l, status) \in Int /\ Outstanding(l, status)' \in Int
           /\ Part(r, l, status) \in Int /\ Part(r, l, status)' \in Int
           /\ Outstanding(l, status)' = Outstanding(l, status)
                 - Part(r, l, status) + Part(r, l, status)'
  <1> DEFINE S == HeldAt(l, status)
             T == HeldAt(l, status)'
             f == [n \in S |-> reservation[n].quantity - ConsumedQuantity(n)]
             g == [n \in T |-> reservation'[n].quantity - ConsumedQuantity(n)']
  <1>1. IsFiniteSet(S)
    <2>1. S \subseteq Reserved
      BY DEF HeldAt, Reserved
    <2>2. QED
      BY <2>1, FS_Subset DEF Measuring
  <1>2. /\ S \ {r} = T \ {r}
        /\ \A n \in S : reservation[n].quantity \in Nat
        /\ \A n \in T : reservation'[n].quantity \in Nat
        /\ S \subseteq Reservations /\ T \subseteq Reservations
    BY DEF HeldAt, OnlyTouches, TypeOK, Reservation
  <1>3. /\ \A n \in S : f[n] \in Int
        /\ \A n \in T : g[n] \in Int
        /\ \A n \in S \ {r} : g[n] = f[n]
    BY <1>2, ConsumedNumbers DEF OnlyTouches
  <1>4. Part(r, l, status) = Share(f, S, r) /\ Part(r, l, status)' = Share(g, T, r)
    BY DEF Part, Share
  <1>5. /\ Outstanding(l, status) = SumFunctionOnSet(f, S)
        /\ Outstanding(l, status)' = SumFunctionOnSet(g, T)
    BY DEF Outstanding, SumFunction
  <1> HIDE DEF S, T, f, g
  <1>6. QED
    BY <1>1, <1>2, <1>3, <1>4, <1>5, SumChanges

\* A step that idles keeps Backing, and what is left in each bucket.
LEMMA IdlingBacks ==
    ASSUME Idles, IsFiniteSet(Recorded')
    PROVE  /\ Measuring => Measuring'
           /\ Backing => Backing'
           /\ \A l, status : Outstanding(l, status)' = Outstanding(l, status)
           /\ \A l, status : HeldAt(l, status)' = HeldAt(l, status)
  <1>1. Measuring => Measuring'
    <2>1. Reserved' = Reserved
      BY DEF Idles, Reserved
    <2>2. ASSUME NEW r \in Reservations, Measured(r)
          PROVE  Measured(r)'
      BY <2>2 DEF Idles, Measured
    <2>3. QED
      BY <2>1, <2>2 DEF Measuring
  <1>2. HeldIsOwed => HeldIsOwed'
    <2> SUFFICES ASSUME HeldIsOwed, NEW l \in Locations
                 PROVE  Held(l)' = SumFunction([r \in ReservedAt(l)' |-> Owed(r)'])
      BY DEF HeldIsOwed
    <2>1. ReservedAt(l)' = ReservedAt(l)
      BY DEF Idles, ReservedAt
    <2>2. \A r \in ReservedAt(l) : Owed(r)' = Owed(r)
      BY DEF Idles, Owed, ReservedAt
    <2>3. Held(l)' = Held(l)
      BY DEF Idles, Held, BucketOf, Holding
    <2>4. [r \in ReservedAt(l)' |-> Owed(r)'] = [r \in ReservedAt(l) |-> Owed(r)]
      BY <2>1, <2>2
    <2>5. QED
      BY <2>3, <2>4 DEF HeldIsOwed
  <1>3. \A l, status : HeldAt(l, status)' = HeldAt(l, status)
    BY DEF Idles, HeldAt
  <1>4. ASSUME NEW l, NEW status
        PROVE  Outstanding(l, status)' = Outstanding(l, status)
    <2>1. [r \in HeldAt(l, status)' |-> reservation'[r].quantity - ConsumedQuantity(r)']
            = [r \in HeldAt(l, status) |-> reservation[r].quantity - ConsumedQuantity(r)]
      BY <1>3 DEF Idles, HeldAt
    <2>2. QED
      BY <2>1 DEF Outstanding
  <1>5. QED
    BY <1>1, <1>2, <1>3, <1>4 DEF Backing

\* A step that settles one reservation keeps what is measured,
LEMMA SettlingMeasures ==
    ASSUME Measuring, NEW r \in Reservations, Settles(r), IsFiniteSet(Recorded')
    PROVE  Measuring'
  <1>1. IsFiniteSet(Reserved')
    <2>1. IsFiniteSet(Reserved \union {r})
      BY FS_AddElement DEF Measuring
    <2>2. Reserved' \subseteq Reserved \union {r}
      BY DEF Reserved, Settles, OnlyTouches
    <2>3. QED
      BY <2>1, <2>2, FS_Subset
  <1>2. ASSUME NEW n \in Reservations
        PROVE  Measured(n)'
    BY DEF Settles, OnlyTouches, Measuring, Measured
  <1>3. QED
    BY <1>1, <1>2 DEF Measuring

\* and what is held.
LEMMA SettlingBacks ==
    ASSUME TypeOK, TypeOK', Backing, NEW r \in Reservations, Settles(r),
           IsFiniteSet(Recorded')
    PROVE  Backing'
  <1>1. Measuring'
    BY SettlingMeasures DEF Backing
  <1>2. ASSUME NEW l \in Locations
        PROVE  Held(l)' = SumFunction([n \in ReservedAt(l) |-> Owed(n)])'
    <2>1. /\ Held(l) = SumFunction([n \in ReservedAt(l) |-> Owed(n)])
          /\ Held(l)' = Held(l) - OwedAt(r, l) + OwedAt(r, l)'
      BY DEF Backing, HeldIsOwed, Settles
    <2>2. SumFunction([n \in ReservedAt(l) |-> Owed(n)])'
             = SumFunction([n \in ReservedAt(l) |-> Owed(n)])
                 - OwedAt(r, l) + OwedAt(r, l)'
      BY OwedMoves DEF Backing, Settles
    <2>3. QED
      BY <2>1, <2>2, Zenon
  <1>3. QED
    BY <1>1, <1>2 DEF Backing, HeldIsOwed

\* What a step does to each bucket and to what is left there.
BucketsFollow ==
    \A l \in Locations, status \in {"active", "in_production"} :
       \/ position'[l][BucketOf(status)] - position[l][BucketOf(status)]
            = Outstanding(l, status)' - Outstanding(l, status)
       \/ \E r \in ReservedAt(l) : SettlesUsed(r)

\* A step that settles one reservation changes the buckets by what is left.
LEMMA SettlingFollows ==
    ASSUME TypeOK, TypeOK', Measuring, NEW r \in Reservations, Settles(r)
    PROVE  BucketsFollow
  <1> SUFFICES ASSUME NEW l \in Locations, NEW status \in Holding,
                      ~(r \in ReservedAt(l) /\ SettlesUsed(r))
               PROVE  position'[l][BucketOf(status)] - position[l][BucketOf(status)]
                         = Outstanding(l, status)' - Outstanding(l, status)
    BY DEF BucketsFollow, Holding
  <1>1. /\ Outstanding(l, status) \in Int /\ Outstanding(l, status)' \in Int
        /\ Part(r, l, status) \in Int /\ Part(r, l, status)' \in Int
        /\ Outstanding(l, status)' = Outstanding(l, status)
              - Part(r, l, status) + Part(r, l, status)'
    BY OutstandingMoves DEF Settles
  <1>2. position'[l][BucketOf(status)] =
           position[l][BucketOf(status)] - Part(r, l, status) + Part(r, l, status)'
    BY DEF Settles
  <1>3. position[l][BucketOf(status)] \in Int
    BY HeldProperties
  <1>4. QED
    BY <1>1, <1>2, <1>3

\* So does a step that idles.
LEMMA IdlingFollows ==
    ASSUME TypeOK, Measuring, Idles, IsFiniteSet(Recorded')
    PROVE  BucketsFollow
  <1> SUFFICES ASSUME NEW l \in Locations, NEW status \in Holding
               PROVE  position'[l][BucketOf(status)] - position[l][BucketOf(status)]
                         = Outstanding(l, status)' - Outstanding(l, status)
    BY DEF BucketsFollow, Holding
  <1>1. Outstanding(l, status)' = Outstanding(l, status)
    BY IdlingBacks
  <1>2. Outstanding(l, status) \in Int
    <2> DEFINE S == HeldAt(l, status)
               f == [n \in S |-> reservation[n].quantity - ConsumedQuantity(n)]
    <2>1. S \subseteq Reserved
      BY DEF HeldAt, Reserved
    <2>2. IsFiniteSet(S)
      BY <2>1, FS_Subset DEF Measuring
    <2>3. \A n \in S : f[n] \in Int
      BY ConsumedIsNatural DEF HeldAt, TypeOK, Reservation, Measuring
    <2>4. Outstanding(l, status) = SumFunctionOnSet(f, S)
      BY DEF Outstanding, SumFunction
    <2> HIDE DEF S, f
    <2>5. QED
      BY <2>2, <2>3, <2>4, SumType
  <1>3. position'[l][BucketOf(status)] = position[l][BucketOf(status)]
    BY DEF Idles
  <1>4. position[l][BucketOf(status)] \in Int
    BY HeldProperties
  <1>5. QED
    BY <1>1, <1>2, <1>3, <1>4

\* The two buckets, and what a row asks for, has left and is owed.
LEMMA PartProperties ==
    ASSUME NEW r \in Reservations, NEW l \in Locations, NEW status \in Holding
    PROVE  /\ BucketOf(status) \in {"reserved", "in_production"}
           /\ BucketOf(status) = "reserved" <=> status = "active"
           /\ Asked(r, l, status) =
                 IF /\ reservation[r] # None /\ reservation[r].location = l
                    /\ reservation[r].status = status
                 THEN reservation[r].quantity ELSE 0
           /\ Asked(r, l, status)' =
                 IF /\ reservation'[r] # None /\ reservation'[r].location = l
                    /\ reservation'[r].status = status
                 THEN reservation'[r].quantity ELSE 0
           /\ Part(r, l, status) =
                 IF /\ reservation[r] # None /\ reservation[r].location = l
                    /\ reservation[r].status = status
                 THEN reservation[r].quantity - ConsumedQuantity(r) ELSE 0
           /\ Part(r, l, status)' =
                 IF /\ reservation'[r] # None /\ reservation'[r].location = l
                    /\ reservation'[r].status = status
                 THEN reservation'[r].quantity - ConsumedQuantity(r)' ELSE 0
  BY DEF Holding, BucketOf, Asked, Part, HeldAt

LEMMA OwedProperties ==
    ASSUME NEW r \in Reservations, NEW l \in Locations
    PROVE  /\ OwedAt(r, l) =
                 IF reservation[r] # None /\ reservation[r].location = l
                 THEN (IF reservation[r].status = "released"
                       THEN 0 ELSE reservation[r].quantity) - ConsumedQuantity(r)
                 ELSE 0
           /\ OwedAt(r, l)' =
                 IF reservation'[r] # None /\ reservation'[r].location = l
                 THEN (IF reservation'[r].status = "released"
                       THEN 0 ELSE reservation'[r].quantity) - ConsumedQuantity(r)'
                 ELSE 0
  BY DEF OwedAt, ReservedAt, Owed

\* A movement of no reservation, that leaves the two buckets alone, idles.
LEMMA MovementIdles ==
    ASSUME TypeOK, IsFiniteSet(Recorded), NEW k \in MovementKeys,
           \A r \in Reservations : k # ConsumptionOf(r),
           NEW m \in Movement, Record(k, m), m.reservation = None,
           UNCHANGED reservation,
           \A l \in Locations, b \in {"reserved", "in_production"} :
              position'[l][b] = position[l][b]
    PROVE  Idles /\ IsFiniteSet(Recorded')
  <1>1. Fills(k)
    BY RecordProperties DEF Fills, TypeOK
  <1>2. \A r \in Reservations : ConsumedQuantity(r)' = ConsumedQuantity(r)
    <2>1. \A r \in Reservations : Consumes(m, r) = 0
      BY NoneIsNoRow DEF Consumes
    <2>2. QED
      BY <2>1, RecordConsumes
  <1>3. \A r \in Reservations : ConsumedWhole(r)' = ConsumedWhole(r)
    BY RecordWholes DEF ConsumedWhole
  <1>4. \A status \in Holding : BucketOf(status) \in {"reserved", "in_production"}
    BY DEF Holding, BucketOf
  <1>5. IsFiniteSet(Recorded')
    BY <1>1, FillingIsFinite
  <1>6. QED
    BY <1>2, <1>3, <1>4, <1>5 DEF Idles

\* apply_stock_movement names no reservation and moves free or damaged stock.
LEMMA ApplyIdles ==
    ASSUME TypeOK, IsFiniteSet(Recorded), NEW k \in MovementKeys,
           \A r \in Reservations : k # ConsumptionOf(r),
           NEW type \in MovementTypes, NEW q \in Nat, NEW ends \in EndsOf(type),
           NEW t \in Lots \union {None},
           ApplyStockMovement(k, type, q, ends.source, ends.destination, t)
    PROVE  Idles /\ IsFiniteSet(Recorded')
  <1> DEFINE m == [type |-> type, quantity |-> q, source |-> ends.source,
                   destination |-> ends.destination, lot |-> t,
                   reservation |-> None]
  <1>1. /\ type \in Inbound => ends.destination \in Locations
        /\ type \in MovementTypes \ Inbound => ends.source \in Locations
        /\ type = "transfer" => ends.destination \in Locations
        /\ ends.source \in Locations \union {None}
        /\ ends.destination \in Locations \union {None}
    BY DEF EndsOf, Inbound, MovementTypes
  <1>2. m \in Movement /\ Record(k, m) /\ m.reservation = None
    BY <1>1 DEF ApplyStockMovement, Movement
  <1> HIDE DEF m
  <1>3. \A l \in Locations, b \in {"reserved", "in_production"} :
           position'[l][b] = position[l][b]
    <2> SUFFICES ASSUME NEW l \in Locations, NEW b \in {"reserved", "in_production"}
                 PROVE  position'[l][b] = position[l][b]
      OBVIOUS
    <2>1. position \in [Locations -> [Buckets -> Nat]] /\ b \in Buckets
      BY DEF TypeOK, Buckets
    <2>2. CASE type \in Inbound /\ ReceiveStock(q, ends.destination, t)
      BY <1>1, <2>1, <2>2 DEF ReceiveStock, Add, Buckets
    <2>3. CASE type \in Outbound /\ IssueStock(q, ends.source, t)
      BY <1>1, <2>1, <2>3 DEF IssueStock, Take, Buckets
    <2>4. CASE type = "transfer"
                 /\ TransferStock(q, ends.source, ends.destination, t)
      BY <1>1, <2>1, <2>4 DEF TransferStock, Buckets
    <2>5. CASE type = "damage" /\ DamageStock(q, ends.source)
      BY <1>1, <2>1, <2>5 DEF DamageStock, Shift, Buckets
    <2>6. CASE type = "restore_damage" /\ RestoreStock(q, ends.source)
      BY <1>1, <2>1, <2>6 DEF RestoreStock, Shift, Buckets
    <2>7. QED
      BY <2>2, <2>3, <2>4, <2>5, <2>6 DEF ApplyStockMovement
  <1>4. QED
    BY <1>2, <1>3, MovementIdles DEF ApplyStockMovement

\* Neither do the services of lots.
LEMMA LotsIdle ==
    ASSUME TypeOK, IsFiniteSet(Recorded), CreateLots \/ EditLots
    PROVE  Idles /\ IsFiniteSet(Recorded')
  <1>1. CASE EditLots
    <2>1. UNCHANGED <<position, reservation, movement>>
      BY <1>1 DEF EditLots, ReadLot, SaveLot, AbandonEdit
    <2>2. QED
      BY <2>1, ConsumedStays DEF Idles, Recorded
  <1>2. ASSUME NEW t \in Lots, NEW l \in Locations, NEW q \in Quantities,
               CreateLot(t, l, q)
        PROVE  Idles /\ IsFiniteSet(Recorded')
    <2> DEFINE m == [type |-> "receipt", quantity |-> q, source |-> None,
                     destination |-> l, lot |-> t, reservation |-> None]
    <2>1. /\ m \in Movement /\ Record(<<"lot-open", t>>, m)
          /\ m.reservation = None
          /\ <<"lot-open", t>> \in MovementKeys
          /\ \A r \in Reservations : <<"lot-open", t>> # ConsumptionOf(r)
      BY <1>2, QuantityIsPositive
         DEF CreateLot, Movement, MovementTypes, Inbound, MovementKeys,
             ConsumptionOf
    <2> HIDE DEF m
    <2>2. \A n \in Locations, b \in {"reserved", "in_production"} :
             position'[n][b] = position[n][b]
      BY <1>2 DEF CreateLot, Add, TypeOK, Buckets
    <2>3. QED
      BY <1>2, <2>1, <2>2, MovementIdles DEF CreateLot
  <1>3. QED
    BY <1>1, <1>2 DEF CreateLots

\* reserve_stock: what is reserved enters the reserved bucket.
LEMMA ReserveSettles ==
    ASSUME TypeOK, Measuring, NEW r \in Reservations, NEW l \in Locations,
           NEW q \in Quantities, NEW t \in Lots \union {None},
           ReserveStock(r, l, q, t)
    PROVE  Settles(r) /\ MovesAsked(r) /\ IsFiniteSet(Recorded')
  <1> DEFINE row == [location |-> l, lot |-> t, quantity |-> q,
                     status |-> "active"]
  <1>1. q \in Nat \ {0}
    BY QuantityIsPositive
  <1>2. /\ reservation[r] = None
        /\ row # None
        /\ reservation' = [reservation EXCEPT ![r] = row]
        /\ row.location = l /\ row.quantity = q /\ row.status = "active"
    BY <1>1, NoneIsNoRow DEF ReserveStock, Reservation, Statuses
  <1> HIDE DEF row
  <1>3. /\ reservation'[r] = row
        /\ \A n \in Reservations \ {r} : reservation'[n] = reservation[n]
    BY <1>2 DEF TypeOK
  <1>4. /\ OnlyTouches(r)
        /\ ConsumedQuantity(r) = 0 /\ ConsumedQuantity(r)' = 0
        /\ ~ConsumedWhole(r)'
        /\ IsFiniteSet(Recorded')
    BY <1>2, <1>3, ConsumedStays
       DEF ReserveStock, Measuring, Measured, Recorded, OnlyTouches
  <1>5. Measured(r)'
    BY <1>1, <1>2, <1>3, <1>4 DEF Measured
  <1>6. \A n \in Locations, status \in Holding :
           /\ position[n][BucketOf(status)] \in Nat
           /\ position'[n][BucketOf(status)] =
                 position[n][BucketOf(status)]
                   + (IF n = l /\ status = "active" THEN q ELSE 0)
    BY <1>1, PartProperties, HeldProperties
       DEF ReserveStock, Shift, TypeOK, Buckets
  <1>7. ASSUME NEW n \in Locations, NEW status \in Holding
        PROVE  /\ position'[n][BucketOf(status)] =
                     position[n][BucketOf(status)] - Part(r, n, status)
                       + Part(r, n, status)'
               /\ position'[n][BucketOf(status)] =
                     position[n][BucketOf(status)] - Asked(r, n, status)
                       + Asked(r, n, status)'
    <2>1. /\ Part(r, n, status) = 0 /\ Asked(r, n, status) = 0
          /\ Part(r, n, status)' = IF n = l /\ status = "active" THEN q ELSE 0
          /\ Asked(r, n, status)' = IF n = l /\ status = "active" THEN q ELSE 0
      BY <1>1, <1>2, <1>3, <1>4, PartProperties
    <2>2. QED
      BY <1>1, <1>6, <2>1
  <1>8. ASSUME NEW n \in Locations
        PROVE  Held(n)' = Held(n) - OwedAt(r, n) + OwedAt(r, n)'
    <2>1. OwedAt(r, n) = 0 /\ OwedAt(r, n)' = IF n = l THEN q ELSE 0
      BY <1>1, <1>2, <1>3, <1>4, OwedProperties
    <2>2. QED
      BY <1>1, <1>6, <2>1, HeldProperties DEF Holding
  <1>9. QED
    BY <1>4, <1>5, <1>7, <1>8 DEF Settles, MovesAsked

\* The row of a reservation whose status is set.
LEMMA StatusRow ==
    ASSUME TypeOK, NEW r \in Reservations, reservation[r] # None,
           NEW status \in Statuses, SetStatus(r, status)
    PROVE  /\ reservation'[r] # None
           /\ reservation'[r].location = reservation[r].location
           /\ reservation'[r].lot = reservation[r].lot
           /\ reservation'[r].quantity = reservation[r].quantity
           /\ reservation'[r].status = status
           /\ \A n \in Reservations \ {r} : reservation'[n] = reservation[n]
  <1>1. /\ reservation[r] \in Reservation
        /\ [reservation[r] EXCEPT !.status = status] \in Reservation
        /\ reservation' = [reservation EXCEPT ![r] =
                             [reservation[r] EXCEPT !.status = status]]
    BY DEF SetStatus, TypeOK, Reservation
  <1>2. reservation'[r] = [reservation[r] EXCEPT !.status = status]
    BY <1>1 DEF TypeOK
  <1>3. \A n \in Reservations \ {r} : reservation'[n] = reservation[n]
    BY <1>1 DEF TypeOK
  <1>4. QED
    BY <1>1, <1>2, <1>3, NoneIsNoRow DEF Reservation

\* start_reservation_production: what was reserved goes from one bucket to the
\* other, whatever was consumed of it.
LEMMA StartSettles ==
    ASSUME TypeOK, Measuring, NEW r \in Reservations, StartReservationProduction(r)
    PROVE  Settles(r) /\ MovesAsked(r) /\ IsFiniteSet(Recorded')
  <1> DEFINE x == reservation[r].location
             q == reservation[r].quantity
             c == ConsumedQuantity(r)
  <1>1. /\ reservation[r] # None /\ reservation[r].status = "active"
        /\ Shift(x, "reserved", "in_production", q)
        /\ SetStatus(r, "in_production") /\ "in_production" \in Statuses
        /\ movement' = movement
    BY DEF StartReservationProduction, Statuses
  <1>2. x \in Locations /\ q \in Nat /\ c \in Nat
    BY <1>1, ConsumedIsNatural DEF TypeOK, Reservation, Measuring
  <1>3. /\ reservation'[r] # None
        /\ reservation'[r].location = x /\ reservation'[r].quantity = q
        /\ reservation'[r].status = "in_production"
        /\ \A n \in Reservations \ {r} : reservation'[n] = reservation[n]
    BY <1>1, StatusRow
  <1>4. /\ OnlyTouches(r)
        /\ ConsumedQuantity(r)' = c /\ ConsumedWhole(r)' = ConsumedWhole(r)
        /\ IsFiniteSet(Recorded')
    BY <1>1, <1>3, ConsumedStays DEF Measuring, Recorded, OnlyTouches
  <1>5. Measured(r) /\ Measured(r)' /\ c < q
    BY <1>1, <1>2, <1>3, <1>4 DEF Measuring, Measured
  <1>6. \A n \in Locations, status \in Holding :
           /\ position[n][BucketOf(status)] \in Nat
           /\ position'[n][BucketOf(status)] =
                 position[n][BucketOf(status)]
                   - (IF n = x /\ status = "active" THEN q ELSE 0)
                   + (IF n = x /\ status = "in_production" THEN q ELSE 0)
    BY <1>1, <1>2, PartProperties, HeldProperties
       DEF Shift, TypeOK, Buckets, Holding
  <1>7. r \in ReservedAt(x) /\ (c > 0 => SettlesUsed(r))
    BY <1>1, <1>2, <1>3, <1>4, <1>5 DEF ReservedAt, SettlesUsed, Open
  <1> HIDE DEF x, q, c
  <1>8. ASSUME NEW n \in Locations, NEW status \in Holding
        PROVE  /\ position'[n][BucketOf(status)] =
                     position[n][BucketOf(status)] - Asked(r, n, status)
                       + Asked(r, n, status)'
               /\ \/ position'[n][BucketOf(status)] =
                        position[n][BucketOf(status)] - Part(r, n, status)
                          + Part(r, n, status)'
                  \/ r \in ReservedAt(n) /\ SettlesUsed(r)
    <2>1. /\ Asked(r, n, status) = IF n = x /\ status = "active" THEN q ELSE 0
          /\ Asked(r, n, status)' =
                IF n = x /\ status = "in_production" THEN q ELSE 0
          /\ Part(r, n, status) = IF n = x /\ status = "active" THEN q - c ELSE 0
          /\ Part(r, n, status)' =
                IF n = x /\ status = "in_production" THEN q - c ELSE 0
      BY <1>1, <1>2, <1>3, <1>4, PartProperties DEF x, q, c
    <2>2. CASE n = x /\ c > 0
      BY <1>6, <1>7, <2>1, <2>2
    <2>3. CASE n # x \/ c = 0
      BY <1>2, <1>6, <2>1, <2>3
    <2>4. QED
      BY <1>2, <2>2, <2>3
  <1>9. ASSUME NEW n \in Locations
        PROVE  Held(n)' = Held(n) - OwedAt(r, n) + OwedAt(r, n)'
    <2>1. /\ OwedAt(r, n) = IF n = x THEN q - c ELSE 0
          /\ OwedAt(r, n)' = IF n = x THEN q - c ELSE 0
      BY <1>1, <1>2, <1>3, <1>4, OwedProperties DEF x, q, c
    <2>2. QED
      BY <1>2, <1>6, <2>1, HeldProperties DEF Holding
  <1>10. QED
    BY <1>2, <1>4, <1>5, <1>8, <1>9 DEF Settles, MovesAsked

\* release_reservation: all that was reserved leaves its bucket, whatever was
\* consumed of it.
LEMMA ReleaseSettles ==
    ASSUME TypeOK, Measuring, NEW r \in Reservations, ReleaseReservation(r)
    PROVE  Settles(r) /\ MovesAsked(r) /\ IsFiniteSet(Recorded')
  <1> DEFINE x == reservation[r].location
             q == reservation[r].quantity
             c == ConsumedQuantity(r)
  <1>1. /\ reservation[r] # None /\ reservation[r].status \in Holding
        /\ Shift(x, HeldIn(r), "available", q)
        /\ SetStatus(r, "released") /\ "released" \in Statuses
        /\ movement' = movement
    BY DEF ReleaseReservation, Open, Statuses, Holding
  <1>2. x \in Locations /\ q \in Nat /\ c \in Nat
    BY <1>1, ConsumedIsNatural DEF TypeOK, Reservation, Measuring
  <1>3. /\ reservation'[r] # None
        /\ reservation'[r].location = x /\ reservation'[r].quantity = q
        /\ reservation'[r].status = "released"
        /\ \A n \in Reservations \ {r} : reservation'[n] = reservation[n]
    BY <1>1, StatusRow
  <1>4. /\ OnlyTouches(r)
        /\ ConsumedQuantity(r)' = c /\ ConsumedWhole(r)' = ConsumedWhole(r)
        /\ IsFiniteSet(Recorded')
    BY <1>1, <1>3, ConsumedStays DEF Measuring, Recorded, OnlyTouches
  <1>5. Measured(r) /\ Measured(r)' /\ c < q
    BY <1>1, <1>2, <1>3, <1>4 DEF Measuring, Measured, Holding
  <1>6. ASSUME NEW n \in Locations, NEW status \in Holding
        PROVE  /\ position[n][BucketOf(status)] \in Nat
               /\ position'[n][BucketOf(status)] =
                     position[n][BucketOf(status)]
                       - (IF n = x /\ status = reservation[r].status THEN q ELSE 0)
    <2>1. /\ HeldIn(r) = BucketOf(status) <=> status = reservation[r].status
          /\ HeldIn(r) \in {"reserved", "in_production"}
      BY <1>1 DEF HeldIn, BucketOf, Holding
    <2>2. QED
      BY <1>1, <1>2, <2>1, PartProperties, HeldProperties
         DEF Shift, TypeOK, Buckets
  <1>7. r \in ReservedAt(x) /\ (c > 0 => SettlesUsed(r))
    BY <1>1, <1>2, <1>3, <1>4, <1>5 DEF ReservedAt, SettlesUsed, Open, Holding
  <1> HIDE DEF x, q, c
  <1>8. ASSUME NEW n \in Locations, NEW status \in Holding
        PROVE  /\ position'[n][BucketOf(status)] =
                     position[n][BucketOf(status)] - Asked(r, n, status)
                       + Asked(r, n, status)'
               /\ \/ position'[n][BucketOf(status)] =
                        position[n][BucketOf(status)] - Part(r, n, status)
                          + Part(r, n, status)'
                  \/ r \in ReservedAt(n) /\ SettlesUsed(r)
    <2> DEFINE held == n = x /\ status = reservation[r].status
    <2>1. /\ Asked(r, n, status) = IF held THEN q ELSE 0
          /\ Asked(r, n, status)' = 0
          /\ Part(r, n, status) = IF held THEN q - c ELSE 0
          /\ Part(r, n, status)' = 0
      BY <1>1, <1>2, <1>3, <1>4, PartProperties DEF Holding, x, q, c
    <2>2. CASE n = x /\ c > 0
      BY <1>2, <1>6, <1>7, <2>1, <2>2
    <2>3. CASE n # x \/ c = 0
      BY <1>2, <1>6, <2>1, <2>3
    <2>4. QED
      BY <1>2, <2>2, <2>3
  <1>9. ASSUME NEW n \in Locations
        PROVE  Held(n)' = Held(n) - OwedAt(r, n) + OwedAt(r, n)'
    <2>1. /\ OwedAt(r, n) = IF n = x THEN q - c ELSE 0
          /\ OwedAt(r, n)' = IF n = x THEN 0 - c ELSE 0
      BY <1>1, <1>2, <1>3, <1>4, OwedProperties DEF Holding, x, q, c
    <2>2. \/ reservation[r].status = "active"
          \/ reservation[r].status = "in_production"
      BY <1>1 DEF Holding
    <2>3. QED
      BY <1>2, <1>6, <2>1, <2>2, HeldProperties DEF Holding
  <1>10. QED
    BY <1>2, <1>4, <1>5, <1>8, <1>9 DEF Settles, MovesAsked

\* A consumption takes from the bucket of its reservation and is added to what
\* was consumed of it, whole or in part.
LEMMA ConsumptionTakes ==
    ASSUME TypeOK, Measuring, NEW r \in Reservations, Open(r), NEW q \in Nat,
           NEW k \in MovementKeys,
           \A n \in Reservations \ {r} : k # ConsumptionOf(n),
           Take(reservation[r].location, HeldIn(r), q),
           Record(k, [type |-> "production_consumption", quantity |-> q,
                      source |-> reservation[r].location, destination |-> None,
                      lot |-> reservation[r].lot, reservation |-> r]),
           SetStatus(r, "consumed") \/ UNCHANGED reservation
    PROVE  /\ reservation[r] # None /\ reservation[r].status \in Holding
           /\ reservation[r].location \in Locations
           /\ reservation[r].quantity \in Nat
           /\ ConsumedQuantity(r) \in Nat
           /\ ConsumedQuantity(r) < reservation[r].quantity
           /\ ConsumedQuantity(r)' = ConsumedQuantity(r) + q
           /\ ~ConsumedWhole(r) /\ (ConsumedWhole(r)' <=> k = ConsumptionOf(r))
           /\ OnlyTouches(r) /\ IsFiniteSet(Recorded')
           /\ \A n \in Locations, status \in Holding :
                 /\ position[n][BucketOf(status)] \in Nat
                 /\ position'[n][BucketOf(status)] =
                       position[n][BucketOf(status)]
                         - (IF /\ n = reservation[r].location
                               /\ status = reservation[r].status THEN q ELSE 0)
  <1> DEFINE m == [type |-> "production_consumption", quantity |-> q,
                   source |-> reservation[r].location, destination |-> None,
                   lot |-> reservation[r].lot, reservation |-> r]
             x == reservation[r].location
             w == reservation[r].quantity
             c == ConsumedQuantity(r)
  <1>1. /\ m \in Movement /\ Record(k, m) /\ m.quantity = q
        /\ m.type = "production_consumption" /\ m.reservation = r
    BY OpenProperties DEF Movement, MovementTypes, Outbound
  <1> HIDE DEF m
  <1>2. /\ reservation[r] # None /\ reservation[r].status \in Holding
        /\ x \in Locations /\ w \in Nat /\ c \in Nat
    BY OpenProperties, ConsumedIsNatural DEF Open, Holding, Measuring
  <1>3. ~ConsumedWhole(r) /\ c < w
    BY <1>2 DEF Measuring, Measured, Holding
  <1>4. \A n \in Reservations :
           /\ ConsumedQuantity(n)' =
                 IF n = r THEN ConsumedQuantity(n) + q ELSE ConsumedQuantity(n)
           /\ ConsumedWhole(n)' <=> ConsumedWhole(n) \/ k = ConsumptionOf(n)
    <2>1. \A n \in Reservations : Consumes(m, n) = IF n = r THEN q ELSE 0
      BY <1>1 DEF Consumes
    <2>2. \A n \in Reservations : /\ ConsumedQuantity(n) \in Nat
                                  /\ ConsumedQuantity(n)'
                                       = ConsumedQuantity(n) + Consumes(m, n)
      BY <1>1, RecordConsumes DEF Measuring
    <2>3. \A n \in Reservations :
             ConsumedWhole(n)' <=> ConsumedWhole(n) \/ k = ConsumptionOf(n)
      BY <1>1, RecordWholes
    <2>4. QED
      BY <2>1, <2>2, <2>3
  <1>5. IsFiniteSet(Recorded')
    <2>1. Fills(k)
      BY <1>1, RecordProperties DEF Fills, TypeOK
    <2>2. QED
      BY <2>1, FillingIsFinite DEF Measuring
  <1>6. OnlyTouches(r)
    <2>1. \A n \in Reservations \ {r} : reservation'[n] = reservation[n]
      BY <1>2, StatusRow DEF Statuses
    <2>2. \A n \in Reservations \ {r} : ConsumedWhole(n)' = ConsumedWhole(n)
      BY <1>4 DEF ConsumedWhole
    <2>3. QED
      BY <1>4, <2>1, <2>2 DEF OnlyTouches
  <1>7. ASSUME NEW n \in Locations, NEW status \in Holding
        PROVE  /\ position[n][BucketOf(status)] \in Nat
               /\ position'[n][BucketOf(status)] =
                     position[n][BucketOf(status)]
                       - (IF n = x /\ status = reservation[r].status
                          THEN q ELSE 0)
    <2>1. /\ HeldIn(r) = BucketOf(status) <=> status = reservation[r].status
          /\ HeldIn(r) \in {"reserved", "in_production"}
      BY <1>2 DEF HeldIn, BucketOf, Holding
    <2>2. QED
      BY <1>2, <2>1, PartProperties, HeldProperties
         DEF Take, TypeOK, Buckets
  <1>8. QED
    BY <1>2, <1>3, <1>4, <1>5, <1>6, <1>7

\* consume_reservation: all that was reserved leaves its bucket, whatever was
\* consumed of it before.
LEMMA WholeConsumptionSettles ==
    ASSUME TypeOK, Measuring, NEW r \in Reservations, ConsumeReservation(r)
    PROVE  Settles(r) /\ MovesAsked(r) /\ IsFiniteSet(Recorded')
  <1> DEFINE x == reservation[r].location
             q == reservation[r].quantity
             c == ConsumedQuantity(r)
             k == ConsumptionOf(r)
  <1>1. /\ Open(r) /\ q \in Nat /\ k \in MovementKeys
        /\ \A n \in Reservations \ {r} : k # ConsumptionOf(n)
        /\ "consumed" \in Statuses
    BY OpenProperties DEF ConsumeReservation, ConsumptionOf, MovementKeys, Statuses
  <1>2. /\ Take(x, HeldIn(r), q) /\ SetStatus(r, "consumed")
        /\ Record(k, [type |-> "production_consumption", quantity |-> q,
                      source |-> x, destination |-> None,
                      lot |-> reservation[r].lot, reservation |-> r])
    BY DEF ConsumeReservation, ConsumptionOf
  <1>3. /\ reservation[r] # None /\ reservation[r].status \in Holding
        /\ x \in Locations /\ c \in Nat /\ c < q
        /\ ConsumedQuantity(r)' = c + q
        /\ ConsumedWhole(r)' /\ OnlyTouches(r) /\ IsFiniteSet(Recorded')
        /\ \A n \in Locations, status \in Holding :
              /\ position[n][BucketOf(status)] \in Nat
              /\ position'[n][BucketOf(status)] =
                    position[n][BucketOf(status)]
                      - (IF n = x /\ status = reservation[r].status
                         THEN q ELSE 0)
    <2> HIDE DEF k
    <2>1. k = ConsumptionOf(r)
      BY DEF k
    <2>2. QED
      BY <1>1, <1>2, <2>1, ConsumptionTakes
  <1> HIDE DEF k
  <1>4. /\ reservation'[r] # None
        /\ reservation'[r].location = x /\ reservation'[r].quantity = q
        /\ reservation'[r].status = "consumed"
    BY <1>1, <1>2, <1>3, StatusRow
  <1>5. Measured(r)'
    BY <1>1, <1>3, <1>4 DEF Measured
  <1>6. r \in ReservedAt(x) /\ (c > 0 => SettlesUsed(r))
    BY <1>1, <1>3, <1>4 DEF ReservedAt, SettlesUsed, Holding
  <1> HIDE DEF x, q, c
  <1>7. ASSUME NEW n \in Locations, NEW status \in Holding
        PROVE  /\ position'[n][BucketOf(status)] =
                     position[n][BucketOf(status)] - Asked(r, n, status)
                       + Asked(r, n, status)'
               /\ \/ position'[n][BucketOf(status)] =
                        position[n][BucketOf(status)] - Part(r, n, status)
                          + Part(r, n, status)'
                  \/ r \in ReservedAt(n) /\ SettlesUsed(r)
    <2> DEFINE held == n = x /\ status = reservation[r].status
    <2>1. /\ Asked(r, n, status) = IF held THEN q ELSE 0
          /\ Asked(r, n, status)' = 0
          /\ Part(r, n, status) = IF held THEN q - c ELSE 0
          /\ Part(r, n, status)' = 0
      BY <1>3, <1>4, PartProperties DEF Holding, x, q, c
    <2>2. CASE n = x /\ c > 0
      BY <1>1, <1>3, <1>6, <2>1, <2>2
    <2>3. CASE n # x \/ c = 0
      BY <1>1, <1>3, <2>1, <2>3
    <2>4. QED
      BY <1>3, <2>2, <2>3
  <1>8. ASSUME NEW n \in Locations
        PROVE  Held(n)' = Held(n) - OwedAt(r, n) + OwedAt(r, n)'
    <2>1. /\ OwedAt(r, n) = IF n = x THEN q - c ELSE 0
          /\ OwedAt(r, n)' = IF n = x THEN q - (c + q) ELSE 0
      BY <1>3, <1>4, OwedProperties DEF Holding, x, q, c
    <2>2. \/ reservation[r].status = "active"
          \/ reservation[r].status = "in_production"
      BY <1>3 DEF Holding
    <2>3. QED
      BY <1>1, <1>3, <2>1, <2>2, HeldProperties DEF Holding
  <1>9. QED
    BY <1>1, <1>3, <1>5, <1>7, <1>8 DEF Settles, MovesAsked, c

\* consume_reserved_quantity: the part leaves the bucket its reservation is in,
\* and the last part leaves nothing.
LEMMA PartialConsumptionSettles ==
    ASSUME TypeOK, Measuring, NEW r \in Reservations, NEW j \in Keys,
           NEW q \in Quantities, ConsumeReservedQuantity(r, j, q)
    PROVE  Settles(r) /\ IsFiniteSet(Recorded')
  <1> DEFINE x == reservation[r].location
             w == reservation[r].quantity
             c == ConsumedQuantity(r)
             k == <<"production-reservation", j>>
  <1>1. /\ Open(r) /\ q \in Nat /\ k \in MovementKeys /\ q <= w - c
        /\ \A n \in Reservations : k # ConsumptionOf(n)
        /\ "consumed" \in Statuses
    BY QuantityIsPositive
       DEF ConsumeReservedQuantity, Remaining, ConsumptionOf, MovementKeys, Statuses
  <1>2. /\ Take(x, HeldIn(r), q)
        /\ Record(k, [type |-> "production_consumption", quantity |-> q,
                      source |-> x, destination |-> None,
                      lot |-> reservation[r].lot, reservation |-> r])
        /\ IF q = w - c THEN SetStatus(r, "consumed") ELSE UNCHANGED reservation
    BY DEF ConsumeReservedQuantity, Remaining
  <1> HIDE DEF k
  <1>3. /\ reservation[r] # None /\ reservation[r].status \in Holding
        /\ x \in Locations /\ w \in Nat /\ c \in Nat /\ c < w
        /\ ConsumedQuantity(r)' = c + q
        /\ ~ConsumedWhole(r)' /\ OnlyTouches(r) /\ IsFiniteSet(Recorded')
        /\ \A n \in Locations, status \in Holding :
              /\ position[n][BucketOf(status)] \in Nat
              /\ position'[n][BucketOf(status)] =
                    position[n][BucketOf(status)]
                      - (IF n = x /\ status = reservation[r].status
                         THEN q ELSE 0)
    BY <1>1, <1>2, ConsumptionTakes
  <1>4. /\ reservation'[r] # None
        /\ reservation'[r].location = x /\ reservation'[r].quantity = w
        /\ reservation'[r].status = IF q = w - c THEN "consumed"
                                    ELSE reservation[r].status
    BY <1>1, <1>2, <1>3, StatusRow
  <1>5. Measured(r)'
    BY <1>1, <1>3, <1>4 DEF Measured, Holding
  <1> HIDE DEF x, w, c
  <1>6. ASSUME NEW n \in Locations, NEW status \in Holding
        PROVE  position'[n][BucketOf(status)] =
                  position[n][BucketOf(status)] - Part(r, n, status)
                    + Part(r, n, status)'
    <2> DEFINE held == n = x /\ status = reservation[r].status
    <2>1. Part(r, n, status) = IF held THEN w - c ELSE 0
      BY <1>3, PartProperties DEF x, w, c
    <2>2. Part(r, n, status)' = IF held THEN w - c - q ELSE 0
      BY <1>1, <1>3, <1>4, PartProperties DEF Holding, c
    <2>3. QED
      BY <1>1, <1>3, <2>1, <2>2
  <1>7. ASSUME NEW n \in Locations
        PROVE  Held(n)' = Held(n) - OwedAt(r, n) + OwedAt(r, n)'
    <2>1. /\ OwedAt(r, n) = IF n = x THEN w - c ELSE 0
          /\ OwedAt(r, n)' = IF n = x THEN w - (c + q) ELSE 0
      BY <1>3, <1>4, OwedProperties DEF Holding, x, w, c
    <2>2. \/ reservation[r].status = "active"
          \/ reservation[r].status = "in_production"
      BY <1>3 DEF Holding
    <2>3. QED
      BY <1>1, <1>3, <2>1, <2>2, HeldProperties DEF Holding
  <1>8. QED
    BY <1>1, <1>3, <1>5, <1>6, <1>7 DEF Settles, c

\* At first nothing is reserved, held or consumed.
LEMMA InitBacking == Init => Backing /\ BucketsBackReservations
  <1> SUFFICES ASSUME Init PROVE Backing /\ BucketsBackReservations
    OBVIOUS
  <1>1. Recorded = {} /\ Reserved = {}
    BY DEF Init, Recorded, Reserved
  <1>2. ASSUME NEW f, DOMAIN f = {}
        PROVE  SumFunction(f) = 0
    BY <1>2, SumOfNone DEF SumFunction
  <1>3. \A r \in Reservations : Measured(r)
    <2>1. \A r \in Reservations : ConsumptionsOf(r) = {}
      BY <1>1 DEF ConsumptionsOf
    <2>2. \A r \in Reservations : ConsumedQuantity(r) = 0
      BY <1>2, <2>1 DEF ConsumedQuantity
    <2>3. \A r \in Reservations : ~ConsumedWhole(r)
      BY DEF Init, ConsumedWhole, MovementKeys
    <2>4. QED
      BY <2>2, <2>3 DEF Init, Measured
  <1>4. HeldIsOwed
    <2> SUFFICES ASSUME NEW l \in Locations
                 PROVE  Held(l) = SumFunction([r \in ReservedAt(l) |-> Owed(r)])
      BY DEF HeldIsOwed
    <2>1. ReservedAt(l) = {} /\ Held(l) = 0
      BY DEF Init, ReservedAt, Held, Buckets
    <2>2. QED
      BY <1>2, <2>1
  <1>5. BucketsBackReservations
    <2> SUFFICES ASSUME NEW l \in Locations, NEW status \in {"active", "in_production"}
                 PROVE  position[l][BucketOf(status)] =
                           SumFunction([r \in HeldAt(l, status) |->
                                          reservation[r].quantity])
      BY DEF BucketsBackReservations
    <2>1. HeldAt(l, status) = {} /\ position[l][BucketOf(status)] = 0
      BY DEF Init, HeldAt, Buckets, BucketOf
    <2>2. QED
      BY <1>2, <2>1
  <1>6. QED
    BY <1>1, <1>3, <1>4, <1>5, FS_EmptySet DEF Backing, Measuring

\* Each service of Inventory settles one reservation, or none.
LEMMA ServiceSettles ==
    ASSUME IInv, Measuring, Next
    PROVE  /\ IsFiniteSet(Recorded')
           /\ Idles \/ \E r \in Reservations : Settles(r) /\ MovesAsked(r)
  <1>1. TypeOK /\ IsFiniteSet(Recorded)
    BY DEF IInv, Measuring
  <1>2. CASE ApplyRequestedMovement
    <2>1. PICK k \in Keys, type \in RequestTypes, q \in Quantities,
               t \in Lots \union {None} :
             \E ends \in EndsOf(type) :
                ApplyStockMovement(<<"request", k>>, type, q,
                                   ends.source, ends.destination, t)
      BY <1>2 DEF ApplyRequestedMovement
    <2>2. /\ <<"request", k>> \in MovementKeys /\ type \in MovementTypes
          /\ \A r \in Reservations : <<"request", k>> # ConsumptionOf(r)
      BY RequestTypesAreTypes DEF MovementKeys, ConsumptionOf
    <2>3. QED
      BY <1>1, <2>1, <2>2, QuantityIsPositive, ApplyIdles
  <1>3. CASE CreateLots \/ EditLots
    BY <1>1, <1>3, LotsIdle
  <1>4. CASE Reserve
    BY <1>1, <1>4, ReserveSettles DEF Reserve
  <1>5. CASE SettleReservation
    BY <1>1, <1>5, StartSettles, ReleaseSettles, WholeConsumptionSettles
       DEF SettleReservation
  <1>6. QED
    BY <1>2, <1>3, <1>4, <1>5 DEF Next

\* So does the consumption of a part.
LEMMA ProductionSettles ==
    ASSUME IInv, Measuring, [ProductionNext]_vars
    PROVE  /\ IsFiniteSet(Recorded')
           /\ Idles \/ \E r \in Reservations : Settles(r)
  <1>1. CASE Next
    BY <1>1, ServiceSettles
  <1>2. CASE ConsumePart
    BY <1>2, PartialConsumptionSettles DEF ConsumePart, IInv
  <1>3. CASE UNCHANGED vars
    BY <1>3, ConsumedStays DEF vars, Idles, Recorded, Measuring
  <1>4. QED
    BY <1>1, <1>2, <1>3 DEF ProductionNext

\* Every step of the inventory keeps Backing, and the buckets follow it.
LEMMA BackingStep ==
    ASSUME IInv, Measuring, [ProductionNext]_vars
    PROVE  Measuring' /\ (HeldIsOwed => HeldIsOwed') /\ BucketsFollow
  <1>1. TypeOK /\ TypeOK'
    BY StepInvariant DEF IInv
  <1>2. IsFiniteSet(Recorded')
    BY ProductionSettles
  <1>3. CASE Idles
    BY <1>1, <1>2, <1>3, IdlingBacks, IdlingFollows DEF Backing
  <1>4. CASE \E r \in Reservations : Settles(r)
    BY <1>1, <1>2, <1>4, SettlingMeasures, SettlingBacks, SettlingFollows
       DEF Backing
  <1>5. QED
    BY <1>3, <1>4, ProductionSettles

\* A service that settles one reservation whole keeps each bucket equal to what
\* the open reservations in it ask for.
LEMMA AskedBacks ==
    ASSUME TypeOK, TypeOK', Measuring, BucketsBackReservations,
           NEW r \in Reservations, OnlyTouches(r), MovesAsked(r)
    PROVE  BucketsBackReservations'
  <1> SUFFICES ASSUME NEW l \in Locations, NEW status \in Holding
               PROVE  position'[l][BucketOf(status)] =
                         SumFunction([n \in HeldAt(l, status)' |->
                                        reservation'[n].quantity])
    BY DEF BucketsBackReservations, Holding
  <1> DEFINE S == HeldAt(l, status)
             T == HeldAt(l, status)'
             f == [n \in S |-> reservation[n].quantity]
             g == [n \in T |-> reservation'[n].quantity]
  <1>1. IsFiniteSet(S)
    <2>1. S \subseteq Reserved
      BY DEF HeldAt, Reserved
    <2>2. QED
      BY <2>1, FS_Subset DEF Measuring
  <1>2. /\ S \ {r} = T \ {r}
        /\ \A n \in S : f[n] \in Int
        /\ \A n \in T : g[n] \in Int
        /\ \A n \in S \ {r} : g[n] = f[n]
    BY DEF HeldAt, OnlyTouches, TypeOK, Reservation
  <1>3. Asked(r, l, status) = Share(f, S, r) /\ Asked(r, l, status)' = Share(g, T, r)
    BY DEF Asked, Share
  <1>4. /\ position[l][BucketOf(status)] = SumFunctionOnSet(f, S)
        /\ SumFunction(g) = SumFunctionOnSet(g, T)
    BY DEF BucketsBackReservations, SumFunction, Holding
  <1>5. position'[l][BucketOf(status)] =
           position[l][BucketOf(status)] - Asked(r, l, status)
             + Asked(r, l, status)'
    BY DEF MovesAsked
  <1> HIDE DEF S, T, f, g
  <1>6. SumFunctionOnSet(g, T)
           = SumFunctionOnSet(f, S) - Share(f, S, r) + Share(g, T, r)
    BY <1>1, <1>2, SumChanges
  <1>7. position'[l][BucketOf(status)] = SumFunction(g)
    BY <1>3, <1>4, <1>5, <1>6
  <1>8. QED
    BY <1>7 DEF g, T

\* Called whole, the services never find a bucket that lacks the stock of an
\* open reservation: each bucket is exactly the open reservations in it.
THEOREM ReservationsAreBacked == Spec => []BucketsBackReservations
  <1> DEFINE Whole == IInv /\ Measuring /\ BucketsBackReservations
  <1>1. Init => Whole
    BY InitInvariant, InitBacking DEF Backing
  <1>2. Whole /\ [Next]_vars => Whole'
    <2> SUFFICES ASSUME IInv, Measuring, BucketsBackReservations, [Next]_vars
                 PROVE  IInv' /\ Measuring' /\ BucketsBackReservations'
      BY Zenon
    <2>1. IInv' /\ Measuring'
      BY StepInvariant, BackingStep DEF ProductionNext
    <2>2. CASE Idles
      <3>1. \A l, status : HeldAt(l, status)' = HeldAt(l, status)
        BY <2>2 DEF Idles, HeldAt
      <3>2. QED
        BY <2>1, <2>2, <3>1 DEF Idles, BucketsBackReservations, Holding
    <2>3. CASE \E r \in Reservations : Settles(r) /\ MovesAsked(r)
      BY <2>1, <2>3, AskedBacks DEF IInv, Settles
    <2>4. CASE UNCHANGED vars
      <3>1. \A l, status : HeldAt(l, status)' = HeldAt(l, status)
        BY <2>4 DEF vars, HeldAt
      <3>2. QED
        BY <2>1, <2>4, <3>1 DEF vars, BucketsBackReservations
    <2>5. QED
      BY <2>2, <2>3, <2>4, ServiceSettles
  <1>3. QED
    BY <1>1, <1>2, PTL DEF Spec

\* What is measured, and what is held, stays so when parts are consumed as well.
LEMMA BackingAlways == ProductionSpec => [](IInv /\ Backing)
  <1>1. Init => IInv /\ Backing
    BY InitInvariant, InitBacking
  <1>2. IInv /\ Backing /\ [ProductionNext]_vars => (IInv /\ Backing)'
    BY StepInvariant, BackingStep DEF Backing
  <1>3. QED
    BY <1>1, <1>2, PTL DEF ProductionSpec

\* What is measured are parts that fit, and at most one whole consumption.
LEMMA MeasuredParts ==
    ASSUME TypeOK, Measuring
    PROVE  PartsWithinReservation
  <1> SUFFICES ASSUME NEW r \in Reservations, reservation[r] # None
               PROVE  LET whole == IF ConsumedWhole(r) THEN reservation[r].quantity ELSE 0
                          parts == ConsumedQuantity(r) - whole
                      IN  /\ 0 <= parts /\ parts <= reservation[r].quantity
                          /\ ConsumedWhole(r) => parts < reservation[r].quantity
                          /\ reservation[r].status = "consumed" <=>
                                ConsumedWhole(r) \/ parts = reservation[r].quantity
    BY DEF PartsWithinReservation
  <1>1. Measured(r) /\ ConsumedQuantity(r) \in Nat
    BY ConsumedIsNatural DEF Measuring
  <1>2. reservation[r].quantity \in Nat
    BY DEF TypeOK, Reservation
  <1>3. QED
    BY <1>1, <1>2 DEF Measured

\* Whatever services are called, in whichever order: parts never take more than
\* was reserved, and only consume_reservation, once, takes more.
THEOREM PartsStayWithin == ProductionSpec => []PartsWithinReservation
  <1>1. IInv /\ Backing => PartsWithinReservation
    BY MeasuredParts DEF IInv, Backing
  <1>2. QED
    BY <1>1, BackingAlways, PTL

\* A partial consumption takes from the bucket its reservation is in, and every
\* other service, of a reservation that was not used in part, moves the buckets
\* by what it leaves of that reservation.
THEOREM BucketsFollowReservations == ProductionSpec => BucketsMoveWithReservations
  <1>1. IInv /\ Backing /\ [ProductionNext]_vars => BucketsFollow
    BY BackingStep DEF Backing
  <1>2. ProductionSpec => [][BucketsFollow]_vars
    BY <1>1, BackingAlways, PTL DEF ProductionSpec
  <1>3. QED
    BY <1>2 DEF BucketsFollow, BucketsMoveWithReservations

=============================================================================
