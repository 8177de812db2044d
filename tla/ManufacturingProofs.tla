------------------------- MODULE ManufacturingProofs -------------------------
(***************************************************************************)
(* Proofs about manufacturing orders, for any orders, operations, stock    *)
(* and keys.  The stock that Manufacturing shares with the endpoints keeps *)
(* the invariant of InventoryProofs; the rest builds on it.                *)
(***************************************************************************)
EXTENDS Manufacturing, InventoryProofs

-----------------------------------------------------------------------------
(* The stock: every step keeps IInv.                                       *)

\* A step that keeps the types, the lots and the reservations keeps IInv.
LEMMA SameReservations ==
    ASSUME IInv, TypeOK', LotsRemain, UNCHANGED reservation
    PROVE  IInv'
  <1>1. ASSUME NEW r \in Reservations, reservation[r] # None
        PROVE  IsLot(reservation[r].lot)'
    <2>1. /\ IsLot(reservation[r].lot)
          /\ reservation[r].lot \in Lots \union {None}
      BY <1>1 DEF IInv, ReservedLotsExist, TypeOK, Reservation
    <2>2. QED
      BY <2>1 DEF IsLot, LotsRemain
  <1>2. QED
    BY <1>1 DEF IInv, ReservedLotsExist

\* Supplemental consumption is an outbound movement under a key of its own.
LEMMA SupplementalKeepsStock ==
    ASSUME IInv, NEW o \in Orders, NEW k \in Keys, NEW q \in Quantities,
           NEW l \in Locations, NEW t \in Lots \union {None},
           ConsumeSupplemental(o, k, q, l, t)
    PROVE  IInv'
  <1> DEFINE key == <<"manufacturing-supplemental", k>>
             ends == [source |-> l, destination |-> None]
  <1>1. /\ key \in MovementKeys /\ q \in Nat
        /\ "production_consumption" \in MovementTypes
        /\ ends \in EndsOf("production_consumption")
    BY QuantityIsPositive DEF MovementKeys, MovementTypes, Outbound, Inbound, EndsOf
  <1>2. ApplyStockMovement(key, "production_consumption", q,
                           ends.source, ends.destination, t)
    BY DEF ConsumeSupplemental
  <1>3. TypeOK
    BY DEF IInv
  <1>4. TypeOK' /\ LotsRemain
    BY <1>1, <1>2, <1>3, ApplyKeeps, ApplyKeepsLots DEF Kept
  <1>5. UNCHANGED reservation
    BY <1>2 DEF ApplyStockMovement
  <1>6. QED
    BY <1>4, <1>5, SameReservations

\* A remnant is a new lot, filled by the movement that is recorded with it.
LEMMA RemnantKeepsStock ==
    ASSUME IInv, NEW o \in Orders, NEW k \in Keys, NEW q \in Quantities,
           NEW l \in Locations, NEW t \in Lots, RecordRemnant(o, k, q, l, t)
    PROVE  IInv'
  <1> DEFINE m == [type |-> "return_in", quantity |-> q, source |-> None,
                   destination |-> l, lot |-> t, reservation |-> None]
             row == [location |-> l, initial |-> q, remaining |-> q,
                     status |-> "active"]
             key == <<"manufacturing-remnant", k>>
  <1>1. TypeOK /\ q \in Nat \ {0} /\ key \in MovementKeys
    BY QuantityIsPositive DEF IInv, MovementKeys
  <1>2. m \in Movement /\ Record(key, m)
    BY <1>1 DEF RecordRemnant, Movement, MovementTypes, Inbound
  <1>3. lot[t] = None /\ row \in LotRow /\ lot' = [lot EXCEPT ![t] = row]
    BY <1>1 DEF RecordRemnant, LotRow
  <1>4. lot' \in [Lots -> LotRow \union {None}] /\ LotsRemain
    BY <1>1, <1>3 DEF TypeOK, LotsRemain
  <1>5. position' \in Positions
    BY <1>1, AddProperties DEF RecordRemnant, TypeOK, Positions, Buckets
  <1>6. movement' \in [MovementKeys -> Movement \union {None}]
    BY <1>1, <1>2, RecordProperties DEF TypeOK
  <1>7. UNCHANGED <<reservation, edit>>
    BY DEF RecordRemnant
  <1>8. TypeOK'
    BY <1>1, <1>4, <1>5, <1>6, <1>7 DEF TypeOK, Positions
  <1>9. QED
    BY <1>4, <1>7, <1>8, SameReservations

\* Handling stock and material leaves orders and their work alone.
LEMMA StockLeavesWork ==
    ASSUME ReserveForOrder \/ HandleMaterial \/ UseStock
    PROVE  UNCHANGED <<work, status, output, completing>>
  <1>1. CASE ReserveForOrder
    BY <1>1 DEF ReserveForOrder, ReserveMaterials
  <1>2. CASE HandleMaterial
    <2>1. PICK o \in Orders, q \in Quantities, k \in Keys, l \in Locations :
             \/ \E r \in Reservations : ConsumeReserved(o, k, q, r)
             \/ \E t \in Lots \union {None} : ConsumeSupplemental(o, k, q, l, t)
             \/ \E t \in Lots : RecordRemnant(o, k, q, l, t)
      BY <1>2 DEF HandleMaterial
    <2>2. \/ \E r \in Reservations \union {None} : Consume(o, k, q, r)
          \/ \E t \in Lots : RecordRemnant(o, k, q, l, t)
      BY <2>1 DEF ConsumeReserved, ConsumeSupplemental
    <2>3. QED
      BY <2>2 DEF Consume, RecordRemnant
  <1>3. CASE UseStock
    BY <1>3 DEF UseStock
  <1>4. QED
    BY <1>1, <1>2, <1>3

\* Moving an order leaves stock, material and work alone.
LEMMA OrdersLeaveRest ==
    ASSUME MoveOrder
    PROVE  UNCHANGED <<stock, material, work>>
  <1>1. PICK o \in Orders : \/ MakeReady(o) \/ StartOrder(o) \/ CancelOrder(o)
                            \/ CheckCompletion(o) \/ AbandonCompletion(o)
                            \/ \E q \in Quantities : CommitCompletion(o, q)
    BY DEF MoveOrder
  <1>2. CASE \E to : SetOrder(o, to)
    BY <1>2 DEF SetOrder
  <1>3. CASE CheckCompletion(o) \/ AbandonCompletion(o)
    BY <1>3 DEF CheckCompletion, AbandonCompletion
  <1>4. CASE \E q \in Quantities : CommitCompletion(o, q)
    BY <1>4 DEF CommitCompletion
  <1>5. QED
    BY <1>1, <1>2, <1>3, <1>4 DEF MakeReady, StartOrder, CancelOrder

\* Work leaves stock, material and orders alone.
LEMMA WorkLeavesRest ==
    ASSUME DoWork
    PROVE  UNCHANGED <<stock, material, status, output, completing>>
  <1>1. ASSUME NEW p \in Operations, NEW from, NEW row, MoveOperation(p, from, row)
        PROVE  UNCHANGED <<stock, material, status, output, completing>>
    BY <1>1 DEF MoveOperation
  <1>2. ASSUME NEW p \in Operations,
               \/ \E override \in BOOLEAN : StartOperation(p, override)
               \/ CompleteOperation(p) \/ ReworkOperation(p) \/ CancelOperation(p)
        PROVE  UNCHANGED <<stock, material, status, output, completing>>
    BY <1>1, <1>2 DEF StartOperation, CompleteOperation, ReworkOperation,
                      CancelOperation
  <1>3. ASSUME NEW p \in Operations, PlanOperation(p) \/ InsertOperation(p)
        PROVE  UNCHANGED <<stock, material, status, output, completing>>
    BY <1>3 DEF PlanOperation, InsertOperation
  <1>4. ASSUME NEW x \in Inspected, Judge(x)
        PROVE  UNCHANGED <<stock, material, status, output, completing>>
    BY <1>4 DEF Judge
  <1>5. QED
    BY <1>2, <1>3, <1>4 DEF DoWork

\* What a step does to the stock: a service of inventory, or one of the two
\* movements of manufacturing.
LEMMA StepOfStock ==
    ASSUME ManufacturingNext
    PROVE  \/ [ProductionNext]_vars
           \/ \E o \in Orders, q \in Quantities, k \in Keys, l \in Locations :
                \/ \E t \in Lots \union {None} : ConsumeSupplemental(o, k, q, l, t)
                \/ \E t \in Lots : RecordRemnant(o, k, q, l, t)
  <1> USE DEF vars, stock
  <1>1. CASE MoveOrder
    BY <1>1, OrdersLeaveRest
  <1>2. CASE ReserveForOrder
    BY <1>2 DEF ReserveForOrder, ReserveMaterials, ProductionNext, Next, Reserve
  <1>3. CASE HandleMaterial
    BY <1>3 DEF HandleMaterial, ConsumeReserved, ProductionNext, ConsumePart
  <1>4. CASE DoWork
    BY <1>4, WorkLeavesRest
  <1>5. CASE UseStock
    BY <1>5 DEF UseStock, ProductionNext, Next, Reserve
  <1>6. QED
    BY <1>1, <1>2, <1>3, <1>4, <1>5 DEF ManufacturingNext

\* Every step of manufacturing keeps the invariant of the stock.
LEMMA StockStep == IInv /\ [ManufacturingNext]_allVars => IInv'
  <1>1. UNCHANGED allVars => UNCHANGED vars
    BY DEF allVars, stock, vars
  <1>2. QED
    BY <1>1, StepOfStock, StepInvariant, SupplementalKeepsStock,
       RemnantKeepsStock

\* Stock stays well typed, and reservations name lots that exist, whatever
\* manufacturing and the stock endpoints do.
THEOREM StockInvariant == ManufacturingSpec => []IInv
  <1>1. ManufacturingInit => IInv
    BY InitInvariant DEF ManufacturingInit
  <1>2. QED
    BY <1>1, StockStep, PTL DEF ManufacturingSpec

-----------------------------------------------------------------------------
(* The tables of manufacturing.                                            *)

\* The tables of material, of orders and of work are written apart.
MaterialTypes ==
    /\ owner \in [Reservations -> Orders \union {None}]
    /\ consumption \in [Keys -> Consumption \union {None}]
    /\ remnant \in [Keys -> Remnant \union {None}]

OrderTypes ==
    /\ status \in [Orders -> OrderStatuses]
    /\ output \in [Orders -> Nat]
    /\ completing \in SUBSET Orders

WorkTypes ==
    /\ operation \in [Operations -> Operation \union {None}]
    /\ planning \in SUBSET Operations
    /\ accepted \in [Orders \union Operations -> BOOLEAN]

MInv == IInv /\ MaterialTypes /\ OrderTypes /\ WorkTypes

\* No step writes anything in the tables of material but rows of their types.
LEMMA MaterialStep ==
    ASSUME MInv, ManufacturingNext
    PROVE  MaterialTypes'
  <1> USE DEF MInv, MaterialTypes
  <1>1. CASE UNCHANGED <<owner, consumption, remnant>>
    BY <1>1
  <1>2. CASE MoveOrder \/ DoWork
    BY <1>1, <1>2, OrdersLeaveRest, WorkLeavesRest DEF stock, material
  <1>3. CASE ReserveForOrder
    BY <1>3 DEF ReserveForOrder, ReserveMaterials, material
  <1>4. ASSUME NEW o \in Orders, NEW q \in Quantities, NEW k \in Keys,
               NEW r \in Reservations \union {None}, Consume(o, k, q, r)
        PROVE  MaterialTypes'
    <2>1. [order |-> o, quantity |-> q, reservation |-> r] \in Consumption
      BY QuantityIsPositive DEF Consumption
    <2>2. QED
      BY <1>4, <2>1 DEF Consume
  <1>5. ASSUME NEW o \in Orders, NEW q \in Quantities, NEW k \in Keys,
               NEW l \in Locations, NEW t \in Lots, RecordRemnant(o, k, q, l, t)
        PROVE  MaterialTypes'
    <2>1. [order |-> o, quantity |-> q, lot |-> t] \in Remnant
      BY QuantityIsPositive DEF Remnant
    <2>2. QED
      BY <1>5, <2>1 DEF RecordRemnant
  <1>6. CASE HandleMaterial
    BY <1>4, <1>5, <1>6 DEF HandleMaterial, ConsumeReserved, ConsumeSupplemental
  <1>7. CASE UseStock
    BY <1>7 DEF UseStock, material
  <1>8. QED
    BY <1>2, <1>3, <1>6, <1>7 DEF ManufacturingNext

\* No step writes a status or an output that an order cannot have.
LEMMA OrderStep ==
    ASSUME MInv, ManufacturingNext
    PROVE  OrderTypes'
  <1> USE DEF MInv, OrderTypes
  <1>1. CASE MoveOrder
    <2>1. ASSUME NEW o \in Orders, NEW to \in OrderStatuses, SetOrder(o, to)
          PROVE  OrderTypes'
      BY <2>1 DEF SetOrder
    <2>2. ASSUME NEW o \in Orders, NEW q \in Quantities, CommitCompletion(o, q)
          PROVE  OrderTypes'
      BY <2>2, QuantityIsPositive DEF CommitCompletion, OrderStatuses
    <2>3. ASSUME NEW o \in Orders, CheckCompletion(o) \/ AbandonCompletion(o)
          PROVE  OrderTypes'
      BY <2>3 DEF CheckCompletion, AbandonCompletion
    <2>4. QED
      BY <1>1, <2>1, <2>2, <2>3
         DEF MoveOrder, MakeReady, StartOrder, CancelOrder, OrderStatuses
  <1>2. CASE UNCHANGED <<status, output, completing>>
    BY <1>2
  <1>3. CASE ReserveForOrder \/ HandleMaterial \/ DoWork \/ UseStock
    BY <1>2, <1>3, StockLeavesWork, WorkLeavesRest
  <1>4. QED
    BY <1>1, <1>3 DEF ManufacturingNext

\* An operation that moves keeps the type of its row.
LEMMA MoveProperties ==
    ASSUME WorkTypes, NEW p \in Operations, NEW from, NEW row \in Operation,
           MoveOperation(p, from, row)
    PROVE  /\ WorkTypes'
           /\ operation[p] \in Operation
           /\ operation'[p] = row
           /\ \A x \in Operations \ {p} : operation'[x] = operation[x]
  BY NoneIsNoWork DEF WorkTypes, MoveOperation

\* The row an operation has after each of its moves.
LEMMA RowProperties ==
    ASSUME WorkTypes, NEW p \in Operations, operation[p] # None
    PROVE  /\ operation[p] \in Operation
           /\ \A override \in BOOLEAN :
                [operation[p] EXCEPT !.status = "in_progress",
                                     !.override = override] \in Operation
           /\ [operation[p] EXCEPT !.status = "done"] \in Operation
           /\ [operation[p] EXCEPT !.status = "rework",
                                   !.reworked = TRUE] \in Operation
           /\ [operation[p] EXCEPT !.status = "cancelled"] \in Operation
  <1>1. operation[p] \in Operation
    BY DEF WorkTypes
  <1>2. QED
    BY <1>1 DEF Operation, OperationStatuses

\* No step writes an operation, a plan or a judgement of another type.
LEMMA WorkStep ==
    ASSUME MInv, ManufacturingNext
    PROVE  WorkTypes'
  <1>1. WorkTypes
    BY DEF MInv
  <1>2. CASE UNCHANGED work
    BY <1>1, <1>2 DEF WorkTypes, work
  <1>3. CASE MoveOrder \/ ReserveForOrder \/ HandleMaterial \/ UseStock
    BY <1>2, <1>3, OrdersLeaveRest, StockLeavesWork
  <1>4. ASSUME NEW p \in Operations, PlanOperation(p)
        PROVE  WorkTypes'
    BY <1>1, <1>4 DEF PlanOperation, WorkTypes
  <1>5. ASSUME NEW p \in Operations, InsertOperation(p)
        PROVE  WorkTypes'
    <2> DEFINE late == status[PartOf[p]] \notin {"draft", "ready"}
    <2>1. late \in BOOLEAN
      OBVIOUS
    <2> HIDE DEF late
    <2>2. [status |-> "pending", override |-> FALSE, reworked |-> FALSE,
           late |-> late] \in Operation
      BY <2>1 DEF Operation, OperationStatuses
    <2>3. operation' \in [Operations -> Operation \union {None}]
      BY <1>1, <1>5, <2>2 DEF InsertOperation, WorkTypes, late
    <2>4. QED
      BY <1>1, <1>5, <2>3 DEF InsertOperation, WorkTypes
  <1>6. ASSUME NEW p \in Operations, NEW from, NEW row, operation[p] # None => row \in Operation,
               MoveOperation(p, from, row)
        PROVE  WorkTypes'
    BY <1>1, <1>6, MoveProperties DEF MoveOperation
  <1>7. ASSUME NEW p \in Operations, NEW override \in BOOLEAN,
               \/ StartOperation(p, override) \/ CompleteOperation(p)
               \/ ReworkOperation(p) \/ CancelOperation(p)
        PROVE  WorkTypes'
    BY <1>1, <1>6, <1>7, RowProperties
       DEF StartOperation, CompleteOperation, ReworkOperation, CancelOperation
  <1>8. ASSUME NEW x \in Inspected, Judge(x)
        PROVE  WorkTypes'
    <2>1. x \in Orders \union Operations /\ accepted[x] \in BOOLEAN
      BY <1>1, InspectedIsWork DEF WorkTypes
    <2>2. accepted[x] = TRUE \/ accepted[x] = FALSE
      BY <2>1
    <2>3. accepted' \in [Orders \union Operations -> BOOLEAN]
      BY <1>1, <1>8, <2>1, <2>2, Zenon DEF Judge, WorkTypes
    <2>4. QED
      BY <1>1, <1>8, <2>3 DEF Judge, WorkTypes
  <1>9. CASE DoWork
    BY <1>4, <1>5, <1>7, <1>8, <1>9 DEF DoWork
  <1>10. QED
    BY <1>3, <1>9 DEF ManufacturingNext

\* MInv holds initially and is kept.
LEMMA ManufacturingInvInit == ManufacturingInit => MInv
  BY InitInvariant DEF ManufacturingInit, MInv, MaterialTypes, OrderTypes,
                       WorkTypes, OrderStatuses

LEMMA ManufacturingInvStep == MInv /\ [ManufacturingNext]_allVars => MInv'
  <1>1. ASSUME MInv, UNCHANGED allVars
        PROVE  MaterialTypes' /\ OrderTypes' /\ WorkTypes'
    BY <1>1 DEF MInv, MaterialTypes, OrderTypes, WorkTypes, allVars, stock,
                material, work
  <1>2. QED
    BY <1>1, StockStep, MaterialStep, OrderStep, WorkStep DEF MInv

\* The types of all tables: in particular no bucket, no lot, no consumption and
\* no remnant is ever negative.
THEOREM ManufacturingTypeCorrect == ManufacturingSpec => []ManufacturingTypeOK
  <1>1. MInv => ManufacturingTypeOK
    BY DEF MInv, IInv, MaterialTypes, OrderTypes, WorkTypes, ManufacturingTypeOK
  <1>2. QED
    BY <1>1, ManufacturingInvInit, ManufacturingInvStep, PTL DEF ManufacturingSpec

-----------------------------------------------------------------------------
(* Work: what is planned, in which order it runs, when an order is done.   *)

\* The types the following lemmas need.
Shaped == OrderTypes /\ WorkTypes

\* Until an order starts, its operations only wait.  It is what lets a planned
\* operation arrive in its place without stopping one behind it.
UnstartedOrdersWait ==
    \A p \in Operations :
       operation[p] # None /\ status[PartOf[p]] \in {"draft", "ready"} =>
          operation[p].status = "pending"

\* An operation is inserted once.
PlannedAreNew == \A p \in planning : operation[p] = None

\* What a completion has checked of its order stays so until it ends.
CheckedStaysFinished ==
    \A o \in completing :
       /\ status[o] = "in_progress"
       /\ \A p \in WorkOf(o) : operation[p].status \in Finished

WorkInv == /\ DoneMeansFinished /\ RunsInSequence
           /\ UnstartedOrdersWait /\ PlannedAreNew /\ CheckedStaysFinished

\* The steps of orders, of which only completion asks for the work.
LEMMA OrderKeepsWork ==
    ASSUME Shaped, WorkInv, MoveOrder
    PROVE  WorkInv'
  <1> USE OperationsHaveAPlace DEF Shaped, OrderTypes
  <1>1. UNCHANGED <<operation, planning>>
    BY OrdersLeaveRest DEF work
  <1>2. RunsInSequence' /\ PlannedAreNew'
    BY <1>1 DEF WorkInv, RunsInSequence, PlannedAreNew, Before, WorkOf
  <1>3. ASSUME NEW o \in Orders, CheckCompletion(o) \/ AbandonCompletion(o)
        PROVE  WorkInv'
    <2>1. status' = status
      BY <1>3 DEF CheckCompletion, AbandonCompletion
    <2>2. UnstartedOrdersWait' /\ DoneMeansFinished'
      BY <1>1, <2>1 DEF WorkInv, UnstartedOrdersWait, DoneMeansFinished, WorkOf
    <2>3. CheckedStaysFinished'
      BY <1>1, <1>3, <2>1 DEF CheckCompletion, AbandonCompletion, WorkInv,
                              CheckedStaysFinished, WorkOf
    <2>4. QED
      BY <1>2, <2>2, <2>3 DEF WorkInv
  <1>4. ASSUME NEW o \in Orders,
               \/ MakeReady(o) \/ StartOrder(o) \/ CancelOrder(o)
               \/ \E q \in Quantities : CommitCompletion(o, q)
        PROVE  WorkInv'
    <2>1. PICK to \in OrderStatuses : status' = [status EXCEPT ![o] = to]
      BY <1>4 DEF MakeReady, StartOrder, CancelOrder, SetOrder, CommitCompletion,
                  OrderStatuses
    <2>2. /\ to = "ready" => status[o] = "draft"
          /\ to # "draft"
          /\ to = "done" => o \in completing
      BY <1>4, <2>1 DEF MakeReady, StartOrder, CancelOrder, SetOrder,
                        CommitCompletion
    <2>3. completing' \subseteq completing \ {o}
      BY <1>4 DEF MakeReady, StartOrder, CancelOrder, SetOrder, Free,
                  CommitCompletion
    <2>4. UnstartedOrdersWait'
      BY <1>1, <2>1, <2>2 DEF WorkInv, UnstartedOrdersWait
    <2>5. DoneMeansFinished'
      BY <1>1, <2>1, <2>2 DEF WorkInv, DoneMeansFinished, CheckedStaysFinished,
                              WorkOf
    <2>6. CheckedStaysFinished'
      BY <1>1, <2>1, <2>3 DEF WorkInv, CheckedStaysFinished, WorkOf
    <2>7. QED
      BY <1>2, <2>4, <2>5, <2>6 DEF WorkInv
  <1>5. QED
    BY <1>3, <1>4 DEF MoveOrder

\* An operation that is inserted waits, and is late if its order has started.
LEMMA InsertKeepsWork ==
    ASSUME Shaped, WorkInv, NEW p \in Operations, InsertOperation(p)
    PROVE  WorkInv'
  <1> USE OperationsHaveAPlace DEF Shaped, OrderTypes, WorkTypes
  <1>1. /\ operation'[p].status = "pending"
        /\ operation'[p].late = (status[PartOf[p]] \notin {"draft", "ready"})
        /\ operation'[p] # None
        /\ \A x \in Operations \ {p} : operation'[x] = operation[x]
        /\ status' = status
    <2> DEFINE late == status[PartOf[p]] \notin {"draft", "ready"}
               row == [status |-> "pending", override |-> FALSE,
                       reworked |-> FALSE, late |-> late]
    <2>1. late \in BOOLEAN
      OBVIOUS
    <2>2. row.late = late /\ row.status = "pending"
      OBVIOUS
    <2>3. row \in Operation
      <3> HIDE DEF late
      <3>1. QED
        BY <2>1 DEF Operation, OperationStatuses
    <2>4. operation' = [operation EXCEPT ![p] = row] /\ status' = status
      BY DEF InsertOperation
    <2> HIDE DEF row
    <2>5. QED
      BY <2>2, <2>3, <2>4, NoneIsNoWork
  <1>2. UnstartedOrdersWait'
    BY <1>1 DEF WorkInv, UnstartedOrdersWait
  <1>3. DoneMeansFinished'
    BY <1>1 DEF WorkInv, DoneMeansFinished, WorkOf
  <1>4. ASSUME NEW y \in Operations, operation'[y] # None,
               operation'[y].status = "in_progress", ~operation'[y].override,
               NEW x \in Operations, operation'[x] # None,
               PartOf[x] = PartOf[y], Place[x] < Place[y]
        PROVE  \/ operation'[x].status \in Finished
               \/ operation'[x].reworked \/ operation'[x].late
    <2>1. y # p /\ operation'[y] = operation[y]
      BY <1>1, <1>4
    <2>2. CASE x = p
      <3>1. status[PartOf[p]] \notin {"draft", "ready"}
        BY <1>4, <2>1, <2>2 DEF WorkInv, UnstartedOrdersWait
      <3>2. QED
        BY <1>1, <2>2, <3>1
    <2>3. CASE x # p
      BY <1>1, <1>4, <2>1, <2>3 DEF WorkInv, RunsInSequence, Before, WorkOf
    <2>4. QED
      BY <2>2, <2>3
  <1>5. RunsInSequence'
    BY <1>4 DEF RunsInSequence, Before, WorkOf
  <1>6. PlannedAreNew'
    BY <1>1 DEF WorkInv, PlannedAreNew, InsertOperation
  <1>7. CheckedStaysFinished'
    BY <1>1 DEF WorkInv, CheckedStaysFinished, WorkOf, InsertOperation, Free
  <1>8. QED
    BY <1>2, <1>3, <1>5, <1>6, <1>7 DEF WorkInv

\* What an operation that moves may become, seen from those behind it.
Moves(p) ==
    /\ status[PartOf[p]] = "in_progress" /\ status' = status
    /\ Free(PartOf[p]) /\ completing' = completing
    /\ planning' = planning
    /\ operation[p] # None /\ operation'[p] # None
    /\ \A x \in Operations \ {p} : operation'[x] = operation[x]
    /\ operation[p].late => operation'[p].late
    /\ operation[p].reworked => operation'[p].reworked
    /\ operation[p].status \in Finished =>
          operation'[p].status \in Finished \/ operation'[p].reworked
    /\ operation'[p].status = "in_progress" =>
          \/ operation'[p].override
          \/ \A x \in Before(p) : operation[x].status \in Finished

\* Every action on an operation is such a move.
LEMMA ActionsMove ==
    ASSUME Shaped, NEW p \in Operations,
           \/ \E override \in BOOLEAN : StartOperation(p, override)
           \/ CompleteOperation(p) \/ ReworkOperation(p) \/ CancelOperation(p)
    PROVE  Moves(p)
  <1> USE DEF Shaped
  <1>1. ASSUME NEW from, NEW row, MoveOperation(p, from, row),
               operation[p] # None => row \in Operation
        PROVE  /\ status[PartOf[p]] = "in_progress" /\ status' = status
               /\ Free(PartOf[p]) /\ completing' = completing
               /\ planning' = planning
               /\ operation[p] # None /\ operation'[p] # None
               /\ operation[p].status \in from /\ operation'[p] = row
               /\ \A x \in Operations \ {p} : operation'[x] = operation[x]
               /\ operation[p] \in Operation
    BY <1>1, NoneIsNoWork DEF MoveOperation, WorkTypes
  <1>2. ASSUME NEW override \in BOOLEAN, StartOperation(p, override)
        PROVE  Moves(p)
    <2> DEFINE row == [operation[p] EXCEPT !.status = "in_progress",
                                           !.override = override]
    <2>1. MoveOperation(p, {"pending", "rework"}, row)
      BY <1>2 DEF StartOperation
    <2>2. operation[p] # None => row \in Operation
      BY RowProperties
    <2>3. operation[p] \in Operation =>
             /\ row.late = operation[p].late
             /\ row.reworked = operation[p].reworked
             /\ row.override = override
      BY DEF Operation
    <2>4. override \/ \A x \in Before(p) : operation[x].status \in Finished
      BY <1>2 DEF StartOperation
    <2> HIDE DEF row
    <2>5. QED
      BY <1>1, <2>1, <2>2, <2>3, <2>4 DEF Moves, Finished
  <1>3. ASSUME CompleteOperation(p)
        PROVE  Moves(p)
    <2> DEFINE row == [operation[p] EXCEPT !.status = "done"]
    <2>1. MoveOperation(p, {"in_progress"}, row)
      BY <1>3 DEF CompleteOperation
    <2>2. operation[p] # None => row \in Operation
      BY RowProperties
    <2>3. operation[p] \in Operation =>
             /\ row.late = operation[p].late
             /\ row.reworked = operation[p].reworked
             /\ row.status = "done"
      BY DEF Operation
    <2> HIDE DEF row
    <2>4. QED
      BY <1>1, <2>1, <2>2, <2>3 DEF Moves, Finished
  <1>4. ASSUME ReworkOperation(p)
        PROVE  Moves(p)
    <2> DEFINE row == [operation[p] EXCEPT !.status = "rework", !.reworked = TRUE]
    <2>1. MoveOperation(p, {"done"}, row)
      BY <1>4 DEF ReworkOperation
    <2>2. operation[p] # None => row \in Operation
      BY RowProperties
    <2>3. operation[p] \in Operation =>
             /\ row.late = operation[p].late
             /\ row.reworked
             /\ row.status = "rework"
      BY DEF Operation
    <2> HIDE DEF row
    <2>4. QED
      BY <1>1, <2>1, <2>2, <2>3 DEF Moves
  <1>5. ASSUME CancelOperation(p)
        PROVE  Moves(p)
    <2> DEFINE row == [operation[p] EXCEPT !.status = "cancelled"]
    <2>1. MoveOperation(p, OperationStatuses \ Finished, row)
      BY <1>5 DEF CancelOperation
    <2>2. operation[p] # None => row \in Operation
      BY RowProperties
    <2>3. operation[p] \in Operation =>
             /\ row.late = operation[p].late
             /\ row.reworked = operation[p].reworked
             /\ row.status = "cancelled"
      BY DEF Operation
    <2> HIDE DEF row
    <2>4. QED
      BY <1>1, <2>1, <2>2, <2>3 DEF Moves
  <1>6. QED
    BY <1>2, <1>3, <1>4, <1>5

\* A move keeps the order of work.
LEMMA MoveKeepsWork ==
    ASSUME Shaped, WorkInv, NEW p \in Operations, Moves(p)
    PROVE  WorkInv'
  <1> USE OperationsHaveAPlace DEF Shaped, OrderTypes, WorkTypes
  <1>1. UnstartedOrdersWait'
    BY DEF Moves, WorkInv, UnstartedOrdersWait
  <1>2. DoneMeansFinished'
    BY DEF Moves, WorkInv, DoneMeansFinished, WorkOf
  <1>3. ASSUME NEW y \in Operations, operation'[y] # None,
               operation'[y].status = "in_progress", ~operation'[y].override,
               NEW x \in Operations, operation'[x] # None,
               PartOf[x] = PartOf[y], Place[x] < Place[y]
        PROVE  \/ operation'[x].status \in Finished
               \/ operation'[x].reworked \/ operation'[x].late
    <2>1. x # y /\ operation[x] # None /\ operation[y] # None
      BY <1>3 DEF Moves
    <2>2. CASE y = p
      BY <1>3, <2>1, <2>2 DEF Moves, Before, WorkOf
    <2>3. CASE y # p
      <3>1. \/ operation[x].status \in Finished
            \/ operation[x].reworked \/ operation[x].late
        BY <1>3, <2>1, <2>3 DEF Moves, WorkInv, RunsInSequence, Before, WorkOf
      <3>2. QED
        BY <3>1 DEF Moves
    <2>4. QED
      BY <2>2, <2>3
  <1>4. RunsInSequence'
    BY <1>3 DEF RunsInSequence, Before, WorkOf
  <1>5. PlannedAreNew'
    BY DEF Moves, WorkInv, PlannedAreNew
  <1>6. CheckedStaysFinished'
    BY DEF Moves, Free, WorkInv, CheckedStaysFinished, WorkOf
  <1>7. QED
    BY <1>1, <1>2, <1>4, <1>5, <1>6 DEF WorkInv

\* Every step keeps the order of work.
LEMMA WorkInvStep == Shaped /\ WorkInv /\ [ManufacturingNext]_allVars => WorkInv'
  <1> SUFFICES ASSUME Shaped, WorkInv, [ManufacturingNext]_allVars
               PROVE  WorkInv'
    OBVIOUS
  <1>1. CASE UNCHANGED <<status, operation, planning, completing>>
    BY <1>1 DEF WorkInv, DoneMeansFinished, RunsInSequence, UnstartedOrdersWait,
                PlannedAreNew, CheckedStaysFinished, Before, WorkOf
  <1>2. CASE ReserveForOrder \/ HandleMaterial \/ UseStock
    BY <1>1, <1>2, StockLeavesWork DEF work
  <1>3. ASSUME NEW p \in Operations, PlanOperation(p)
        PROVE  WorkInv'
    BY <1>3 DEF PlanOperation, WorkInv, DoneMeansFinished, RunsInSequence,
                UnstartedOrdersWait, PlannedAreNew, CheckedStaysFinished, Before,
                WorkOf
  <1>4. ASSUME NEW x \in Inspected, Judge(x)
        PROVE  WorkInv'
    BY <1>1, <1>4 DEF Judge
  <1>5. CASE DoWork
    BY <1>3, <1>4, <1>5, InsertKeepsWork, ActionsMove, MoveKeepsWork DEF DoWork
  <1>6. CASE UNCHANGED allVars
    BY <1>1, <1>6 DEF allVars, work
  <1>7. QED
    BY <1>2, <1>5, <1>6, OrderKeepsWork DEF ManufacturingNext

LEMMA WorkInvAlways == ManufacturingSpec => []WorkInv
  <1>1. ManufacturingInit => WorkInv
    BY DEF ManufacturingInit, WorkInv, DoneMeansFinished, RunsInSequence,
           UnstartedOrdersWait, PlannedAreNew, CheckedStaysFinished, Before,
           WorkOf
  <1>2. MInv => Shaped
    BY DEF MInv, Shaped
  <1>3. QED
    BY <1>1, <1>2, ManufacturingInvInit, ManufacturingInvStep, WorkInvStep, PTL
       DEF ManufacturingSpec

\* A completed order has no operation left to do, whatever was planned late,
\* started out of turn, sent back or cancelled.
THEOREM DoneOrdersAreFinished == ManufacturingSpec => []DoneMeansFinished
  <1>1. WorkInv => DoneMeansFinished
    BY DEF WorkInv
  <1>2. QED
    BY <1>1, WorkInvAlways, PTL

\* Unless it was started out of turn, what runs has nothing unfinished before
\* it but work that was sent back or that arrived late.
THEOREM WorkRunsInSequence == ManufacturingSpec => []RunsInSequence
  <1>1. WorkInv => RunsInSequence
    BY DEF WorkInv
  <1>2. QED
    BY <1>1, WorkInvAlways, PTL

-----------------------------------------------------------------------------
(* Traces: what the tables say and what the ledger moved.                  *)

\* The prefixes of the keys under which manufacturing moves stock.
OwnKeys == {"production-reservation", "manufacturing-supplemental",
            "manufacturing-remnant"}

\* A movement of a reservation has a row to name.  Without it the owner of the
\* reservation it names could still change.
TakenIsTraced(k) ==
    LET reserved == movement[<<"production-reservation", k>>]
        free == movement[<<"manufacturing-supplemental", k>>]
    IN  /\ consumption[k] = None <=> reserved = None /\ free = None
        /\ reserved = None \/ free = None
        /\ reserved # None =>
              /\ reserved.quantity = consumption[k].quantity
              /\ reserved.reservation = consumption[k].reservation
              /\ owner[reserved.reservation] = consumption[k].order
              /\ reserved.reservation \in Reservations
              /\ reservation[reserved.reservation] # None
        /\ free # None => /\ free.quantity = consumption[k].quantity
                          /\ consumption[k].reservation = None

BackIsTraced(k) ==
    LET back == movement[<<"manufacturing-remnant", k>>]
    IN  /\ remnant[k] = None <=> back = None
        /\ back # None => /\ back.quantity = remnant[k].quantity
                          /\ back.lot = remnant[k].lot

Traces == \A k \in Keys : TakenIsTraced(k) /\ BackIsTraced(k)

\* Reservations are never deleted, and their order is written once.
OwnersStay ==
    \A r \in Reservations : reservation[r] # None =>
       reservation'[r] # None /\ owner'[r] = owner[r]

\* No step of the stock or of manufacturing breaks that.
LEMMA OwnersAreKept ==
    ASSUME MInv, ManufacturingNext
    PROVE  OwnersStay
  <1>1. TypeOK /\ MaterialTypes
    BY DEF MInv, IInv
  <1>2. ASSUME NEW r \in Reservations, reservation[r] # None
        PROVE  reservation'[r] # None
    <2>1. CASE UNCHANGED reservation
      BY <1>2, <2>1
    <2>2. CASE ProductionNext
      BY <1>1, <1>2, <2>2, StepMovesForward DEF MovesForward
    <2>3. CASE \E o \in Orders, q \in Quantities, k \in Keys, l \in Locations :
                  \/ \E t \in Lots \union {None} : ConsumeSupplemental(o, k, q, l, t)
                  \/ \E t \in Lots : RecordRemnant(o, k, q, l, t)
      <3>1. ASSUME NEW o, NEW q, NEW k, NEW l, NEW t,
                   ConsumeSupplemental(o, k, q, l, t) \/ RecordRemnant(o, k, q, l, t)
            PROVE  UNCHANGED reservation
        BY <3>1, Zenon DEF ConsumeSupplemental, ApplyStockMovement, RecordRemnant
      <3>2. QED
        BY <2>1, <2>3, <3>1
    <2>4. UNCHANGED vars => UNCHANGED reservation
      BY DEF vars
    <2>5. QED
      BY <2>1, <2>2, <2>3, <2>4, StepOfStock
  <1>3. ASSUME NEW r \in Reservations, NEW o \in Orders \union {None},
               reservation[r] = None, owner' = [owner EXCEPT ![r] = o]
        PROVE  \A n \in Reservations : reservation[n] # None => owner'[n] = owner[n]
    BY <1>1, <1>3 DEF MaterialTypes
  <1>4. CASE UNCHANGED owner
    BY <1>2, <1>4 DEF OwnersStay
  <1>5. CASE MoveOrder \/ DoWork
    BY <1>4, <1>5, OrdersLeaveRest, WorkLeavesRest DEF stock
  <1>6. CASE HandleMaterial
    <2>1. \/ \E o, k, q, r : Consume(o, k, q, r)
          \/ \E o, k, q, l, t : RecordRemnant(o, k, q, l, t)
      BY <1>6, Zenon DEF HandleMaterial, ConsumeReserved, ConsumeSupplemental
    <2>2. QED
      BY <1>4, <2>1 DEF Consume, RecordRemnant
  <1>7. CASE ReserveForOrder
    BY <1>2, <1>3, <1>7 DEF ReserveForOrder, ReserveMaterials, ReserveStock, OwnersStay
  <1>8. CASE UseStock
    BY <1>2, <1>3, <1>4, <1>8 DEF UseStock, ReserveStock, OwnersStay
  <1>9. QED
    BY <1>5, <1>6, <1>7, <1>8 DEF ManufacturingNext

\* A step that leaves the movements and rows of a key alone leaves it traced.
LEMMA TakenStays ==
    ASSUME OwnersStay, NEW k \in Keys, TakenIsTraced(k),
           movement'[<<"production-reservation", k>>]
             = movement[<<"production-reservation", k>>],
           movement'[<<"manufacturing-supplemental", k>>]
             = movement[<<"manufacturing-supplemental", k>>],
           consumption'[k] = consumption[k]
    PROVE  TakenIsTraced(k)'
  BY DEF TakenIsTraced, OwnersStay

\* The same of remnants.
LEMMA BackStays ==
    ASSUME NEW k \in Keys, BackIsTraced(k), remnant'[k] = remnant[k],
           movement'[<<"manufacturing-remnant", k>>]
             = movement[<<"manufacturing-remnant", k>>]
    PROVE  BackIsTraced(k)'
  BY DEF BackIsTraced

\* Recording a movement changes no other key.
LEMMA OtherKeysStay ==
    ASSUME TypeOK, NEW i \in MovementKeys, NEW j \in MovementKeys, i # j,
           NEW m, Record(j, m)
    PROVE  movement'[i] = movement[i]
  BY DEF Record, TypeOK

\* Keys of manufacturing are keys of the ledger.
LEMMA OwnKeysAreKeys == \A s \in OwnKeys, k \in Keys : <<s, k>> \in MovementKeys
  BY DEF OwnKeys, MovementKeys

\* The endpoints of the stock never write under a key of manufacturing.
LEMMA StockLeavesTraces ==
    ASSUME MInv, UseStock \/ ReserveForOrder, NEW s \in OwnKeys, NEW k \in Keys
    PROVE  movement'[<<s, k>>] = movement[<<s, k>>]
  <1> DEFINE i == <<s, k>>
  <1>1. TypeOK /\ i \in MovementKeys
    BY OwnKeysAreKeys DEF MInv, IInv
  <1>2. CASE UNCHANGED movement
    BY <1>2
  <1>3. CASE ApplyRequestedMovement
    <2>1. PICK n \in Keys : \E m : Record(<<"request", n>>, m)
      BY <1>3 DEF ApplyRequestedMovement, ApplyStockMovement
    <2>2. <<"request", n>> \in MovementKeys /\ <<"request", n>> # i
      BY DEF MovementKeys, OwnKeys
    <2>3. QED
      BY <1>1, <2>1, <2>2, OtherKeysStay
  <1>4. CASE CreateLots \/ EditLots
    <2>1. ASSUME NEW t \in Lots, NEW l \in Locations, NEW q, CreateLot(t, l, q)
          PROVE  movement'[i] = movement[i]
      <3>1. <<"lot-open", t>> \in MovementKeys /\ <<"lot-open", t>> # i
        BY DEF MovementKeys, OwnKeys
      <3>2. QED
        BY <1>1, <2>1, <3>1, OtherKeysStay DEF CreateLot
    <2>2. EditLots => UNCHANGED movement
      BY DEF EditLots, ReadLot, SaveLot, AbandonEdit
    <2>3. QED
      BY <1>2, <1>4, <2>1, <2>2 DEF CreateLots
  <1>5. ASSUME NEW r \in Reservations, ConsumeReservation(r)
        PROVE  movement'[i] = movement[i]
    <2>1. /\ <<"reservation-consume", r>> \in MovementKeys
          /\ <<"reservation-consume", r>> # i
      BY DEF MovementKeys, OwnKeys
    <2>2. QED
      BY <1>1, <1>5, <2>1, OtherKeysStay DEF ConsumeReservation
  <1>6. CASE SettleReservation
    BY <1>2, <1>5, <1>6 DEF SettleReservation, StartReservationProduction,
                            ReleaseReservation
  <1>7. ASSUME NEW r, NEW l, NEW q, NEW t, ReserveStock(r, l, q, t)
        PROVE  UNCHANGED movement
    BY <1>7 DEF ReserveStock
  <1>8. QED
    BY <1>2, <1>3, <1>4, <1>6, <1>7 DEF UseStock, ReserveForOrder, ReserveMaterials

\* A consumption of a reserved quantity writes its row and its movement together.
LEMMA ReservedKeepsTraces ==
    ASSUME MInv, Traces, OwnersStay, NEW o \in Orders, NEW k \in Keys,
           NEW q \in Quantities, NEW r \in Reservations, ConsumeReserved(o, k, q, r)
    PROVE  Traces'
  <1> DEFINE key == <<"production-reservation", k>>
             row == [order |-> o, quantity |-> q, reservation |-> r]
             m == [type |-> "production_consumption", quantity |-> q,
                   source |-> reservation[r].location, destination |-> None,
                   lot |-> reservation[r].lot, reservation |-> r]
  <1>1. TypeOK /\ MaterialTypes /\ key \in MovementKeys
    BY OwnKeysAreKeys DEF MInv, IInv, OwnKeys
  <1>2. /\ Open(r) /\ Record(key, m) /\ owner[r] = o /\ remnant' = remnant
        /\ consumption[k] = None
        /\ consumption' = [consumption EXCEPT ![k] = row]
    BY DEF ConsumeReserved, ConsumeReservedQuantity, Consume
  <1>3. /\ m \in Movement /\ m.quantity = q /\ m.reservation = r
        /\ row \in Consumption /\ row # None
        /\ row.order = o /\ row.quantity = q /\ row.reservation = r
    BY <1>1, <1>2, OpenProperties, QuantityIsPositive, NoneIsNoWork
       DEF Movement, MovementTypes, Outbound, Consumption
  <1> HIDE DEF row, m
  <1>4. \A s \in OwnKeys, n \in Keys : <<s, n>> # key =>
            movement'[<<s, n>>] = movement[<<s, n>>]
    BY <1>1, <1>2, OtherKeysStay, OwnKeysAreKeys
  <1>5. ASSUME NEW n \in Keys
        PROVE  BackIsTraced(n)'
    BY <1>2, <1>4, BackStays DEF Traces, OwnKeys
  <1>6. ASSUME NEW n \in Keys, n # k
        PROVE  TakenIsTraced(n)'
    BY <1>1, <1>2, <1>4, <1>6, TakenStays DEF Traces, OwnKeys, MaterialTypes
  <1>7. TakenIsTraced(k)'
    <2>1. movement'[key] = m /\ m # None /\ consumption'[k] = row
      BY <1>1, <1>2, <1>3, RecordProperties DEF TypeOK, MaterialTypes
    <2>2. movement'[<<"manufacturing-supplemental", k>>] = None
      BY <1>2, <1>4 DEF Traces, TakenIsTraced, OwnKeys
    <2>3. owner'[r] = o /\ reservation'[r] # None
      BY <1>2 DEF OwnersStay, Open
    <2>4. QED
      BY <1>3, <2>1, <2>2, <2>3 DEF TakenIsTraced
  <1>8. QED
    BY <1>5, <1>6, <1>7 DEF Traces

\* So does a supplemental consumption.
LEMMA SupplementalKeepsTraces ==
    ASSUME MInv, Traces, OwnersStay, NEW o \in Orders, NEW k \in Keys,
           NEW q \in Quantities, NEW l \in Locations, NEW t \in Lots \union {None},
           ConsumeSupplemental(o, k, q, l, t)
    PROVE  Traces'
  <1> DEFINE key == <<"manufacturing-supplemental", k>>
             row == [order |-> o, quantity |-> q, reservation |-> None]
             m == [type |-> "production_consumption", quantity |-> q,
                   source |-> l, destination |-> None, lot |-> t,
                   reservation |-> None]
  <1>1. TypeOK /\ MaterialTypes /\ key \in MovementKeys
    BY OwnKeysAreKeys DEF MInv, IInv, OwnKeys
  <1>2. /\ Record(key, m) /\ remnant' = remnant /\ consumption[k] = None
        /\ consumption' = [consumption EXCEPT ![k] = row]
    BY DEF ConsumeSupplemental, ApplyStockMovement, Consume
  <1>3. /\ m \in Movement /\ m.quantity = q
        /\ row \in Consumption /\ row # None
        /\ row.quantity = q /\ row.reservation = None
    BY QuantityIsPositive, NoneIsNoWork
       DEF Movement, MovementTypes, Outbound, Consumption
  <1> HIDE DEF row, m
  <1>4. \A s \in OwnKeys, n \in Keys : <<s, n>> # key =>
            movement'[<<s, n>>] = movement[<<s, n>>]
    BY <1>1, <1>2, OtherKeysStay, OwnKeysAreKeys
  <1>5. ASSUME NEW n \in Keys
        PROVE  BackIsTraced(n)'
    BY <1>2, <1>4, BackStays DEF Traces, OwnKeys
  <1>6. ASSUME NEW n \in Keys, n # k
        PROVE  TakenIsTraced(n)'
    BY <1>1, <1>2, <1>4, <1>6, TakenStays DEF Traces, OwnKeys, MaterialTypes
  <1>7. TakenIsTraced(k)'
    <2>1. movement'[key] = m /\ m # None /\ consumption'[k] = row
      BY <1>1, <1>2, <1>3, RecordProperties DEF TypeOK, MaterialTypes
    <2>2. movement'[<<"production-reservation", k>>] = None
      BY <1>2, <1>4 DEF Traces, TakenIsTraced, OwnKeys
    <2>3. QED
      BY <1>3, <2>1, <2>2 DEF TakenIsTraced
  <1>8. QED
    BY <1>5, <1>6, <1>7 DEF Traces

\* And so does the return of a remnant.
LEMMA RemnantKeepsTraces ==
    ASSUME MInv, Traces, OwnersStay, NEW o \in Orders, NEW k \in Keys,
           NEW q \in Quantities, NEW l \in Locations, NEW t \in Lots,
           RecordRemnant(o, k, q, l, t)
    PROVE  Traces'
  <1> DEFINE key == <<"manufacturing-remnant", k>>
             row == [order |-> o, quantity |-> q, lot |-> t]
             m == [type |-> "return_in", quantity |-> q, source |-> None,
                   destination |-> l, lot |-> t, reservation |-> None]
  <1>1. TypeOK /\ MaterialTypes /\ key \in MovementKeys
    BY OwnKeysAreKeys DEF MInv, IInv, OwnKeys
  <1>2. /\ Record(key, m) /\ consumption' = consumption
        /\ remnant' = [remnant EXCEPT ![k] = row]
    BY DEF RecordRemnant
  <1>3. /\ m \in Movement /\ m.quantity = q /\ m.lot = t
        /\ row \in Remnant /\ row # None /\ row.quantity = q /\ row.lot = t
    BY QuantityIsPositive, NoneIsNoWork DEF Movement, MovementTypes, Inbound, Remnant
  <1> HIDE DEF row, m
  <1>4. \A s \in OwnKeys, n \in Keys : <<s, n>> # key =>
            movement'[<<s, n>>] = movement[<<s, n>>]
    BY <1>1, <1>2, OtherKeysStay, OwnKeysAreKeys
  <1>5. ASSUME NEW n \in Keys
        PROVE  TakenIsTraced(n)'
    BY <1>2, <1>4, TakenStays DEF Traces, OwnKeys
  <1>6. ASSUME NEW n \in Keys, n # k
        PROVE  BackIsTraced(n)'
    BY <1>1, <1>2, <1>4, <1>6, BackStays DEF Traces, OwnKeys, MaterialTypes
  <1>7. BackIsTraced(k)'
    <2>1. movement'[key] = m /\ m # None /\ remnant'[k] = row
      BY <1>1, <1>2, <1>3, RecordProperties DEF TypeOK, MaterialTypes
    <2>2. QED
      BY <1>3, <2>1 DEF BackIsTraced
  <1>8. QED
    BY <1>5, <1>6, <1>7 DEF Traces

\* Every step keeps the traces.
LEMMA TracesStep == MInv /\ Traces /\ [ManufacturingNext]_allVars => Traces'
  <1> SUFFICES ASSUME MInv, Traces, [ManufacturingNext]_allVars
               PROVE  Traces'
    OBVIOUS
  <1>1. CASE UNCHANGED <<stock, material>>
    BY <1>1 DEF Traces, TakenIsTraced, BackIsTraced, stock, material
  <1>2. CASE MoveOrder \/ DoWork
    BY <1>1, <1>2, OrdersLeaveRest, WorkLeavesRest
  <1>3. CASE UseStock \/ ReserveForOrder
    <2>1. OwnersStay
      BY <1>3, OwnersAreKept DEF ManufacturingNext
    <2>2. UNCHANGED <<consumption, remnant>>
      BY <1>3 DEF UseStock, ReserveForOrder, ReserveMaterials, material
    <2>3. \A s \in OwnKeys, k \in Keys : movement'[<<s, k>>] = movement[<<s, k>>]
      BY <1>3, StockLeavesTraces
    <2>4. QED
      BY <2>1, <2>2, <2>3, TakenStays, BackStays DEF Traces, OwnKeys
  <1>4. CASE HandleMaterial
    <2>1. OwnersStay
      BY <1>4, OwnersAreKept DEF ManufacturingNext
    <2>2. QED
      BY <1>4, <2>1, ReservedKeepsTraces, SupplementalKeepsTraces,
         RemnantKeepsTraces DEF HandleMaterial
  <1>5. QED
    BY <1>1, <1>2, <1>3, <1>4 DEF ManufacturingNext, allVars

\* Every consumption and every remnant is backed by its own movement, of the
\* same quantity, reservation and lot, and nothing moved without its row: the
\* tables of manufacturing and the ledger never disagree on material.
THEOREM MaterialTraced == ManufacturingSpec => []MaterialIsTraced
  <1>1. ManufacturingInit => Traces
    BY OwnKeysAreKeys DEF ManufacturingInit, Init, Traces, TakenIsTraced,
                          BackIsTraced, OwnKeys
  <1>2. Traces => MaterialIsTraced
    BY DEF Traces, TakenIsTraced, BackIsTraced, MaterialIsTraced
  <1>3. QED
    BY <1>1, <1>2, TracesStep, ManufacturingInvInit, ManufacturingInvStep, PTL
       DEF ManufacturingSpec

-----------------------------------------------------------------------------
(* Reservations under manufacturing: what is consumed of them, and what the *)
(* buckets hold for them.                                                   *)

\* A remnant comes from no reservation and enters free stock.
LEMMA RemnantIdles ==
    ASSUME TypeOK, IsFiniteSet(Recorded), NEW o \in Orders, NEW k \in Keys,
           NEW q \in Quantities, NEW l \in Locations, NEW t \in Lots,
           RecordRemnant(o, k, q, l, t)
    PROVE  Idles /\ IsFiniteSet(Recorded')
  <1> DEFINE m == [type |-> "return_in", quantity |-> q, source |-> None,
                   destination |-> l, lot |-> t, reservation |-> None]
             key == <<"manufacturing-remnant", k>>
  <1>1. /\ m \in Movement /\ Record(key, m) /\ m.reservation = None
        /\ key \in MovementKeys /\ \A r \in Reservations : key # ConsumptionOf(r)
    BY QuantityIsPositive
       DEF RecordRemnant, Movement, MovementTypes, Inbound, MovementKeys,
           ConsumptionOf
  <1> HIDE DEF m, key
  <1>2. \A n \in Locations, b \in {"reserved", "in_production"} :
           position'[n][b] = position[n][b]
    BY DEF RecordRemnant, Add, TypeOK, Buckets
  <1>3. UNCHANGED reservation
    BY DEF RecordRemnant
  <1>4. QED
    BY <1>1, <1>2, <1>3, MovementIdles

\* Supplemental consumption takes free stock and names no reservation.
LEMMA SupplementalIdles ==
    ASSUME TypeOK, IsFiniteSet(Recorded), NEW o \in Orders, NEW k \in Keys,
           NEW q \in Quantities, NEW l \in Locations,
           NEW t \in Lots \union {None}, ConsumeSupplemental(o, k, q, l, t)
    PROVE  Idles /\ IsFiniteSet(Recorded')
  <1> DEFINE key == <<"manufacturing-supplemental", k>>
             ends == [source |-> l, destination |-> None]
  <1>1. /\ key \in MovementKeys /\ q \in Nat
        /\ "production_consumption" \in MovementTypes
        /\ ends \in EndsOf("production_consumption")
        /\ \A r \in Reservations : key # ConsumptionOf(r)
    BY QuantityIsPositive DEF MovementKeys, MovementTypes, Outbound, Inbound, EndsOf,
                              ConsumptionOf
  <1>2. ApplyStockMovement(key, "production_consumption", q,
                           ends.source, ends.destination, t)
    BY DEF ConsumeSupplemental
  <1>3. QED
    BY <1>1, <1>2, ApplyIdles

\* Every step of manufacturing and of the stock endpoints keeps Backing.
LEMMA StockBacks == IInv /\ Backing /\ [ManufacturingNext]_allVars => Backing'
  <1> SUFFICES ASSUME IInv, Backing, [ManufacturingNext]_allVars
               PROVE  Backing'
    OBVIOUS
  <1>1. TypeOK /\ IsFiniteSet(Recorded)
    BY DEF IInv, Backing, Measuring
  <1>2. CASE [ProductionNext]_vars
    BY <1>2, BackingStep DEF Backing
  <1>3. CASE \E o \in Orders, q \in Quantities, k \in Keys, l \in Locations :
                \/ \E t \in Lots \union {None} : ConsumeSupplemental(o, k, q, l, t)
                \/ \E t \in Lots : RecordRemnant(o, k, q, l, t)
    BY <1>1, <1>3, SupplementalIdles, RemnantIdles, IdlingBacks
  <1>4. UNCHANGED allVars => UNCHANGED vars
    BY DEF allVars, stock, vars
  <1>5. QED
    BY <1>2, <1>3, <1>4, StepOfStock

LEMMA StockBackedAlways == ManufacturingSpec => [](IInv /\ Backing)
  <1>1. ManufacturingInit => IInv /\ Backing
    BY InitInvariant, InitBacking DEF ManufacturingInit
  <1>2. QED
    BY <1>1, StockStep, StockBacks, PTL DEF ManufacturingSpec

\* However orders consume a reservation in parts, by whichever keys, and
\* whatever the stock endpoints do to it in between: the parts never take more
\* than it reserved, and only consume_reservation, once, takes more.
THEOREM ConsumptionStaysWithin == ManufacturingSpec => []PartsWithinReservation
  <1>1. IInv /\ Backing => PartsWithinReservation
    BY MeasuredParts DEF IInv, Backing
  <1>2. QED
    BY <1>1, StockBackedAlways, PTL

\* Over any such sequence, the two buckets of a location hold what was reserved
\* there and not released, less all that was consumed.
THEOREM HeldStockIsOwed == ManufacturingSpec => []HeldIsOwed
  <1>1. Backing => HeldIsOwed
    BY DEF Backing
  <1>2. QED
    BY <1>1, StockBackedAlways, PTL

-----------------------------------------------------------------------------
(* What orders consume and give back.                                      *)

RowsOf(rows, o) == {k \in Keys : rows[k] # None /\ rows[k].order = o}

Amount(rows, o) == SumFunction([k \in RowsOf(rows, o) |-> rows[k].quantity])

Used(rows) == {k \in Keys : rows[k] # None}

\* Gross and GivenBack are such sums over the two tables.
LEMMA AmountsAre ==
    ASSUME NEW o
    PROVE  /\ Gross(o) = Amount(consumption, o)
           /\ GivenBack(o) = Amount(remnant, o)
           /\ Gross(o)' = Amount(consumption', o)
           /\ GivenBack(o)' = Amount(remnant', o)
  BY DEF Gross, GivenBack, TakenFor, ReturnedBy, Amount, RowsOf

\* The table more has a row under a key that is free in rows.
RowAdded(rows, more, k, row) ==
    /\ \A j \in Keys : rows[j] # None => rows[j].quantity \in Nat
    /\ rows[k] = None /\ more[k] = row
    /\ row # None /\ row.quantity \in Nat
    /\ \A j \in Keys \ {k} : more[j] = rows[j]

\* A row under a free key adds its quantity to its own order only.
LEMMA RowAdds ==
    ASSUME NEW rows, IsFiniteSet(Used(rows)), NEW k \in Keys, NEW row, NEW more,
           RowAdded(rows, more, k, row), NEW o
    PROVE  /\ IsFiniteSet(Used(more))
           /\ Amount(rows, o) \in Nat
           /\ Amount(more, o)
                = Amount(rows, o) + (IF row.order = o THEN row.quantity ELSE 0)
  <1> DEFINE S == RowsOf(rows, o)
             T == RowsOf(more, o)
             f == [j \in S |-> rows[j].quantity]
             g == [j \in T |-> more[j].quantity]
  <1>1. IsFiniteSet(Used(more))
    <2>1. Used(more) = Used(rows) \union {k}
      BY DEF Used, RowAdded
    <2>2. QED
      BY <2>1, FS_AddElement
  <1>2. IsFiniteSet(S)
    BY FS_Subset DEF RowsOf, Used
  <1>3. /\ k \notin S /\ S \ {k} = T \ {k}
        /\ k \in T <=> row.order = o
    BY DEF RowsOf, RowAdded
  <1>4. /\ \A j \in S : f[j] \in Nat
        /\ \A j \in T : g[j] \in Nat
        /\ \A j \in S \ {k} : g[j] = f[j]
        /\ k \in T => g[k] = row.quantity
    BY DEF RowsOf, RowAdded
  <1>5. /\ Amount(rows, o) = SumFunctionOnSet(f, S)
        /\ Amount(more, o) = SumFunctionOnSet(g, T)
    BY DEF Amount, SumFunction
  <1> HIDE DEF S, T, f, g
  <1>6. SumFunctionOnSet(f, S) \in Nat
    BY <1>2, <1>4, SumIsNatural
  <1>7. SumFunctionOnSet(g, T)
           = SumFunctionOnSet(f, S) - Share(f, S, k) + Share(g, T, k)
    BY <1>2, <1>3, <1>4, SumChanges
  <1>8. /\ Share(f, S, k) = 0
        /\ Share(g, T, k) = IF row.order = o THEN row.quantity ELSE 0
    BY <1>3, <1>4 DEF Share
  <1>9. QED
    BY <1>1, <1>5, <1>6, <1>7, <1>8

\* The two tables are finite, and no order gives back more than it took.
AmountInv ==
    /\ IsFiniteSet(Used(consumption)) /\ IsFiniteSet(Used(remnant))
    /\ RemnantsWithinConsumption

\* Both amounts are natural numbers.
LEMMA AmountsAreNatural ==
    ASSUME MaterialTypes, IsFiniteSet(Used(consumption)),
           IsFiniteSet(Used(remnant)), NEW o
    PROVE  Gross(o) \in Nat /\ GivenBack(o) \in Nat
  <1> DEFINE f == [k \in TakenFor(o) |-> consumption[k].quantity]
             g == [k \in ReturnedBy(o) |-> remnant[k].quantity]
  <1>1. IsFiniteSet(TakenFor(o)) /\ IsFiniteSet(ReturnedBy(o))
    BY FS_Subset DEF TakenFor, ReturnedBy, Used
  <1>2. /\ \A k \in TakenFor(o) : f[k] \in Nat
        /\ \A k \in ReturnedBy(o) : g[k] \in Nat
    BY DEF TakenFor, ReturnedBy, MaterialTypes, Consumption, Remnant
  <1>3. /\ Gross(o) = SumFunctionOnSet(f, TakenFor(o))
        /\ GivenBack(o) = SumFunctionOnSet(g, ReturnedBy(o))
    BY DEF Gross, GivenBack, SumFunction
  <1> HIDE DEF f, g
  <1>4. QED
    BY <1>1, <1>2, <1>3, SumIsNatural

\* A consumption adds to what its order took, and to no other.
LEMMA ConsumeAdds ==
    ASSUME MaterialTypes, IsFiniteSet(Used(consumption)), NEW k \in Keys,
           NEW x \in Orders, NEW q \in Quantities,
           NEW r \in Reservations \union {None}, Consume(x, k, q, r)
    PROVE  /\ IsFiniteSet(Used(consumption)')
           /\ \A o \in Orders :
                /\ Gross(o) \in Nat
                /\ Gross(o)' = Gross(o) + (IF x = o THEN q ELSE 0)
                /\ GivenBack(o)' = GivenBack(o)
  <1> DEFINE row == [order |-> x, quantity |-> q, reservation |-> r]
  <1>1. /\ row \in Consumption /\ row # None /\ row.quantity = q
        /\ row.order = x /\ q \in Nat
    BY QuantityIsPositive, NoneIsNoWork DEF Consumption
  <1>2. /\ consumption[k] = None
        /\ consumption' = [consumption EXCEPT ![k] = row]
        /\ remnant' = remnant
    BY DEF Consume
  <1> HIDE DEF row
  <1>3. RowAdded(consumption, consumption', k, row)
    BY <1>1, <1>2 DEF RowAdded, MaterialTypes, Consumption
  <1>4. ASSUME NEW o
        PROVE  /\ IsFiniteSet(Used(consumption'))
               /\ Amount(consumption, o) \in Nat
               /\ Amount(consumption', o) = Amount(consumption, o)
                     + (IF row.order = o THEN row.quantity ELSE 0)
    BY <1>3, RowAdds
  <1>5. Used(consumption)' = Used(consumption')
    BY DEF Used
  <1>6. QED
    BY <1>1, <1>2, <1>4, <1>5, AmountsAre

\* A remnant adds to what its order gave back, and to no other.
LEMMA RemnantAdds ==
    ASSUME MaterialTypes, IsFiniteSet(Used(remnant)), NEW x \in Orders,
           NEW k \in Keys, NEW q \in Quantities, NEW l \in Locations,
           NEW t \in Lots, RecordRemnant(x, k, q, l, t)
    PROVE  /\ IsFiniteSet(Used(remnant)')
           /\ \A o \in Orders :
                /\ GivenBack(o) \in Nat
                /\ GivenBack(o)' = GivenBack(o) + (IF x = o THEN q ELSE 0)
                /\ Gross(o)' = Gross(o)
  <1> DEFINE row == [order |-> x, quantity |-> q, lot |-> t]
  <1>1. /\ row \in Remnant /\ row # None /\ row.quantity = q
        /\ row.order = x /\ q \in Nat
    BY QuantityIsPositive, NoneIsNoWork DEF Remnant
  <1>2. /\ remnant[k] = None
        /\ remnant' = [remnant EXCEPT ![k] = row]
        /\ consumption' = consumption
    BY DEF RecordRemnant
  <1> HIDE DEF row
  <1>3. RowAdded(remnant, remnant', k, row)
    BY <1>1, <1>2 DEF RowAdded, MaterialTypes, Remnant
  <1>4. ASSUME NEW o
        PROVE  /\ IsFiniteSet(Used(remnant'))
               /\ Amount(remnant, o) \in Nat
               /\ Amount(remnant', o) = Amount(remnant, o)
                     + (IF row.order = o THEN row.quantity ELSE 0)
    BY <1>3, RowAdds
  <1>5. Used(remnant)' = Used(remnant')
    BY DEF Used
  <1>6. QED
    BY <1>1, <1>2, <1>4, <1>5, AmountsAre

\* Rows that stay leave both amounts alone.
LEMMA AmountsStay ==
    ASSUME UNCHANGED material, NEW o
    PROVE  Gross(o)' = Gross(o) /\ GivenBack(o)' = GivenBack(o)
  BY DEF material, Gross, GivenBack, TakenFor, ReturnedBy

\* What a step does to the two tables: nothing, or one row of an order that is
\* in progress.
LEMMA StepOfMaterial ==
    ASSUME [ManufacturingNext]_allVars
    PROVE  \/ UNCHANGED material
           \/ \E o \in Orders, q \in Quantities, k \in Keys :
                /\ status[o] = "in_progress"
                /\ \/ \E r \in Reservations \union {None} : Consume(o, k, q, r)
                   \/ \E l \in Locations, t \in Lots : RecordRemnant(o, k, q, l, t)
  <1>1. CASE MoveOrder \/ DoWork \/ UNCHANGED allVars
    BY <1>1, OrdersLeaveRest, WorkLeavesRest DEF allVars
  <1>2. CASE ReserveForOrder \/ UseStock
    BY <1>2 DEF ReserveForOrder, ReserveMaterials, UseStock
  <1>3. CASE HandleMaterial
    <2>1. PICK o \in Orders, q \in Quantities, k \in Keys, l \in Locations :
             \/ \E r \in Reservations : ConsumeReserved(o, k, q, r)
             \/ \E t \in Lots \union {None} : ConsumeSupplemental(o, k, q, l, t)
             \/ \E t \in Lots : RecordRemnant(o, k, q, l, t)
      BY <1>3 DEF HandleMaterial
    <2>2. status[o] = "in_progress"
      BY <2>1 DEF ConsumeReserved, ConsumeSupplemental, RecordRemnant
    <2>3. \/ \E r \in Reservations \union {None} : Consume(o, k, q, r)
          \/ \E t \in Lots : RecordRemnant(o, k, q, l, t)
      BY <2>1 DEF ConsumeReserved, ConsumeSupplemental
    <2>4. QED
      BY <2>2, <2>3
  <1>4. QED
    BY <1>1, <1>2, <1>3 DEF ManufacturingNext

\* Every step keeps what is given back within what was taken.
LEMMA AmountStep == MInv /\ AmountInv /\ [ManufacturingNext]_allVars => AmountInv'
  <1> SUFFICES ASSUME MInv, AmountInv, [ManufacturingNext]_allVars
               PROVE  AmountInv'
    OBVIOUS
  <1> USE DEF AmountInv, RemnantsWithinConsumption
  <1>1. MaterialTypes
    BY DEF MInv
  <1>2. CASE UNCHANGED material
    <2>1. Used(consumption)' = Used(consumption) /\ Used(remnant)' = Used(remnant)
      BY <1>2 DEF material, Used
    <2>2. QED
      BY <1>2, <2>1, AmountsStay
  <1>3. ASSUME NEW x \in Orders, NEW q \in Quantities, NEW k \in Keys,
               NEW r \in Reservations \union {None}, Consume(x, k, q, r)
        PROVE  AmountInv'
    <2>1. Used(remnant)' = Used(remnant)
      BY <1>3 DEF Consume, Used
    <2>2. /\ IsFiniteSet(Used(consumption)')
          /\ \A o \in Orders : /\ Gross(o) \in Nat
                               /\ Gross(o)' = Gross(o) + (IF x = o THEN q ELSE 0)
                               /\ GivenBack(o)' = GivenBack(o)
      BY <1>1, <1>3, ConsumeAdds
    <2>3. \A o \in Orders : GivenBack(o) \in Int
      BY <1>1, AmountsAreNatural
    <2>4. QED
      BY <2>1, <2>2, <2>3, QuantityIsPositive
  <1>4. ASSUME NEW x \in Orders, NEW q \in Quantities, NEW k \in Keys,
               NEW l \in Locations, NEW t \in Lots, RecordRemnant(x, k, q, l, t)
        PROVE  AmountInv'
    <2>1. Used(consumption)' = Used(consumption)
      BY <1>4 DEF RecordRemnant, Used
    <2>2. /\ IsFiniteSet(Used(remnant)')
          /\ \A o \in Orders :
               /\ GivenBack(o) \in Nat
               /\ GivenBack(o)' = GivenBack(o) + (IF x = o THEN q ELSE 0)
               /\ Gross(o)' = Gross(o)
      BY <1>1, <1>4, RemnantAdds
    <2>3. q <= Gross(x) - GivenBack(x)
      BY <1>4 DEF RecordRemnant, Returnable
    <2>4. \A o \in Orders : Gross(o) \in Int
      BY <1>1, AmountsAreNatural
    <2>5. QED
      BY <2>1, <2>2, <2>3, <2>4, QuantityIsPositive
  <1>5. QED
    BY <1>2, <1>3, <1>4, StepOfMaterial

\* Both hold in every state.
LEMMA AmountAlways == ManufacturingSpec => [](MInv /\ AmountInv)
  <1>1. ManufacturingInit => AmountInv
    <2> SUFFICES ASSUME ManufacturingInit PROVE AmountInv
      OBVIOUS
    <2>1. Used(consumption) = {} /\ Used(remnant) = {}
      BY DEF ManufacturingInit, Used
    <2>2. \A o \in Orders : TakenFor(o) = {} /\ ReturnedBy(o) = {}
      BY DEF ManufacturingInit, TakenFor, ReturnedBy
    <2>3. ASSUME NEW f, DOMAIN f = {}
          PROVE  SumFunction(f) = 0
      BY <2>3, SumOfNone DEF SumFunction
    <2>4. ASSUME NEW o \in Orders
          PROVE  Gross(o) = 0 /\ GivenBack(o) = 0
      <3> DEFINE f == [k \in TakenFor(o) |-> consumption[k].quantity]
                 g == [k \in ReturnedBy(o) |-> remnant[k].quantity]
      <3>1. DOMAIN f = {} /\ DOMAIN g = {}
        BY <2>2
      <3>2. Gross(o) = SumFunction(f) /\ GivenBack(o) = SumFunction(g)
        BY DEF Gross, GivenBack
      <3> HIDE DEF f, g
      <3>3. QED
        BY <2>3, <3>1, <3>2
    <2>5. QED
      BY <2>1, <2>4, FS_EmptySet DEF AmountInv, RemnantsWithinConsumption
  <1>2. QED
    BY <1>1, AmountStep, ManufacturingInvInit, ManufacturingInvStep, PTL
       DEF ManufacturingSpec

\* Over any sequence of calls, by whichever keys, an order never gives back
\* more material than it took.
THEOREM RemnantsStayWithin == ManufacturingSpec => []RemnantsWithinConsumption
  <1>1. AmountInv => RemnantsWithinConsumption
    BY DEF AmountInv
  <1>2. QED
    BY <1>1, AmountAlways, PTL

\* What a step leaves alone of an order that is completed or cancelled.
Rests(o) ==
    /\ status'[o] = status[o] /\ output'[o] = output[o]
    /\ Gross(o)' = Gross(o) /\ GivenBack(o)' = GivenBack(o)
    /\ \A p \in WorkOf(o) : operation'[p] = operation[p]

\* No step of orders, stock, material or work touches a finished order.
LEMMA StepRests ==
    ASSUME MInv, AmountInv, WorkInv, [ManufacturingNext]_allVars,
           NEW o \in Orders, status[o] \in {"done", "cancelled"}
    PROVE  Rests(o)
  <1>1. MaterialTypes /\ OrderTypes /\ WorkTypes
    BY DEF MInv
  <1>2. Gross(o)' = Gross(o) /\ GivenBack(o)' = GivenBack(o)
    <2>1. ASSUME NEW x \in Orders, NEW q \in Quantities, NEW k \in Keys,
                 NEW r \in Reservations \union {None}, x # o, Consume(x, k, q, r)
          PROVE  Gross(o)' = Gross(o) /\ GivenBack(o)' = GivenBack(o)
      BY <1>1, <2>1, ConsumeAdds DEF AmountInv
    <2>2. ASSUME NEW x \in Orders, NEW q \in Quantities, NEW k \in Keys,
                 NEW l \in Locations, NEW t \in Lots, x # o,
                 RecordRemnant(x, k, q, l, t)
          PROVE  Gross(o)' = Gross(o) /\ GivenBack(o)' = GivenBack(o)
      BY <1>1, <2>2, RemnantAdds DEF AmountInv
    <2>3. QED
      BY <2>1, <2>2, AmountsStay, StepOfMaterial
  <1>3. status'[o] = status[o] /\ output'[o] = output[o]
    <2>1. CASE MoveOrder
      <3>1. ASSUME NEW x \in Orders,
                   \/ MakeReady(x) \/ StartOrder(x) \/ CancelOrder(x)
                   \/ \E q \in Quantities : CommitCompletion(x, q)
            PROVE  status'[o] = status[o] /\ output'[o] = output[o]
        <4>1. x # o
          BY <3>1 DEF MakeReady, StartOrder, CancelOrder, CommitCompletion,
                      WorkInv, CheckedStaysFinished
        <4>2. QED
          BY <1>1, <3>1, <4>1 DEF MakeReady, StartOrder, CancelOrder, SetOrder,
                                  CommitCompletion, OrderTypes
      <3>2. QED
        BY <2>1, <3>1 DEF MoveOrder, CheckCompletion, AbandonCompletion
    <2>2. QED
      BY <2>1, StockLeavesWork, WorkLeavesRest DEF ManufacturingNext, allVars
  <1>4. ASSUME NEW p \in Operations, PartOf[p] = o, operation[p] # None
        PROVE  operation'[p] = operation[p]
    <2>1. CASE UNCHANGED work
      BY <2>1 DEF work
    <2>2. CASE DoWork
      <3>1. ASSUME NEW x \in Operations, Moves(x)
            PROVE  operation'[p] = operation[p]
        BY <1>4, <3>1 DEF Moves
      <3>2. ASSUME NEW x \in Operations, InsertOperation(x)
            PROVE  operation'[p] = operation[p]
        BY <1>1, <1>4, <3>2 DEF WorkInv, PlannedAreNew, InsertOperation, WorkTypes
      <3>3. ASSUME NEW x \in Operations, PlanOperation(x)
            PROVE  operation'[p] = operation[p]
        BY <3>3 DEF PlanOperation
      <3>4. ASSUME NEW x \in Inspected, Judge(x)
            PROVE  operation'[p] = operation[p]
        BY <3>4 DEF Judge
      <3>5. QED
        BY <1>1, <2>2, <3>1, <3>2, <3>3, <3>4, ActionsMove DEF DoWork, Shaped
    <2>3. QED
      BY <2>1, <2>2, OrdersLeaveRest, StockLeavesWork
         DEF ManufacturingNext, allVars
  <1>5. QED
    BY <1>2, <1>3, <1>4 DEF Rests, WorkOf

\* A completed or cancelled order takes, returns, puts out and does nothing
\* more, whichever calls race with its completion or cancellation.
THEOREM FinishedRest == ManufacturingSpec => FinishedOrdersRest
  <1>1. ManufacturingSpec => [](MInv /\ AmountInv /\ WorkInv)
    BY AmountAlways, WorkInvAlways, PTL
  <1>2. MInv /\ AmountInv /\ WorkInv /\ [ManufacturingNext]_allVars =>
           [\A o \in Orders : status[o] \in {"done", "cancelled"} =>
              /\ status'[o] = status[o] /\ output'[o] = output[o]
              /\ Gross(o)' = Gross(o) /\ GivenBack(o)' = GivenBack(o)
              /\ \A p \in WorkOf(o) : operation'[p] = operation[p]]_allVars
    BY StepRests DEF Rests
  <1>3. QED
    BY <1>1, <1>2, PTL DEF ManufacturingSpec, FinishedOrdersRest

=============================================================================
