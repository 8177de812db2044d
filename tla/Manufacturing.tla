---------------------------- MODULE Manufacturing ----------------------------
(***************************************************************************)
(* Manufacturing orders of ivadoo/manufacturing: their steps, the material *)
(* they reserve, consume and give back, their operations, and the output   *)
(* that completes them.  Material is the ONE item of Inventory; output is  *)
(* another item.  Every service locks the row of its order until it commits,*)
(* so it is one action, but for two.  The planning of an operation checks  *)
(* the order without a lock.  The completion of an order counts its        *)
(* reservations, which the stock endpoints insert without that lock.       *)
(*                                                                         *)
(* A request may name several allocations, which one transaction applies in *)
(* order; the model applies them one by one.                               *)
(***************************************************************************)
EXTENDS ProductionStock

CONSTANTS
    Orders,       \* ManufacturingOrder primary keys
    Planned,      \* the quantity each order is to make
    Required,     \* the material that the BOM plans for each order
    Operations,   \* ManufacturingOperation primary keys
    PartOf,       \* the order of each operation
    Place,        \* its position in the order, unique there
    Inspected     \* orders and operations that inspectors judge (bound of a run)

ASSUME OrdersArePlanned == /\ Planned \in [Orders -> Nat \ {0}]
                           /\ Required \in [Orders -> Nat]
ASSUME OperationsHaveAPlace ==
    /\ PartOf \in [Operations -> Orders] /\ Place \in [Operations -> Nat]
    /\ \A p, x \in Operations : PartOf[p] = PartOf[x] /\ Place[p] = Place[x] => p = x

ASSUME InspectedIsWork == Inspected \subseteq Orders \union Operations

VARIABLES
    status,       \* status of each order
    output,       \* quantity of its ManufacturingOutputReceipt, 0 without one
    owner,        \* production_order_id of each reservation
    consumption,  \* ManufacturingMaterialConsumption rows, by idempotency key
    remnant,      \* ManufacturingMaterialRemnant rows, by idempotency key
    operation,    \* ManufacturingOperation rows
    planning,     \* operations that passed validation and are being inserted
    completing,   \* orders that passed the checks of a completion, still locked
    accepted      \* does the last blocking inspection, if any, accept the work

stock == <<position, lot, reservation, movement, edit, owner>>
material == <<consumption, remnant>>
work == <<operation, planning, accepted>>
allVars == <<stock, material, work, status, output, completing>>

OrderStatuses == {"draft", "ready", "in_progress", "done", "cancelled"}
OperationStatuses == {"pending", "in_progress", "done", "rework", "cancelled"}
Finished == {"done", "cancelled"}

\* override says whether its last start overrode the sequence, reworked whether
\* it was ever sent back, late whether it was created after its order started.
Operation == [status: OperationStatuses, override: BOOLEAN, reworked: BOOLEAN,
              late: BOOLEAN]

\* A consumption without a reservation is supplemental.
Consumption == [order: Orders, quantity: Nat,
                reservation: Reservations \union {None}]
Remnant == [order: Orders, quantity: Nat, lot: Lots]

ASSUME NoneIsNoWork == /\ None \notin Orders \union Operation
                       /\ None \notin Consumption /\ None \notin Remnant

ManufacturingInit ==
    /\ Init
    /\ status = [o \in Orders |-> "draft"]
    /\ output = [o \in Orders |-> 0]
    /\ owner = [r \in Reservations |-> None]
    /\ consumption = [k \in Keys |-> None]
    /\ remnant = [k \in Keys |-> None]
    /\ operation = [p \in Operations |-> None]
    /\ planning = {}
    /\ completing = {}
    /\ accepted = [x \in Orders \union Operations |-> TRUE]

-----------------------------------------------------------------------------
(* Orders.                                                                 *)

\* A service of the order waits for the lock that a completion holds.
Free(o) == o \notin completing

SetOrder(o, to) ==
    /\ Free(o)
    /\ status' = [status EXCEPT ![o] = to]
    /\ UNCHANGED <<stock, material, work, output, completing>>

MakeReady(o) == status[o] = "draft" /\ SetOrder(o, "ready")
StartOrder(o) == status[o] = "ready" /\ SetOrder(o, "in_progress")

\* Fault: a completed order may be cancelled.
CancelAnyOrder(o) == status[o] # "cancelled" /\ SetOrder(o, "cancelled")

\* The reservations of a cancelled order stay as they are.
CancelOrder(o) == status[o] \notin {"done", "cancelled"} /\ SetOrder(o, "cancelled")

-----------------------------------------------------------------------------
(* Materials.                                                              *)

OpenFor(o) == {r \in Reservations : Open(r) /\ owner[r] = o}

\* reserve_manufacturing_materials
ReserveMaterials(o, r, l, q, t) ==
    /\ status[o] = "ready"
    /\ SumFunction([s \in OpenFor(o) |-> reservation[s].quantity]) + q
          <= Required[o]
    /\ ReserveStock(r, l, q, t)
    /\ owner' = [owner EXCEPT ![r] = o]
    /\ UNCHANGED <<material, work, status, output, completing>>

Consume(o, k, q, r) ==
    /\ consumption[k] = None
    /\ consumption' = [consumption EXCEPT ![k] =
         [order |-> o, quantity |-> q, reservation |-> r]]
    /\ UNCHANGED <<owner, remnant, work, status, output, completing>>

\* consume_manufacturing_materials, of a reservation of the order
ConsumeReserved(o, k, q, r) ==
    /\ status[o] = "in_progress" /\ Free(o)
    /\ owner[r] = o
    /\ ConsumeReservedQuantity(r, k, q)
    /\ Consume(o, k, q, r)

\* Fault: a key of the order is not compared with those of other consumptions.
ConsumeSupplementalAgain(o, k, q, l, t) ==
    /\ status[o] = "in_progress" /\ Free(o)
    /\ t # None => lot[t] # None /\ lot[t].location = l
    /\ ApplyStockMovement(<<"manufacturing-supplemental", k>>,
                          "production_consumption", q, l, None, t)
    /\ consumption' = [consumption EXCEPT ![k] =
         [order |-> o, quantity |-> q, reservation |-> None]]
    /\ UNCHANGED <<owner, remnant, work, status, output, completing>>

\* consume_manufacturing_materials, of free stock
ConsumeSupplemental(o, k, q, l, t) ==
    /\ status[o] = "in_progress" /\ Free(o)
    /\ t # None => lot[t] # None /\ lot[t].location = l
    /\ ApplyStockMovement(<<"manufacturing-supplemental", k>>,
                          "production_consumption", q, l, None, t)
    /\ Consume(o, k, q, None)

TakenFor(o) == {k \in Keys : consumption[k] # None /\ consumption[k].order = o}
Gross(o) == SumFunction([k \in TakenFor(o) |-> consumption[k].quantity])

ReturnedBy(o) == {k \in Keys : remnant[k] # None /\ remnant[k].order = o}
GivenBack(o) == SumFunction([k \in ReturnedBy(o) |-> remnant[k].quantity])

\* Fault: what was given back before is forgotten.
Unreturned(o) == Gross(o)

\* What an order may still give back.
Returnable(o) == Gross(o) - GivenBack(o)

\* record_reusable_remnant: a lot of its own, filled by a return.
RecordRemnant(o, k, q, l, t) ==
    /\ status[o] = "in_progress" /\ Free(o)
    /\ remnant[k] = None
    /\ q <= Returnable(o)
    /\ lot[t] = None
    /\ lot' = [lot EXCEPT ![t] = [location |-> l, initial |-> q,
                                  remaining |-> q, status |-> "active"]]
    /\ Add(l, "available", q)
    /\ Record(<<"manufacturing-remnant", k>>,
              [type |-> "return_in", quantity |-> q, source |-> None,
               destination |-> l, lot |-> t, reservation |-> None])
    /\ remnant' = [remnant EXCEPT ![k] = [order |-> o, quantity |-> q, lot |-> t]]
    /\ UNCHANGED <<reservation, edit, owner, consumption, work, status, output,
                   completing>>

-----------------------------------------------------------------------------
(* Operations, and the quality gates of inspectors.                        *)

\* The validation of a new operation, and its insert.
PlanOperation(p) ==
    /\ operation[p] = None /\ p \notin planning
    /\ status[PartOf[p]] \in {"draft", "ready"}
    /\ planning' = planning \union {p}
    /\ UNCHANGED <<stock, material, status, output, completing, operation, accepted>>

\* The foreign key of the new row waits for the lock as well.
InsertOperation(p) ==
    /\ p \in planning /\ Free(PartOf[p])
    /\ planning' = planning \ {p}
    /\ operation' = [operation EXCEPT ![p] =
         [status |-> "pending", override |-> FALSE, reworked |-> FALSE,
          late |-> status[PartOf[p]] \notin {"draft", "ready"}]]
    /\ UNCHANGED <<stock, material, status, output, completing, accepted>>

WorkOf(o) == {p \in Operations : PartOf[p] = o /\ operation[p] # None}

Before(p) == {x \in WorkOf(PartOf[p]) : Place[x] < Place[p]}

MoveOperation(p, from, row) ==
    /\ status[PartOf[p]] = "in_progress" /\ Free(PartOf[p])
    /\ operation[p] # None /\ operation[p].status \in from
    /\ operation' = [operation EXCEPT ![p] = row]
    /\ UNCHANGED <<stock, material, status, output, completing, planning, accepted>>

\* Fault: an operation that is running does not stop those after it.
StartBesideRunning(p, override) ==
    /\ override \/ \A x \in Before(p) : operation[x].status # "pending"
    /\ \A x \in Before(p) : operation[x].status = "done" => accepted[x]
    /\ MoveOperation(p, {"pending", "rework"},
         [operation[p] EXCEPT !.status = "in_progress", !.override = override])

\* Whoever may override the sequence still meets the quality gates.
StartOperation(p, override) ==
    /\ override \/ \A x \in Before(p) : operation[x].status \in Finished
    /\ \A x \in Before(p) : operation[x].status = "done" => accepted[x]
    /\ MoveOperation(p, {"pending", "rework"},
         [operation[p] EXCEPT !.status = "in_progress", !.override = override])

CompleteOperation(p) ==
    MoveOperation(p, {"in_progress"}, [operation[p] EXCEPT !.status = "done"])

ReworkOperation(p) ==
    MoveOperation(p, {"done"}, [operation[p] EXCEPT !.status = "rework",
                                                    !.reworked = TRUE])

CancelOperation(p) ==
    MoveOperation(p, OperationStatuses \ Finished,
                  [operation[p] EXCEPT !.status = "cancelled"])

\* complete_inspection
Judge(x) ==
    /\ accepted' = [accepted EXCEPT ![x] = ~@]
    /\ UNCHANGED <<stock, material, status, output, completing, operation, planning>>

-----------------------------------------------------------------------------
(* complete_manufacturing_order: its checks, then its commit, with the      *)
(* quality gates of the order, which save() looks at, or its failure.      *)

\* Fault: an operation that was sent back does not count as unfinished.
CheckInRework(o) ==
    /\ status[o] = "in_progress" /\ Free(o)
    /\ \A p \in WorkOf(o) : operation[p].status \in Finished \union {"rework"}
    /\ OpenFor(o) = {}
    /\ completing' = completing \union {o}
    /\ UNCHANGED <<stock, material, work, status, output>>

CheckCompletion(o) ==
    /\ status[o] = "in_progress" /\ Free(o)
    /\ \A p \in WorkOf(o) : operation[p].status \in Finished
    /\ OpenFor(o) = {}
    /\ completing' = completing \union {o}
    /\ UNCHANGED <<stock, material, work, status, output>>

CommitCompletion(o, q) ==
    /\ o \in completing
    /\ accepted[o] /\ \A p \in WorkOf(o) : accepted[p]
    /\ q <= Planned[o]
    /\ status' = [status EXCEPT ![o] = "done"]
    /\ output' = [output EXCEPT ![o] = q]
    /\ completing' = completing \ {o}
    /\ UNCHANGED <<stock, material, work>>

AbandonCompletion(o) ==
    /\ o \in completing
    /\ completing' = completing \ {o}
    /\ UNCHANGED <<stock, material, work, status, output>>

-----------------------------------------------------------------------------
MoveOrder ==
    \E o \in Orders : \/ MakeReady(o) \/ StartOrder(o) \/ CancelOrder(o)
                      \/ CheckCompletion(o) \/ AbandonCompletion(o)
                      \/ \E q \in Quantities : CommitCompletion(o, q)

HandleMaterial ==
    \E o \in Orders, q \in Quantities, k \in Keys, l \in Locations :
       \/ \E r \in Reservations : ConsumeReserved(o, k, q, r)
       \/ \E t \in Lots \union {None} : ConsumeSupplemental(o, k, q, l, t)
       \/ \E t \in Lots : RecordRemnant(o, k, q, l, t)

ReserveForOrder ==
    \E o \in Orders, r \in Reservations, l \in Locations, q \in Quantities,
       t \in Lots \union {None} : ReserveMaterials(o, r, l, q, t)

DoWork ==
    \/ \E p \in Operations :
          \/ PlanOperation(p) \/ InsertOperation(p)
          \/ \E override \in BOOLEAN : StartOperation(p, override)
          \/ CompleteOperation(p) \/ ReworkOperation(p) \/ CancelOperation(p)
    \/ \E x \in Inspected : Judge(x)

\* The stock endpoints.  A reservation made there may name any order, without a
\* foreign key, and so without waiting for the lock of that order.
UseStock ==
    /\ \/ /\ ApplyRequestedMovement \/ CreateLots \/ EditLots \/ SettleReservation
          /\ UNCHANGED owner
       \/ \E r \in Reservations, l \in Locations, q \in Quantities,
             t \in Lots \union {None}, o \in Orders \union {None} :
             ReserveStock(r, l, q, t) /\ owner' = [owner EXCEPT ![r] = o]
    /\ UNCHANGED <<material, work, status, output, completing>>

ManufacturingNext ==
    \/ MoveOrder \/ ReserveForOrder \/ HandleMaterial \/ DoWork \/ UseStock

ManufacturingSpec == ManufacturingInit /\ [][ManufacturingNext]_allVars

-----------------------------------------------------------------------------
(* Properties.                                                             *)

\* Type correctness of the tables of manufacturing.
ManufacturingTypeOK ==
    /\ TypeOK
    /\ status \in [Orders -> OrderStatuses]
    /\ output \in [Orders -> Nat]
    /\ owner \in [Reservations -> Orders \union {None}]
    /\ consumption \in [Keys -> Consumption \union {None}]
    /\ remnant \in [Keys -> Remnant \union {None}]
    /\ operation \in [Operations -> Operation \union {None}]
    /\ planning \in SUBSET Operations
    /\ completing \in SUBSET Orders
    /\ accepted \in [Orders \union Operations -> BOOLEAN]

\* What the tables of manufacturing say was consumed and given back is what the
\* ledger moved for it, each under its own key, and nothing moved otherwise.
MaterialIsTraced ==
    \A k \in Keys :
       LET reserved == movement[<<"production-reservation", k>>]
           free == movement[<<"manufacturing-supplemental", k>>]
           back == movement[<<"manufacturing-remnant", k>>]
       IN  /\ consumption[k] = None <=> reserved = None /\ free = None
           /\ reserved = None \/ free = None
           /\ reserved # None =>
                 /\ reserved.quantity = consumption[k].quantity
                 /\ reserved.reservation = consumption[k].reservation
                 /\ owner[reserved.reservation] = consumption[k].order
           /\ free # None => /\ free.quantity = consumption[k].quantity
                             /\ consumption[k].reservation = None
           /\ remnant[k] = None <=> back = None
           /\ back # None => /\ back.quantity = remnant[k].quantity
                             /\ back.lot = remnant[k].lot

\* Over any sequence of calls, an order never gives back more than it took.
RemnantsWithinConsumption == \A o \in Orders : GivenBack(o) <= Gross(o)

\* A completed or cancelled order stays as it is: it consumes, gives back and
\* puts out nothing more, and none of its operations moves.
FinishedOrdersRest ==
    [][\A o \in Orders : status[o] \in {"done", "cancelled"} =>
          /\ status'[o] = status[o] /\ output'[o] = output[o]
          /\ Gross(o)' = Gross(o) /\ GivenBack(o)' = GivenBack(o)
          /\ \A p \in WorkOf(o) : operation'[p] = operation[p]]_allVars

\* docs/operations/phase-3.md: completion "refuses unresolved material
\* reservations".  No step completes an order that has an open one.  A
\* reservation made by the stock endpoint after the check breaks this.
CompletionResolvesMaterial ==
    [][\A o \in Orders : status[o] # "done" /\ status'[o] = "done" =>
          OpenFor(o)' = {}]_allVars

\* A completed order has no operation left to do, whatever was reworked or
\* cancelled, except one whose planning overtook the start of the order.
DoneMeansFinished ==
    \A o \in Orders : status[o] = "done" =>
       \A p \in WorkOf(o) : operation[p].status \in Finished \/ operation[p].late

\* While an operation runs that nobody allowed to jump the queue, the ones
\* before it are finished, or were sent back, or arrived late.
RunsInSequence ==
    \A p \in Operations :
       operation[p] # None /\ operation[p].status = "in_progress" =>
          \/ operation[p].override
          \/ \A x \in Before(p) : \/ operation[x].status \in Finished
                                  \/ operation[x].reworked \/ operation[x].late

=============================================================================
