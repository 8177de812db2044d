------------------------------ MODULE Delivery -------------------------------
(***************************************************************************)
(* Deliveries of confirmed orders, ivadoo/delivery: their creation, steps, *)
(* the finished stock their completion issues, and returns and exchanges.  *)
(*                                                                         *)
(* create_delivery, transition_delivery and create_delivery_return all     *)
(* lock the row of the order until they commit (through select_related),   *)
(* so each is one action.  Finished goods are ONE item; its position is    *)
(* named by the location.  The other parts of the program that deliveries  *)
(* read are the actions of the section "The rest of the program".          *)
(***************************************************************************)
EXTENDS Integers, FiniteSetsExt, Functions, SequencesExt

CONSTANTS
    Orders, Lines,   \* sales orders and their lines
    OrderOf,         \* the order of each line
    Ordered,         \* the quantity of each line
    Deliveries,      \* Delivery primary keys
    ReturnKeys,      \* idempotency keys of returns
    Locations,       \* stock locations
    Receiving,       \* those of kind "receiving"
    Quantities,      \* quantities callers ask for (bound of a run)
    Workshops,       \* where finished output arrives (bound of a run)
    OfferedTerms,    \* what callers say of a returned line (bound of a run)
    MaxReceipts,     \* output receipts (bound of a run)
    MaxOther,        \* what other services put in or take out (bound of a run)
    None

ASSUME LinesOfOrders == OrderOf \in [Lines -> Orders] /\ Ordered \in [Lines -> Nat \ {0}]
\* Primary keys are UUIDs, and idempotency keys are strings of bounded length.
ASSUME KeysAreFinite == IsFiniteSet(Deliveries) /\ IsFiniteSet(Lines) /\ IsFiniteSet(ReturnKeys)
ASSUME BoundsOfRun == /\ Quantities \subseteq Nat \ {0}
                      /\ MaxReceipts \in Nat /\ MaxOther \in Nat
                      /\ Receiving \subseteq Locations /\ Workshops \subseteq Locations

Modes == {"pickup", "local_delivery"}
Terminal == {"picked_up", "delivered"}
InFlight == {"draft", "prepared", "assigned", "shipped", "ready_for_pickup"}
Active == InFlight \union Terminal
Dispositions == {"restock", "quarantine", "damaged"}
Resolutions == {"return_only", "exchange"}
Outputs == 1..MaxReceipts

\* quantity is 0 for a line that a delivery or a return has no row for.
DeliveryRow == [order: Orders, mode: Modes, packed: BOOLEAN, courier: BOOLEAN,
                status: Active \union {"failed", "cancelled"},
                quantity: [Lines -> Nat]]

\* from says how much goes back on the issue of a line from an output.
Terms == [disposition: Dispositions, destination: Locations \union {None}]

ReturnRow == [delivery: Deliveries, resolution: Resolutions,
              terms: [Lines -> Terms \union {None}],
              quantity: [Lines -> Nat], from: [Lines \X Outputs -> Nat]]

\* A ManufacturingOutputReceipt of a finished manufacturing order; approved is
\* what its last completed blocking inspection says, if any.
OutputRow == [order: Orders, line: Lines \union {None}, location: Locations,
              quantity: Nat, approved: BOOLEAN]

ASSUME NoneIsNoDelivery == /\ None \notin DeliveryRow /\ None \notin ReturnRow
                           /\ None \notin Locations

VARIABLES
    order,      \* status of each order
    fitting,    \* do fittings, alterations and validation let it be delivered
    output,     \* output receipts, in order of creation
    delivery,   \* Delivery rows with their lines
    return,     \* DeliveryReturn rows with lines and allocations, by key
    issue,      \* quantity of the issue movement of each line from each output
    stock,      \* available and damaged quantity of each position
    other       \* what other stock services put in, less what they took out

vars == <<order, fitting, output, delivery, return, issue, stock, other>>

Init ==
    /\ order = [o \in Orders |-> "draft"]
    /\ fitting = [o \in Orders |-> TRUE]
    /\ output = <<>>
    /\ delivery = [d \in Deliveries |-> None]
    /\ return = [k \in ReturnKeys |-> None]
    /\ issue = [i \in Deliveries \X Lines \X Outputs |-> 0]
    /\ stock = [l \in Locations |-> [available |-> 0, damaged |-> 0]]
    /\ other = [l \in Locations |-> 0]

-----------------------------------------------------------------------------
(* What deliveries and returns add up to.                                  *)

DeliveredBy(statuses) == {d \in Deliveries : /\ delivery[d] # None
                                             /\ delivery[d].status \in statuses}

QuantityIn(l, statuses) ==
    SumFunction([d \in DeliveredBy(statuses) |-> delivery[d].quantity[l]])

\* Fault: what was delivered no longer counts.
InFlightQuantity(l) == QuantityIn(l, InFlight)

Allocated(l) == QuantityIn(l, Active)
Delivered(l) == QuantityIn(l, Terminal)

Recorded == {k \in ReturnKeys : return[k] # None}

\* What some returns, by their keys, take back of a line.
TakenBack(keys, l) == SumFunction([k \in keys |-> return[k].quantity[l]])

ReturnsOf(d) == {k \in Recorded : return[k].delivery = d}

Returned(l) == TakenBack(Recorded, l)
ReturnedOf(d, l) == TakenBack(ReturnsOf(d), l)
ExchangeAllowance(l) ==
    TakenBack({k \in Recorded : return[k].resolution = "exchange"}, l)

\* _returned_against_issue
ReturnedAgainst(d, l, i) == SumFunction([k \in ReturnsOf(d) |-> return[k].from[<<l, i>>]])

-----------------------------------------------------------------------------
(* Finished output of an order line.                                       *)

\* The outputs made for the line; failing those, for an order of one line, the
\* outputs made for the order.
OutputsFor(l) ==
    LET of(line) == {i \in DOMAIN output : /\ output[i].order = OrderOf[l]
                                           /\ output[i].line = line}
        alone == \A m \in Lines \ {l} : OrderOf[m] # OrderOf[l]
    IN  IF of(l) = {} /\ alone THEN of(None) ELSE of(l)

QuantityOf(outputs) == SumFunction([i \in outputs |-> output[i].quantity])

Produced(l) == QuantityOf(OutputsFor(l))

\* validate_delivery; a blocked output blocks every delivery of its line.
Validated(d) ==
    /\ order[delivery[d].order] = "confirmed"
    /\ fitting[delivery[d].order]
    /\ delivery[d].packed
    /\ \A l \in Lines : delivery[d].quantity[l] > 0 =>
          /\ Allocated(l) <= Ordered[l] + ExchangeAllowance(l)
          /\ \A i \in OutputsFor(l) : output[i].approved
          /\ Allocated(l) <= Produced(l)

(***************************************************************************)
(* _issue_delivery_stock walks the outputs of each line, oldest first, and *)
(* takes what their positions have until the line is served.  clean turns  *)
(* FALSE when it meets an output whose quality gate is closed.             *)
(***************************************************************************)
Smaller(m, n) == IF m <= n THEN m ELSE n

\* Fault: the quality gate is not asked again at completion.
ServeUnchecked(d, acc, l, i) ==
    LET at == output[i].location
        q == Smaller(acc.need[l], acc.stock[at].available)
    IN  IF i \notin OutputsFor(l) \/ acc.need[l] = 0 THEN acc
        ELSE [need |-> [acc.need EXCEPT ![l] = @ - q],
              stock |-> [acc.stock EXCEPT ![at].available = @ - q],
              issue |-> [acc.issue EXCEPT ![<<d, l, i>>] = @ + q],
              clean |-> acc.clean]

Serve(d, acc, l, i) ==
    LET at == output[i].location
        q == Smaller(acc.need[l], acc.stock[at].available)
    IN  IF i \notin OutputsFor(l) \/ acc.need[l] = 0 THEN acc
        ELSE [need |-> [acc.need EXCEPT ![l] = @ - q],
              stock |-> [acc.stock EXCEPT ![at].available = @ - q],
              issue |-> [acc.issue EXCEPT ![<<d, l, i>>] = @ + q],
              clean |-> acc.clean /\ output[i].approved]

\* One line of a delivery, after its outputs up to the i-th.
ServeLine(d, start, l) ==
    LET after[i \in 0..Len(output)] ==
          IF i = 0 THEN start ELSE Serve(d, after[i - 1], l, i)
    IN  after[Len(output)]

Served(d) ==
    LET line == SetToSeq(Lines)
        after[n \in 0..Cardinality(Lines)] ==
          IF n = 0 THEN [need |-> delivery[d].quantity, stock |-> stock,
                         issue |-> issue, clean |-> TRUE]
          ELSE ServeLine(d, after[n - 1], line[n])
    IN  after[Cardinality(Lines)]

-----------------------------------------------------------------------------
(* Deliveries.                                                             *)

\* Fault: only the ordered quantity is compared, delivery by delivery.
CreateEachWithin(d, o, mode, packed, courier, quantity) ==
    /\ order[o] = "confirmed"
    /\ delivery[d] = None
    /\ \A l \in Lines : quantity[l] > 0 => OrderOf[l] = o /\ quantity[l] <= Ordered[l]
    /\ \E l \in Lines : quantity[l] > 0
    /\ courier => mode = "local_delivery"
    /\ delivery' = [delivery EXCEPT ![d] =
         [order |-> o, mode |-> mode, packed |-> packed, courier |-> courier,
          status |-> "draft", quantity |-> quantity]]
    /\ UNCHANGED <<order, fitting, output, return, issue, stock, other>>

CreateDelivery(d, o, mode, packed, courier, quantity) ==
    /\ order[o] = "confirmed"
    /\ delivery[d] = None
    /\ \E l \in Lines : quantity[l] > 0
    /\ \A l \in Lines : quantity[l] > 0 =>
          /\ OrderOf[l] = o
          /\ Allocated(l) + quantity[l] <= Ordered[l] + ExchangeAllowance(l)
    /\ courier => mode = "local_delivery"
    /\ delivery' = [delivery EXCEPT ![d] =
         [order |-> o, mode |-> mode, packed |-> packed, courier |-> courier,
          status |-> "draft", quantity |-> quantity]]
    /\ UNCHANGED <<order, fitting, output, return, issue, stock, other>>

SetStatus(d, status) ==
    /\ delivery' = [delivery EXCEPT ![d].status = status]
    /\ UNCHANGED <<order, fitting, output, return, other>>

\* Fault: a draft is prepared as it is.
PrepareAsItIs(d) ==
    /\ delivery[d].status = "draft"
    /\ SetStatus(d, "prepared")
    /\ UNCHANGED <<issue, stock>>

Prepare(d) ==
    /\ delivery[d].status = "draft"
    /\ Validated(d)
    /\ SetStatus(d, "prepared")
    /\ UNCHANGED <<issue, stock>>

Assign(d) ==
    /\ delivery[d].mode = "local_delivery" /\ delivery[d].status = "prepared"
    /\ delivery[d].courier
    /\ SetStatus(d, "assigned")
    /\ UNCHANGED <<issue, stock>>

Ship(d) ==
    /\ delivery[d].mode = "local_delivery" /\ delivery[d].status = "assigned"
    /\ SetStatus(d, "shipped")
    /\ UNCHANGED <<issue, stock>>

ReadyForPickup(d) ==
    /\ delivery[d].mode = "pickup" /\ delivery[d].status = "prepared"
    /\ SetStatus(d, "ready_for_pickup")
    /\ UNCHANGED <<issue, stock>>

\* Fault: what the stock cannot serve is left out.
CompletePartly(d) ==
    LET served == Served(d)
    IN  /\ \/ delivery[d].status = "shipped" /\ SetStatus(d, "delivered")
           \/ delivery[d].status = "ready_for_pickup" /\ SetStatus(d, "picked_up")
        /\ served.clean
        /\ issue' = served.issue
        /\ stock' = served.stock

\* Fault: the goods leave without a stock movement.
CompleteUnissued(d) ==
    LET served == Served(d)
    IN  /\ \/ delivery[d].status = "shipped" /\ SetStatus(d, "delivered")
           \/ delivery[d].status = "ready_for_pickup" /\ SetStatus(d, "picked_up")
        /\ served.clean
        /\ \A l \in Lines : served.need[l] = 0
        /\ issue' = served.issue
        /\ UNCHANGED stock

\* "deliver" and "pickup", with a proof: all of the stock, or nothing.
Complete(d) ==
    LET served == Served(d)
    IN  /\ \/ delivery[d].status = "shipped" /\ SetStatus(d, "delivered")
           \/ delivery[d].status = "ready_for_pickup" /\ SetStatus(d, "picked_up")
        /\ served.clean
        /\ \A l \in Lines : served.need[l] = 0
        /\ issue' = served.issue
        /\ stock' = served.stock

Fail(d) ==
    /\ delivery[d].mode = "local_delivery"
    /\ delivery[d].status \in {"assigned", "shipped"}
    /\ SetStatus(d, "failed")
    /\ UNCHANGED <<issue, stock>>

\* Fault: a completed delivery may be cancelled.
CancelAny(d) ==
    /\ delivery[d].status # "cancelled"
    /\ SetStatus(d, "cancelled")
    /\ UNCHANGED <<issue, stock>>

Cancel(d) ==
    /\ delivery[d].status \in InFlight \ {"shipped"}
    /\ SetStatus(d, "cancelled")
    /\ UNCHANGED <<issue, stock>>

-----------------------------------------------------------------------------
(* Returns and exchanges.                                                  *)

\* What is left to give back of an issue, and of all older issues of the line.
Left(d, l, i) == issue[<<d, l, i>>] - ReturnedAgainst(d, l, i)
LeftBefore(d, l, i) == SumFunction([j \in 1..(i - 1) |-> Left(d, l, j)])

\* _apply_return_stock goes back on the issues of the line, oldest first.
GivenBack(d, quantity) ==
    [at \in Lines \X Outputs |->
       Max({0, Smaller(quantity[at[1]] - LeftBefore(d, at[1], at[2]),
                       Left(d, at[1], at[2]))})]

\* _validate_return_destination
AllowedTerms == {t \in Terms : t.disposition = "quarantine" =>
                                  t.destination \in Receiving}

\* Where the goods of an issue come back to.
ReturnedTo(terms, l, i) ==
    IF terms[l].destination # None THEN terms[l].destination
    ELSE output[i].location

\* What one return puts at a location, of the lines with these dispositions.
PutAt(at, terms, from, dispositions) ==
    LET here == {li \in Lines \X Outputs :
                   /\ from[li] > 0
                   /\ ReturnedTo(terms, li[1], li[2]) = at
                   /\ terms[li[1]].disposition \in dispositions}
    IN  SumFunction([li \in here |-> from[li]])

\* Fault: earlier returns of the same delivery line do not count.
ReturnEachWithin(k, d, resolution, terms, quantity) ==
    LET from == GivenBack(d, quantity)
    IN  /\ return[k] = None
        /\ delivery[d].status \in Terminal
        /\ \E l \in Lines : quantity[l] > 0
        /\ \A l \in Lines : quantity[l] <= delivery[d].quantity[l]
        /\ return' = [return EXCEPT ![k] =
             [delivery |-> d, resolution |-> resolution, terms |-> terms,
              quantity |-> quantity, from |-> from]]
        /\ stock' = [l \in Locations |->
             [available |-> stock[l].available
                              + PutAt(l, terms, from, Dispositions \ {"damaged"}),
              damaged |-> stock[l].damaged + PutAt(l, terms, from, {"damaged"})]]
        /\ UNCHANGED <<order, fitting, output, delivery, issue, other>>

\* create_delivery_return; a key that is used returns its return.  A damaged
\* item is put back and set apart at once.
CreateReturn(k, d, resolution, terms, quantity) ==
    LET from == GivenBack(d, quantity)
    IN  /\ return[k] = None
        /\ delivery[d].status \in Terminal
        /\ \E l \in Lines : quantity[l] > 0
        /\ \A l \in Lines :
              /\ ReturnedOf(d, l) + quantity[l] <= delivery[d].quantity[l]
              /\ quantity[l] = SumFunction([i \in Outputs |-> from[<<l, i>>]])
        /\ return' = [return EXCEPT ![k] =
             [delivery |-> d, resolution |-> resolution, terms |-> terms,
              quantity |-> quantity, from |-> from]]
        /\ stock' = [l \in Locations |->
             [available |-> stock[l].available
                              + PutAt(l, terms, from, Dispositions \ {"damaged"}),
              damaged |-> stock[l].damaged + PutAt(l, terms, from, {"damaged"})]]
        /\ UNCHANGED <<order, fitting, output, delivery, issue, other>>

-----------------------------------------------------------------------------
(* The rest of the program, as far as deliveries see it.                   *)

\* OrderActionView: an order is cancelled whatever its deliveries do.
ConfirmOrder(o) ==
    /\ order[o] = "draft"
    /\ order' = [order EXCEPT ![o] = "confirmed"]
    /\ UNCHANGED <<fitting, output, delivery, return, issue, stock, other>>

CancelOrder(o) ==
    /\ order[o] # "cancelled"
    /\ order' = [order EXCEPT ![o] = "cancelled"]
    /\ UNCHANGED <<fitting, output, delivery, return, issue, stock, other>>

\* Fittings, alterations and customer validations.
ChangeFitting(o) ==
    /\ fitting' = [fitting EXCEPT ![o] = ~@]
    /\ UNCHANGED <<order, output, delivery, return, issue, stock, other>>

\* complete_manufacturing_order
FinishProduction(o, l, at, q) ==
    /\ Len(output) < MaxReceipts
    /\ l # None => OrderOf[l] = o
    /\ output' = Append(output, [order |-> o, line |-> l, location |-> at,
                                 quantity |-> q, approved |-> TRUE])
    /\ stock' = [stock EXCEPT ![at].available = @ + q]
    /\ UNCHANGED <<order, fitting, delivery, return, issue, other>>

\* complete_inspection of an output.
JudgeOutput(i) ==
    /\ output' = [output EXCEPT ![i].approved = ~@]
    /\ UNCHANGED <<order, fitting, delivery, return, issue, stock, other>>

\* The stock endpoints put finished goods in and take them out.
MoveOtherStock(at, q) ==
    /\ stock[at].available + q >= 0
    /\ other[at] + q \in -MaxOther..MaxOther
    /\ stock' = [stock EXCEPT ![at].available = @ + q]
    /\ other' = [other EXCEPT ![at] = @ + q]
    /\ UNCHANGED <<order, fitting, output, delivery, return, issue>>

-----------------------------------------------------------------------------
\* The lines a caller names, with their quantities.
LineQuantities == [Lines -> Quantities \union {0}]

Create ==
    \E d \in Deliveries, o \in Orders, mode \in Modes, packed, courier \in BOOLEAN,
       quantity \in LineQuantities : CreateDelivery(d, o, mode, packed, courier, quantity)

Transition ==
    \E d \in Deliveries :
       /\ delivery[d] # None
       /\ \/ Prepare(d) \/ Assign(d) \/ Ship(d) \/ ReadyForPickup(d)
          \/ Complete(d) \/ Fail(d) \/ Cancel(d)

TermsFor(quantity) ==
    {terms \in [Lines -> (AllowedTerms \intersect OfferedTerms) \union {None}] :
       \A l \in Lines : (terms[l] = None) = (quantity[l] = 0)}

Return ==
    \E k \in ReturnKeys, d \in Deliveries, resolution \in Resolutions,
       quantity \in LineQuantities :
       /\ delivery[d] # None
       /\ \E terms \in TermsFor(quantity) :
             CreateReturn(k, d, resolution, terms, quantity)

RestOfProgram ==
    \/ \E o \in Orders : ConfirmOrder(o) \/ CancelOrder(o) \/ ChangeFitting(o)
    \/ \E o \in Orders, l \in Lines \union {None}, at \in Workshops, q \in Quantities :
          FinishProduction(o, l, at, q)
    \/ \E i \in DOMAIN output : JudgeOutput(i)
    \/ \E at \in Locations, q \in {-1, 1} : MoveOtherStock(at, q)

Next == Create \/ Transition \/ Return \/ RestOfProgram

Spec == Init /\ [][Next]_vars

-----------------------------------------------------------------------------
(* Properties.                                                             *)

\* Type correctness; no balance and no rest of an issue is negative.
TypeOK ==
    /\ order \in [Orders -> {"draft", "confirmed", "cancelled"}]
    /\ fitting \in [Orders -> BOOLEAN]
    /\ output \in Seq(OutputRow) /\ Len(output) <= MaxReceipts
    /\ delivery \in [Deliveries -> DeliveryRow \union {None}]
    /\ return \in [ReturnKeys -> ReturnRow \union {None}]
    /\ issue \in [Deliveries \X Lines \X Outputs -> Nat]
    /\ stock \in [Locations -> [available: Nat, damaged: Nat]]
    /\ other \in [Locations -> Int]

\* "Terminal completion issues finished stock exactly once"
\* (docs/operations/phase-3.md:29), all of it, and nothing else issues any.
IssuedExactlyWhenDelivered ==
    \A d \in Deliveries, l \in Lines :
       SumFunction([i \in Outputs |-> issue[<<d, l, i>>]]) =
         IF d \in DeliveredBy(Terminal) THEN delivery[d].quantity[l] ELSE 0

\* "Returns trace back to the original delivery issue movement": all of a
\* return goes back on issues, and no issue takes back more than it gave.
ReturnsTraceToIssues ==
    /\ \A k \in Recorded, l \in Lines :
          return[k].quantity[l] = SumFunction([i \in Outputs |-> return[k].from[<<l, i>>]])
    /\ \A d \in Deliveries, l \in Lines, i \in Outputs : Left(d, l, i) >= 0

\* What is at a location is what was made there and what others left there,
\* less what deliveries took, plus what returns brought.
StockFollowsDeliveries ==
    \A at \in Locations :
       LET made == {i \in DOMAIN output : output[i].location = at}
           taken == {x \in DOMAIN issue : issue[x] > 0 /\ output[x[3]].location = at}
       IN  stock[at].available + stock[at].damaged =
             other[at] + QuantityOf(made) - SumFunction([x \in taken |-> issue[x]])
               + SumFunction([k \in Recorded |-> PutAt(at, return[k].terms,
                                                      return[k].from, Dispositions)])

\* Deliveries that were prepared never exceed what was made for their line,
\* also when outputs are blocked, orders cancelled or newer outputs preferred.
PreparedIsProduced ==
    \A l \in Lines :
       QuantityIn(l, Active \ {"draft"}) <=
         QuantityOf({i \in DOMAIN output : /\ output[i].order = OrderOf[l]
                                           /\ output[i].line \in {l, None}})

\* No step issues goods of an output whose quality gate is closed.
OnlyApprovedGoodsLeave ==
    [][\A d \in Deliveries, l \in Lines, i \in Outputs :
          issue'[<<d, l, i>>] # issue[<<d, l, i>>] => output[i].approved]_vars

\* "Returns preserve the original delivery history" (delivery/README.md:9): no
\* step changes a final delivery, what it issued, or a return.
HistoryIsKept ==
    [][/\ \A d \in DeliveredBy(Terminal \union {"failed", "cancelled"}) :
             /\ delivery'[d] = delivery[d]
             /\ \A l \in Lines, i \in Outputs : issue'[<<d, l, i>>] = issue[<<d, l, i>>]
       /\ \A k \in Recorded : return'[k] = return[k]]_vars

-----------------------------------------------------------------------------
\* The counts that OrderFulfilment keeps.
Fulfilment ==
    INSTANCE OrderFulfilment WITH
        promised <- [l \in Lines |-> Allocated(l)],
        handed <- [l \in Lines |-> Delivered(l)],
        returned <- [l \in Lines |-> Returned(l)],
        exchanged <- [l \in Lines |-> ExchangeAllowance(l)]

\* Deliveries and returns keep what OrderFulfilment promises.
ImplementsFulfilment == Fulfilment!Spec

=============================================================================
