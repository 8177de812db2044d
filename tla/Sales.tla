-------------------------------- MODULE Sales --------------------------------
(***************************************************************************)
(* Sales of made-to-measure clothes, ivadoo/sales: quotations, orders with *)
(* the measurements they snapshot, fittings, alterations and the customer's *)
(* word on a fitting, which together decide whether an order may leave; a  *)
(* confirmed order is what production is planned for (Planning).           *)
(*                                                                         *)
(* What locks its row until it commits is one action.  Three requests are  *)
(* two, a check of a row read without a lock and the write that follows:   *)
(* the actions of a quotation, the booking of a fitting and the validation *)
(* by the customer.                                                        *)
(***************************************************************************)
EXTENDS Measurements, Planning, Sequences

CONSTANTS
    Quotations, Orders, Fittings, Alterations    \* primary keys

ASSUME NoneIsNoKey == None \notin Quotations \union Customers \union {NoSet}

VARIABLES
    quotation,    \* status and customer of Quotation rows, or None
    moving,       \* <<quotation, target>> of requests that passed their check
    order,        \* Order rows, or None
    fitting,      \* FittingSession rows with their CustomerValidation, or None
    performed,    \* completed fittings by performed_at
    booking,      \* the order that each fitting being created was checked for
    validating,   \* fittings whose validation passed the serializer
    alteration,   \* AlterationRequest rows, or None
    operation     \* status of the manufacturing operation alterations link to

selling == <<quotation, moving, order>>
fitted == <<fitting, performed, booking, validating>>
altered == <<alteration, operation>>
sales == <<measurements, selling, fitted, altered, planning>>

QuotationStatuses == {"draft", "sent", "accepted", "rejected", "expired"}
OrderStatuses == {"draft", "confirmed", "cancelled"}
FittingStatuses == {"scheduled", "completed", "cancelled"}
AlterationStatuses == {"open", "in_progress", "done", "cancelled"}
OpenStatuses == {"open", "in_progress"}

QuotationRow == [status: QuotationStatuses, customer: Customers]

\* set is the measurement set of its line, snapshot the version it confirmed.
OrderRow == [status: OrderStatuses, customer: Customers,
             set: MeasurementSets \union {NoSet}, snapshot: Nat]

\* required: does the fitting ask for the customer's validation.
FittingRow == [order: Orders, required: BOOLEAN, status: FittingStatuses,
               result: {"pending", "fit_ok", "alteration_required"},
               validation: {"none", "approved", "rejected"}]

ASSUME NoneIsNoFitting == None \notin FittingRow

AlterationRow == [fitting: Fittings, status: AlterationStatuses, linked: BOOLEAN]

SalesInit ==
    /\ MeasurementsInit /\ PlanningInit
    /\ quotation = [q \in Quotations |-> None] /\ moving = {}
    /\ order = [o \in Orders |-> None]
    /\ fitting = [f \in Fittings |-> None]
    /\ performed = <<>> /\ validating = {}
    /\ booking = [f \in Fittings |-> None]
    /\ alteration = [a \in Alterations |-> None]
    /\ operation = "in_progress"

-----------------------------------------------------------------------------
(* Quotations and orders.                                                  *)

CreateQuotation(q, c) ==
    /\ quotation[q] = None
    /\ quotation' = [quotation EXCEPT ![q] = [status |-> "draft", customer |-> c]]
    /\ UNCHANGED <<moving, order>>

\* The table of QuotationActionView.
Source == [sent |-> "draft", accepted |-> "sent", rejected |-> "sent",
           expired |-> "sent"]

ReadQuotation(q, target) ==
    /\ quotation[q] # None
    /\ quotation[q].status = Source[target]
    /\ moving' = moving \union {<<q, target>>}
    /\ UNCHANGED <<quotation, order>>

MoveQuotation(q, target) ==
    /\ <<q, target>> \in moving
    /\ quotation' = [quotation EXCEPT ![q].status = target]
    /\ moving' = moving \ {<<q, target>>}
    /\ UNCHANGED order

\* OrderSerializer.validate, of the quotation and of the measurement set.
Convertible(q, c) == /\ quotation[q] # None
                     /\ quotation[q].customer = c
                     /\ quotation[q].status = "accepted"

CreateOrder(o, c, q, n) ==
    /\ order[o] = None
    /\ q # None => Convertible(q, c)
    /\ n # NoSet => n \in SetsOf(c)
    /\ order' = [order EXCEPT ![o] =
         [status |-> "draft", customer |-> c, set |-> n, snapshot |-> 0]]
    /\ UNCHANGED <<quotation, moving>>

\* OrderActionView, confirm: the lines keep a copy of their measurements.
ConfirmOrder(o) ==
    /\ order[o] # None /\ order[o].status = "draft"
    /\ order' = [order EXCEPT ![o].status = "confirmed",
         ![o].snapshot = IF order[o].set = NoSet THEN 0
                         ELSE measured[order[o].set].version]
    /\ UNCHANGED <<quotation, moving>>

CancelOrder(o) ==
    /\ order[o] # None /\ order[o].status # "cancelled"
    /\ order' = [order EXCEPT ![o].status = "cancelled"]
    /\ UNCHANGED <<quotation, moving>>

-----------------------------------------------------------------------------
(* Fittings and the customer's validation of them.                         *)

\* FittingSessionSerializer.validate_order.
CheckFitting(f, o) ==
    /\ fitting[f] = None /\ booking[f] = None
    /\ order[o] # None /\ order[o].status = "confirmed"
    /\ booking' = [booking EXCEPT ![f] = o]
    /\ UNCHANGED <<fitting, performed, validating>>

\* The row is cleaned after it was inserted, when clean no longer compares the
\* status of the order.
CreateFitting(f, required) ==
    /\ booking[f] # None
    /\ fitting' = [fitting EXCEPT ![f] =
         [order |-> booking[f], required |-> required, status |-> "scheduled",
          result |-> "pending", validation |-> "none"]]
    /\ booking' = [booking EXCEPT ![f] = None]
    /\ UNCHANGED <<performed, validating>>

\* transition_fitting.
CompleteFitting(f, result) ==
    /\ fitting[f] # None /\ fitting[f].status = "scheduled"
    /\ fitting' = [fitting EXCEPT ![f].status = "completed", ![f].result = result]
    /\ performed' = Append(performed, f)
    /\ UNCHANGED <<booking, validating>>

\* Fault: a completed fitting is cancelled too.
CancelAnyFitting(f) ==
    /\ fitting[f] # None /\ fitting[f].status # "cancelled"
    /\ fitting' = [fitting EXCEPT ![f].status = "cancelled"]
    /\ UNCHANGED <<performed, booking, validating>>

CancelFitting(f) ==
    /\ fitting[f] # None /\ fitting[f].status = "scheduled"
    /\ fitting' = [fitting EXCEPT ![f].status = "cancelled"]
    /\ UNCHANGED <<performed, booking, validating>>

\* CustomerValidationSerializer.validate_fitting, then record_customer_validation.
Fits(f) == fitting[f].status = "completed" /\ fitting[f].result = "fit_ok"

CheckValidation(f) ==
    /\ fitting[f] # None /\ Fits(f) /\ fitting[f].validation = "none"
    /\ validating' = validating \union {f}
    /\ UNCHANGED <<fitting, performed, booking>>

RecordValidation(f, decision) ==
    /\ f \in validating
    /\ validating' = validating \ {f}
    /\ IF Fits(f) /\ fitting[f].validation = "none"
       THEN fitting' = [fitting EXCEPT ![f].validation = decision]
       ELSE UNCHANGED fitting
    /\ UNCHANGED <<performed, booking>>

-----------------------------------------------------------------------------
(* Alterations.                                                            *)

CreateAlteration(a, f, linked) ==
    /\ alteration[a] = None
    /\ fitting[f] # None
    /\ alteration' = [alteration EXCEPT ![a] =
         [fitting |-> f, status |-> "open", linked |-> linked]]
    /\ UNCHANGED operation

\* transition_alteration, start: reopening sends a finished operation back.
StartAlteration(a, reopen) ==
    /\ alteration[a] # None /\ alteration[a].status = "open"
    /\ reopen => alteration[a].linked /\ operation \in {"done", "rework"}
    /\ alteration' = [alteration EXCEPT ![a].status = "in_progress"]
    /\ operation' = IF reopen THEN "rework" ELSE operation

CompleteAlteration(a) ==
    /\ alteration[a] # None /\ alteration[a].status = "in_progress"
    /\ alteration' = [alteration EXCEPT ![a].status = "done"]
    /\ UNCHANGED operation

CancelAlteration(a) ==
    /\ alteration[a] # None /\ alteration[a].status \in OpenStatuses
    /\ alteration' = [alteration EXCEPT ![a].status = "cancelled"]
    /\ UNCHANGED operation

\* The workshop starts and finishes the operation (module Manufacturing).
WorkOnOperation ==
    /\ operation' = IF operation = "in_progress" THEN "done" ELSE "in_progress"
    /\ operation # "done"
    /\ UNCHANGED alteration

-----------------------------------------------------------------------------
(* order_delivery_readiness.                                               *)

RequiredFittings(o) ==
    {f \in Fittings : /\ fitting[f] # None /\ fitting[f].order = o
                      /\ fitting[f].required /\ fitting[f].status # "cancelled"}

PerformedLast(o) ==
    {performed[j] : j \in {i \in DOMAIN performed :
        /\ performed[i] \in RequiredFittings(o)
        /\ \A k \in DOMAIN performed : performed[k] \in RequiredFittings(o) => k <= i}}

\* Fault: fittings without performed_at are ordered last.
LatestOnceScheduled(o) ==
    IF PerformedLast(o) # {} THEN PerformedLast(o) ELSE RequiredFittings(o)

\* Candidates for the first by "-performed_at": the database, PostgreSQL, puts
\* those without one first.
Latest(o) ==
    LET scheduled == {f \in RequiredFittings(o) : fitting[f].status = "scheduled"}
    IN  IF scheduled # {} THEN scheduled ELSE PerformedLast(o)

OpenAlterations(o) ==
    {a \in Alterations : /\ alteration[a] # None
                         /\ alteration[a].status \in OpenStatuses
                         /\ fitting[alteration[a].fitting].order = o}

Deliverable(o) ==
    /\ order[o] # None /\ order[o].status = "confirmed"
    /\ OpenAlterations(o) = {}
    /\ \A f \in Latest(o) : Fits(f) /\ fitting[f].validation = "approved"

-----------------------------------------------------------------------------
Sell ==
    \/ \E q \in Quotations :
          \/ \E c \in Customers : CreateQuotation(q, c)
          \/ \E target \in DOMAIN Source :
                ReadQuotation(q, target) \/ MoveQuotation(q, target)
    \/ \E o \in Orders :
          \/ \E c \in Customers, q \in Quotations \union {None},
                n \in MeasurementSets \union {NoSet} : CreateOrder(o, c, q, n)
          \/ ConfirmOrder(o) \/ CancelOrder(o)

Fit ==
    \E f \in Fittings :
       \/ \E o \in Orders : CheckFitting(f, o)
       \/ \E required \in BOOLEAN : CreateFitting(f, required)
       \/ \E result \in {"fit_ok", "alteration_required"} : CompleteFitting(f, result)
       \/ CancelFitting(f)
       \/ CheckValidation(f)
       \/ \E decision \in {"approved", "rejected"} : RecordValidation(f, decision)

Alter ==
    \/ \E a \in Alterations :
          \/ \E f \in Fittings, linked \in BOOLEAN : CreateAlteration(a, f, linked)
          \/ \E reopen \in BOOLEAN : StartAlteration(a, reopen)
          \/ CompleteAlteration(a) \/ CancelAlteration(a)
    \/ WorkOnOperation

\* ManufacturingOrderListCreateView: only confirmed orders drive manufacturing,
\* when the request is checked; nothing compares the order afterwards.
PlanForOrder(m, b, o) ==
    /\ o # None => order[o] # None /\ order[o].status = "confirmed"
    /\ CheckPlan(m, b, o)

Plan ==
    \/ PlanProduction
    \/ \E m \in Planned, b \in Boms, o \in Orders \union {None} :
          PlanForOrder(m, b, o)

SalesNext ==
    \/ RecordMeasurements /\ UNCHANGED <<selling, fitted, altered, planning>>
    \/ Sell /\ UNCHANGED <<measurements, fitted, altered, planning>>
    \/ Fit /\ UNCHANGED <<measurements, selling, altered, planning>>
    \/ Alter /\ UNCHANGED <<measurements, selling, fitted, planning>>
    \/ Plan /\ UNCHANGED <<measurements, selling, fitted, altered>>

SalesSpec == SalesInit /\ [][SalesNext]_sales

-----------------------------------------------------------------------------
(* Properties.                                                             *)

SalesTypeOK ==
    /\ MeasurementsTypeOK /\ PlanningTypeOK(Orders)
    /\ quotation \in [Quotations -> QuotationRow \union {None}]
    /\ moving \subseteq Quotations \X DOMAIN Source
    /\ order \in [Orders -> OrderRow \union {None}]
    /\ fitting \in [Fittings -> FittingRow \union {None}]
    /\ performed \in Seq(Fittings)
    /\ booking \in [Fittings -> Orders \union {None}]
    /\ validating \subseteq Fittings
    /\ alteration \in [Alterations -> AlterationRow \union {None}]
    /\ operation \in {"in_progress", "done", "rework"}

\* Has something that the customer refused, or that did not fit, been accepted
\* at a later fitting.
AcceptedSince(f) ==
    \E j, k \in DOMAIN performed :
       LET g == performed[k]
       IN  /\ performed[j] = f /\ j <= k
           /\ g \in RequiredFittings(fitting[f].order)
           /\ Fits(g) /\ fitting[g].validation = "approved"

\* An order that is ready to be delivered has no fitting still to come that the
\* customer is to validate, and whatever did not fit or was refused was accepted
\* at that fitting or a later one: readiness looks at the latest one only.
ReadyMeansSettled ==
    \A o \in Orders : Deliverable(o) =>
       \A f \in RequiredFittings(o) :
          fitting[f].status = "completed" /\ AcceptedSince(f)

\* What the customer validated is a fitting that took place and fitted, although
\* it was compared before the transaction that records the word, and stays one.
ValidatedFittingsStand ==
    \A f \in Fittings :
       fitting[f] # None /\ fitting[f].validation # "none" => Fits(f)

=============================================================================
