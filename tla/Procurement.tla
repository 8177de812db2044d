----------------------------- MODULE Procurement -----------------------------
(***************************************************************************)
(* Buying, ivadoo/purchases: suppliers, purchase requests, requests for    *)
(* quotation and the quotations received, purchase orders.                 *)
(*                                                                         *)
(* A transition locks its document until it commits, so it is one action;  *)
(* so is the selection of a quotation, whose select_for_update joins the   *)
(* RFQ and locks it as well.  Two operations are two: a PATCH compares the *)
(* status of a document it read without a lock and then saves every column *)
(* of that row, and a quotation is recorded after its RFQ was read so.     *)
(***************************************************************************)
EXTENDS Integers, FiniteSets, Functions

CONSTANTS
    Suppliers, Requests, Rfqs, Orders,   \* primary keys
    Items,         \* what can be ordered, one line each, at a price of 1
    Users,
    MaxQuantity,   \* most of an item that one line orders (bound of a run)
    Threshold,     \* total from which the approval rule applies
    None

ASSUME BoundIsNatural == MaxQuantity \in Nat /\ Threshold \in Nat
ASSUME NoneIsNoKey == None \notin Suppliers \union Users
ASSUME KeysAreDistinct == /\ Requests \intersect Rfqs = {}
                          /\ Requests \intersect Orders = {}
                          /\ Rfqs \intersect Orders = {}

VARIABLES
    active,      \* suppliers whose status is active
    request,     \* PurchaseRequest rows, or None
    rfq,         \* RequestForQuotation rows with the suppliers they invite
    quotation,   \* status of the quotation of each supplier for each RFQ
    arriving,    \* quotations whose RFQ was found sent, not recorded yet
    order,       \* PurchaseOrder rows
    patch,       \* the row that each PATCH in flight will save
    distinct     \* does the rule ask for an approver other than the creator

sourcing == <<request, rfq, quotation, arriving>>
ordering == <<order, distinct>>
procurement == <<active, sourcing, ordering, patch>>

RequestStatuses == {"draft", "submitted", "approved", "rejected", "cancelled"}
RfqStatuses == {"draft", "sent", "closed", "cancelled"}
QuotationStatuses == {"received", "selected", "rejected"}
OrderStatuses == {"draft", "pending_approval", "approved", "ordered", "cancelled"}

\* The quantity of the line of each item; an item without a line has 0.
Lines == [Items -> 0..MaxQuantity]
NoLines == [i \in Items |-> 0]

RequestRow == [status: RequestStatuses, hasLines: BOOLEAN]
RfqRow == [status: RfqStatuses, invited: SUBSET Suppliers]
OrderRow == [status: OrderStatuses, supplier: Suppliers, creator: Users,
             approver: Users \union {None}, lines: Lines, received: Lines]

\* What a PATCH of each kind of document saves: the draft that it read.
Documents == Requests \union Rfqs \union Orders
RequestPatch == [status: {"draft"}, hasLines: BOOLEAN]
RfqPatch == [status: {"draft"}, invited: (SUBSET Suppliers) \union {None}]
OrderPatch == [status: {"draft"}, supplier: Suppliers, creator: Users,
               approver: Users \union {None}, lines: Lines, received: Lines]

ASSUME NoneIsNoDocument ==
    None \notin RequestRow \union RfqRow \union OrderRow \union QuotationStatuses

ProcurementInit ==
    /\ active = Suppliers
    /\ request = [q \in Requests |-> None]
    /\ rfq = [f \in Rfqs |-> None]
    /\ quotation = [f \in Rfqs |-> [s \in Suppliers |-> None]]
    /\ arriving = {}
    /\ order = [o \in Orders |-> None]
    /\ patch = [d \in Documents |-> None]
    /\ distinct \in BOOLEAN

-----------------------------------------------------------------------------
(* Suppliers and purchase requests.                                        *)

\* SupplierDetailView: a PATCH may set any status.
SetSupplierActive(s, isActive) ==
    /\ active' = IF isActive THEN active \union {s} ELSE active \ {s}
    /\ UNCHANGED <<sourcing, ordering, patch>>

CreateRequest(q, hasLines) ==
    /\ request[q] = None
    /\ request' = [request EXCEPT ![q] = [status |-> "draft",
                                          hasLines |-> hasLines]]
    /\ UNCHANGED <<active, rfq, quotation, arriving, ordering, patch>>

\* The table of transition_purchase_request.
RequestOrigins ==
    [submitted |-> {"draft"}, approved |-> {"submitted"},
     rejected |-> {"submitted"}, cancelled |-> {"draft", "submitted", "approved"}]

TransitionRequest(q, target) ==
    /\ request[q] # None
    /\ request[q].status \in RequestOrigins[target]
    /\ target = "submitted" => request[q].hasLines
    /\ request' = [request EXCEPT ![q].status = target]
    /\ UNCHANGED <<active, rfq, quotation, arriving, ordering, patch>>

\* PurchaseRequestDetailView: read and compare, then save the row that was read.
ReadRequest(q) ==
    /\ request[q] # None /\ request[q].status = "draft"
    /\ patch[q] = None
    /\ patch' = [patch EXCEPT ![q] = request[q]]
    /\ UNCHANGED <<active, sourcing, ordering>>

\* The lines stay as they are now, or become what the PATCH says.
SaveRequest(q, hasLines) ==
    /\ patch[q] # None
    /\ request' = [request EXCEPT ![q] = [patch[q] EXCEPT !.hasLines = hasLines]]
    /\ patch' = [patch EXCEPT ![q] = None]
    /\ UNCHANGED <<active, rfq, quotation, arriving, ordering>>

-----------------------------------------------------------------------------
(* Requests for quotation and quotations.                                  *)

CreateRfq(f, invited) ==
    /\ rfq[f] = None
    /\ invited # {} /\ invited \subseteq active
    /\ rfq' = [rfq EXCEPT ![f] = [status |-> "draft", invited |-> invited]]
    /\ UNCHANGED <<active, request, quotation, arriving, ordering, patch>>

RfqOrigins ==
    [sent |-> {"draft"}, closed |-> {"sent"}, cancelled |-> {"draft", "sent"}]

TransitionRfq(f, target) ==
    /\ rfq[f] # None
    /\ rfq[f].status \in RfqOrigins[target]
    /\ target = "sent" => rfq[f].invited # {}
    /\ rfq' = [rfq EXCEPT ![f].status = target]
    /\ UNCHANGED <<active, request, quotation, arriving, ordering, patch>>

\* RequestForQuotationDetailView; the PATCH names the suppliers, or None.
ReadRfq(f, invited) ==
    /\ rfq[f] # None /\ rfq[f].status = "draft"
    /\ patch[f] = None
    /\ invited # None => invited \subseteq active
    /\ patch' = [patch EXCEPT ![f] = [status |-> "draft", invited |-> invited]]
    /\ UNCHANGED <<active, sourcing, ordering>>

SaveRfq(f) ==
    /\ patch[f] # None
    /\ rfq' = [rfq EXCEPT ![f] =
         [status |-> patch[f].status,
          invited |-> IF patch[f].invited = None THEN rfq[f].invited
                      ELSE patch[f].invited]]
    /\ patch' = [patch EXCEPT ![f] = None]
    /\ UNCHANGED <<active, request, quotation, arriving, ordering>>

\* SupplierQuotationListCreateView reads the RFQ without a lock.
CheckQuotation(f, s) ==
    /\ rfq[f] # None /\ rfq[f].status = "sent"
    /\ s \in rfq[f].invited
    /\ arriving' = arriving \union {<<f, s>>}
    /\ UNCHANGED <<active, request, rfq, quotation, ordering, patch>>

\* An RFQ has one quotation of a supplier (purchase_quote_unique_supplier_rfq).
InsertQuotation(f, s) ==
    /\ <<f, s>> \in arriving /\ quotation[f][s] = None
    /\ quotation' = [quotation EXCEPT ![f][s] = "received"]
    /\ arriving' = arriving \ {<<f, s>>}
    /\ UNCHANGED <<active, request, rfq, ordering, patch>>

\* The insertion fails, or the server stops before it.
AbandonQuotation(f, s) ==
    /\ <<f, s>> \in arriving
    /\ arriving' = arriving \ {<<f, s>>}
    /\ UNCHANGED <<active, request, rfq, quotation, ordering, patch>>

\* select_supplier_quotation.
SelectQuotation(f, s) ==
    /\ rfq[f] # None /\ rfq[f].status \in {"sent", "closed"}
    /\ quotation[f][s] # None
    /\ quotation' = [quotation EXCEPT ![f] = [x \in Suppliers |->
         IF x = s THEN "selected"
         ELSE IF quotation[f][x] = "selected" THEN "rejected" ELSE quotation[f][x]]]
    /\ UNCHANGED <<active, request, rfq, arriving, ordering, patch>>

-----------------------------------------------------------------------------
(* Purchase orders.                                                        *)

\* purchase_order_total.
Total(lines) == SumFunctionOnSet(lines, Items)

CreateOrder(o, s, u, lines) ==
    /\ order[o] = None
    /\ s \in active
    /\ order' = [order EXCEPT ![o] =
         [status |-> "draft", supplier |-> s, creator |-> u, approver |-> None,
          lines |-> lines, received |-> NoLines]]
    /\ UNCHANGED <<active, sourcing, distinct, patch>>

\* The table of transition_purchase_order; "approve" is an action of its own.
OrderOrigins ==
    [pending_approval |-> {"draft"}, ordered |-> {"approved"},
     cancelled |-> {"draft", "pending_approval", "approved", "ordered"}]

TransitionOrder(o, target) ==
    /\ order[o] # None
    /\ order[o].status \in OrderOrigins[target]
    /\ target = "pending_approval" => order[o].lines # NoLines
    /\ order' = [order EXCEPT ![o].status = target]
    /\ UNCHANGED <<active, sourcing, distinct, patch>>

\* assert_purchase_order_approver.
NeedsAnother(lines) == distinct /\ Total(lines) >= Threshold

ApproveOrder(o, u) ==
    /\ order[o] # None
    /\ order[o].status = "pending_approval"
    /\ NeedsAnother(order[o].lines) => u # order[o].creator
    /\ order' = [order EXCEPT ![o].status = "approved", ![o].approver = u]
    /\ UNCHANGED <<active, sourcing, distinct, patch>>

\* PurchaseOrderDetailView: the supplier is validated when the row is read.
ReadOrder(o, s) ==
    /\ order[o] # None /\ order[o].status = "draft"
    /\ patch[o] = None
    /\ s \in active
    /\ patch' = [patch EXCEPT ![o] = [order[o] EXCEPT !.supplier = s]]
    /\ UNCHANGED <<active, sourcing, ordering>>

\* The lines stay as they are now, or are deleted and made anew.
LinesAfter(o, lines) ==
    IF lines = None THEN [lines |-> order[o].lines, received |-> order[o].received]
    ELSE [lines |-> lines, received |-> NoLines]

\* Fault: the PATCH saves the columns it was asked to change.
SaveOrderColumns(o, lines) ==
    /\ patch[o] # None
    /\ order' = [order EXCEPT
         ![o].supplier = patch[o].supplier,
         ![o].lines = LinesAfter(o, lines).lines,
         ![o].received = LinesAfter(o, lines).received]
    /\ patch' = [patch EXCEPT ![o] = None]
    /\ UNCHANGED <<active, sourcing, distinct>>

SaveOrder(o, lines) ==
    /\ patch[o] # None
    /\ order' = [order EXCEPT ![o] =
         [patch[o] EXCEPT !.lines = LinesAfter(o, lines).lines,
                          !.received = LinesAfter(o, lines).received]]
    /\ patch' = [patch EXCEPT ![o] = None]
    /\ UNCHANGED <<active, sourcing, distinct>>

\* A PATCH fails after its check: no permission, or lines that are protected.
AbandonPatch(d) ==
    /\ patch[d] # None
    /\ patch' = [patch EXCEPT ![d] = None]
    /\ UNCHANGED <<active, sourcing, ordering>>

EditRule ==
    /\ distinct' = ~distinct
    /\ UNCHANGED <<active, sourcing, order, patch>>

-----------------------------------------------------------------------------
MaintainSuppliers == \E s \in Suppliers, b \in BOOLEAN : SetSupplierActive(s, b)

RequestGoods ==
    \E q \in Requests :
       \/ \E b \in BOOLEAN : CreateRequest(q, b)
       \/ \E target \in DOMAIN RequestOrigins : TransitionRequest(q, target)
       \/ ReadRequest(q)
       \/ \E b \in BOOLEAN : SaveRequest(q, b)

AskForQuotations ==
    \E f \in Rfqs :
       \/ \E invited \in SUBSET Suppliers : CreateRfq(f, invited)
       \/ \E target \in DOMAIN RfqOrigins : TransitionRfq(f, target)
       \/ \E invited \in (SUBSET Suppliers) \union {None} : ReadRfq(f, invited)
       \/ SaveRfq(f)

CompareQuotations ==
    \E f \in Rfqs, s \in Suppliers :
       \/ CheckQuotation(f, s) \/ InsertQuotation(f, s) \/ AbandonQuotation(f, s)
       \/ SelectQuotation(f, s)

\* Everything but the rewriting of lines, which receipts may forbid.
OrderGoods ==
    \E o \in Orders :
       \/ \E s \in Suppliers, u \in Users, lines \in Lines :
             CreateOrder(o, s, u, lines)
       \/ \E target \in DOMAIN OrderOrigins : TransitionOrder(o, target)
       \/ \E u \in Users : ApproveOrder(o, u)
       \/ \E s \in Suppliers : ReadOrder(o, s)
       \/ SaveOrder(o, None)

EndPatch == \E d \in DOMAIN patch : AbandonPatch(d)

ProcurementNext == \/ MaintainSuppliers \/ RequestGoods \/ AskForQuotations
                   \/ CompareQuotations \/ OrderGoods \/ EndPatch \/ EditRule

-----------------------------------------------------------------------------
(* Properties.                                                             *)

ProcurementTypeOK ==
    /\ active \subseteq Suppliers
    /\ request \in [Requests -> RequestRow \union {None}]
    /\ rfq \in [Rfqs -> RfqRow \union {None}]
    /\ quotation \in [Rfqs -> [Suppliers -> QuotationStatuses \union {None}]]
    /\ arriving \subseteq Rfqs \X Suppliers
    /\ order \in [Orders -> OrderRow \union {None}]
    /\ patch \in [Documents -> RequestPatch \union RfqPatch \union OrderPatch
                                 \union {None}]
    /\ \A q \in Requests : patch[q] \in RequestPatch \union {None}
    /\ \A f \in Rfqs : patch[f] \in RfqPatch \union {None}
    /\ \A o \in Orders : patch[o] \in OrderPatch \union {None}
    /\ distinct \in BOOLEAN

\* An order that may be sent to its supplier has the approval that its lines
\* call for, although an edit that began before it was submitted may be saved
\* at any time: that edit sets the order back to draft.
ApprovalCoversLines ==
    \A o \in Orders :
       order[o] # None /\ order[o].status \in {"approved", "ordered"} =>
          /\ order[o].approver # None
          /\ NeedsAnother(order[o].lines) => order[o].approver # order[o].creator

=============================================================================
