------------------------------ MODULE Receiving ------------------------------
(***************************************************************************)
(* Receipts of ordered goods, ivadoo/purchases/receipt_*: a delivery is    *)
(* recorded against a purchase order, controlled and posted to stock.  It  *)
(* composes Procurement with Quality, whose gate a signal runs when a      *)
(* receipt is saved as posted.  Every service locks the receipt and posting *)
(* locks its lines and those of the order, so each is one action.          *)
(***************************************************************************)
EXTENDS Procurement, Quality

CONSTANTS
    Receipts,     \* PurchaseReceipt primary keys
    Catalogued    \* <<supplier, item>> pairs with a SupplierProduct row

ASSUME CatalogueHolds == Catalogued \subseteq Suppliers \X Items

\* A PurchaseReceiptLine is found by its receipt and the item of its order line.
ReceiptLines == Receipts \X Items

ASSUME LinesAreInspected == Subjects \subseteq ReceiptLines

VARIABLES
    receipt,     \* PurchaseReceipt rows with their lines
    stocked,     \* quantity of the stock movement of each receipt line, 0 if none
    history,     \* receipt lines that have a SupplierPurchaseHistory row
    lastPrice,   \* receipt line that last updated each SupplierProduct
    edited       \* has the approval rule been edited so far (history variable)

receiving == <<receipt, stocked, history, lastPrice>>
purchasing == <<procurement, quality, receiving>>

ReceiptStatuses == {"draft", "controlled", "posted", "cancelled"}
Receipt == [order: Orders, status: ReceiptStatuses, arrived: Lines, accepted: Lines]

ASSUME NoneIsNoReceipt == None \notin Receipt

ReceivingInit ==
    /\ ProcurementInit /\ QualityInit
    /\ receipt = [r \in Receipts |-> None]
    /\ stocked = [l \in ReceiptLines |-> 0]
    /\ history = {}
    /\ lastPrice = [c \in Catalogued |-> None]

-----------------------------------------------------------------------------
OfReceipt(r) == {i \in Items : receipt[r].arrived[i] > 0}

Outstanding(o, i) == order[o].lines[i] - order[o].received[i]

\* PurchaseReceiptSerializer: several draft receipts may await the same goods.
CreateReceipt(r, o, arrived) ==
    /\ receipt[r] = None
    /\ order[o] # None /\ order[o].status = "ordered"
    /\ arrived # NoLines
    /\ \A i \in Items : arrived[i] <= Outstanding(o, i)
    /\ receipt' = [receipt EXCEPT ![r] =
         [order |-> o, status |-> "draft", arrived |-> arrived,
          accepted |-> NoLines]]
    /\ UNCHANGED <<stocked, history, lastPrice>>

\* control_receipt: what is not accepted is rejected.
ControlReceipt(r, accepted) ==
    /\ receipt[r] # None /\ receipt[r].status = "draft"
    /\ \A i \in Items : accepted[i] <= receipt[r].arrived[i]
    /\ receipt' = [receipt EXCEPT ![r].status = "controlled",
                                  ![r].accepted = accepted]
    /\ UNCHANGED <<stocked, history, lastPrice>>

CancelReceipt(r) ==
    /\ receipt[r] # None /\ receipt[r].status \in {"draft", "controlled"}
    /\ receipt' = [receipt EXCEPT ![r].status = "cancelled"]
    /\ UNCHANGED <<stocked, history, lastPrice>>

\* Fault: what is open was only compared when the receipt was created.
FitsOnArrival(r, i) == receipt[r].accepted[i] <= receipt[r].arrived[i]

\* What arrived on a line must still fit the order, accepted or not.
Fits(r, i) == receipt[r].arrived[i] <= Outstanding(receipt[r].order, i)

\* apply_stock_movement under the key of the receipt line, and the other rows
\* that posting writes for each line.
StockLines(r) ==
    stocked' = [l \in ReceiptLines |->
       IF l[1] = r /\ l[2] \in OfReceipt(r) THEN receipt[r].accepted[l[2]]
       ELSE stocked[l]]

CreditOrder(r) ==
    order' = [order EXCEPT ![receipt[r].order].received =
       [i \in Items |-> @[i] + receipt[r].accepted[i]]]

RecordHistory(r) ==
    /\ history' = history \union {<<r, i>> : i \in OfReceipt(r)}
    /\ lastPrice' = [c \in Catalogued |->
         IF /\ c[1] = order[receipt[r].order].supplier
            /\ c[2] \in OfReceipt(r) /\ <<r, c[2]>> \notin history
         THEN <<r, c[2]>> ELSE lastPrice[c]]

\* Fault: a posted receipt may be posted again.
PostReceiptAgain(r) ==
    /\ receipt[r] # None /\ receipt[r].status \in {"controlled", "posted"}
    /\ \A i \in OfReceipt(r) : Fits(r, i) /\ GatePassed(<<r, i>>)
    /\ StockLines(r) /\ CreditOrder(r) /\ RecordHistory(r)
    /\ receipt' = [receipt EXCEPT ![r].status = "posted"]
    /\ UNCHANGED <<active, sourcing, distinct, patch, quality>>

\* post_receipt; the status of the order is not read again.
PostReceipt(r) ==
    /\ receipt[r] # None /\ receipt[r].status = "controlled"
    /\ \A i \in OfReceipt(r) : Fits(r, i) /\ GatePassed(<<r, i>>)
    /\ StockLines(r) /\ CreditOrder(r) /\ RecordHistory(r)
    /\ receipt' = [receipt EXCEPT ![r].status = "posted"]
    /\ UNCHANGED <<active, sourcing, distinct, patch, quality>>

\* PurchaseReceiptLine.purchase_order_line is PROTECT.
Rewritable(o) == \A r \in Receipts : receipt[r] # None => receipt[r].order # o

RewriteOrder(o, lines) == Rewritable(o) /\ SaveOrder(o, lines)

-----------------------------------------------------------------------------
HandleReceipts ==
    \E r \in Receipts :
       \/ \E o \in Orders, arrived \in Lines : CreateReceipt(r, o, arrived)
       \/ \E accepted \in Lines : ControlReceipt(r, accepted)
       \/ CancelReceipt(r)

\* QualityInspection.purchase_receipt_line names a line that exists.
InspectArrivals ==
    /\ Inspect
    /\ \A n \in Inspections : inspection'[n] # NoRow =>
          LET l == inspection'[n].subject
          IN  receipt[l[1]] # None /\ l[2] \in OfReceipt(l[1])

ReceivingNext ==
    \/ ProcurementNext /\ UNCHANGED <<quality, receiving>>
    \/ \E o \in Orders, lines \in Lines :
          RewriteOrder(o, lines) /\ UNCHANGED <<quality, receiving>>
    \/ HandleReceipts /\ UNCHANGED <<procurement, quality>>
    \/ \E r \in Receipts : PostReceipt(r)
    \/ InspectArrivals /\ UNCHANGED <<procurement, receiving>>

ReceivingSpec == ReceivingInit /\ [][ReceivingNext]_purchasing

\* The same, watched by a history variable.
WatchedInit == ReceivingInit /\ edited = FALSE
WatchedNext == ReceivingNext /\ edited' = (edited \/ distinct' # distinct)
WatchedSpec == WatchedInit /\ [][WatchedNext]_<<purchasing, edited>>

-----------------------------------------------------------------------------
(* Properties.                                                             *)

PurchasingTypeOK ==
    /\ ProcurementTypeOK /\ QualityTypeOK
    /\ receipt \in [Receipts -> Receipt \union {None}]
    /\ stocked \in [ReceiptLines -> 0..MaxQuantity]
    /\ history \subseteq ReceiptLines
    /\ lastPrice \in [Catalogued -> ReceiptLines \union {None}]

Posted(o) == {r \in Receipts : /\ receipt[r] # None
                               /\ receipt[r].order = o
                               /\ receipt[r].status = "posted"}

\* An order line counts what its posted receipts put in stock.
OrdersCountWhatWasPosted ==
    \A o \in Orders, i \in Items : order[o] # None =>
       order[o].received[i] =
          SumFunction([r \in Posted(o) |-> stocked[<<r, i>>]])

\* No order line receives more than it orders.
NothingOverReceived ==
    \A o \in Orders, i \in Items : order[o] # None =>
       order[o].received[i] <= order[o].lines[i]

\* What a receipt line put in stock, and its history, are what it accepted, and
\* are there once the receipt is posted.
PostedIsStocked ==
    \A r \in Receipts, i \in Items :
       LET posted == receipt[r] # None /\ receipt[r].status = "posted"
       IN  /\ (<<r, i>> \in history) <=> posted /\ i \in OfReceipt(r)
           /\ stocked[<<r, i>>] = IF posted THEN receipt[r].accepted[i] ELSE 0

\* While the rule was not edited, an order that may be sent was approved by
\* somebody whom the rule accepts for its present lines.
ApprovedWhileRuleStays == ~edited => ApprovalCoversLines

\* docs/operations/phase-3.md: "Only accepted quantity enters stock, and posted
\* supplier history remains traceable."  An order line counts as received what
\* its posted receipts accepted, which is what entered stock and no more than
\* was ordered, whatever was edited, cancelled or posted in between.
ReceivedIsStocked ==
    OrdersCountWhatWasPosted /\ NothingOverReceived /\ PostedIsStocked

\* Goods of a line enter stock only while no blocking inspection refuses it.
RefusedGoodsStayOut ==
    [][\A l \in ReceiptLines : stocked'[l] # stocked[l] => ~Refused(l)]_purchasing

=============================================================================
