--------------------------- MODULE ReceivingProofs ---------------------------
(***************************************************************************)
(* Proofs about Receiving: no order line receives more than it orders, and *)
(* what is in stock is what posted receipts accepted, although receipts    *)
(* compete for an order and edits of it are saved late.                    *)
(***************************************************************************)
EXTENDS Receiving, SumTheorems, TLAPS

\* A PATCH in flight is of a document that exists.
PatchesHaveDocuments ==
    /\ \A q \in Requests : patch[q] # None => request[q] # None
    /\ \A f \in Rfqs : patch[f] # None => rfq[f] # None
    /\ \A o \in Orders : patch[o] # None => order[o] # None

\* A receipt is of an order that exists and accepts some of what arrived.
ReceiptsAreWithin ==
    \A r \in Receipts : receipt[r] # None =>
       /\ order[receipt[r].order] # None
       /\ \A i \in Items : receipt[r].accepted[i] <= receipt[r].arrived[i]

PInv == /\ ProcurementTypeOK /\ PatchesHaveDocuments

RInv == /\ receipt \in [Receipts -> Receipt \union {None}]
        /\ stocked \in [ReceiptLines -> 0..MaxQuantity]
        /\ history \subseteq ReceiptLines
        /\ lastPrice \in [Catalogued -> ReceiptLines \union {None}]
        /\ ReceiptsAreWithin

\* Documents that exist continue to.
OrdersStay == \A o \in Orders : order[o] # None => order'[o] # None

\* The ordered and received quantities of an order stay in proportion.
OrdersKept == NothingOverReceived' /\ OrdersStay

LEMMA LinesAreBounded ==
  /\ NoLines \in Lines
  /\ \A lines \in Lines, i \in Items : lines[i] \in 0..MaxQuantity
  BY BoundIsNatural DEF NoLines, Lines

LEMMA PatchesAreDrafts ==
  /\ RequestPatch \subseteq RequestRow
  /\ OrderPatch \subseteq OrderRow
  BY DEF RequestPatch, RequestRow, RequestStatuses, OrderPatch, OrderRow, OrderStatuses

\* A PATCH of one document leaves the others as they are.
LEMMA PatchOf ==
  ASSUME ProcurementTypeOK, NEW d \in Documents,
         NEW row \in RequestPatch \union RfqPatch \union OrderPatch \union {None},
         patch' = [patch EXCEPT ![d] = row]
  PROVE  /\ patch' \in [Documents -> RequestPatch \union RfqPatch \union OrderPatch
                                      \union {None}]
         /\ patch'[d] = row
         /\ \A e \in Documents \ {d} : patch'[e] = patch[e]
  BY DEF ProcurementTypeOK

-----------------------------------------------------------------------------
(* Suppliers, requests and requests for quotation.                         *)

LEMMA SupplierStep ==
  ASSUME PInv, MaintainSuppliers
  PROVE  PInv'
  BY DEF PInv, ProcurementTypeOK, PatchesHaveDocuments, MaintainSuppliers,
         SetSupplierActive, sourcing, ordering

LEMMA RequestStep ==
  ASSUME PInv, RequestGoods
  PROVE  PInv'
  <1> USE DEF PInv, ProcurementTypeOK, PatchesHaveDocuments, ordering, sourcing
  <1>1. PICK q \in Requests :
          \/ \E b \in BOOLEAN : CreateRequest(q, b)
          \/ \E target \in DOMAIN RequestOrigins : TransitionRequest(q, target)
          \/ ReadRequest(q)
          \/ \E b \in BOOLEAN : SaveRequest(q, b)
    BY DEF RequestGoods
  <1>2. q \in Documents /\ q \notin Rfqs /\ q \notin Orders
    BY KeysAreDistinct DEF Documents
  <1>3. ASSUME NEW row \in RequestRow, request' = [request EXCEPT ![q] = row]
        PROVE  /\ request' \in [Requests -> RequestRow \union {None}]
               /\ \A x \in Requests : request[x] # None => request'[x] # None
               /\ request'[q] # None
    BY <1>3, NoneIsNoDocument
  <1>4. ASSUME NEW b \in BOOLEAN, CreateRequest(q, b)
        PROVE  PInv'
    <2>1. [status |-> "draft", hasLines |-> b] \in RequestRow
      BY DEF RequestRow, RequestStatuses
    <2>2. QED
      BY <1>3, <1>4, <2>1 DEF CreateRequest
  <1>5. ASSUME NEW target \in DOMAIN RequestOrigins, TransitionRequest(q, target)
        PROVE  PInv'
    <2>1. target \in RequestStatuses
      BY DEF RequestOrigins, RequestStatuses
    <2>2. [request[q] EXCEPT !.status = target] \in RequestRow
      BY <1>5, <2>1 DEF TransitionRequest, RequestRow
    <2>3. request' = [request EXCEPT ![q] = [request[q] EXCEPT !.status = target]]
      BY <1>5 DEF TransitionRequest
    <2>4. QED
      BY <1>3, <1>5, <2>2, <2>3 DEF TransitionRequest
  <1>6. CASE ReadRequest(q)
    <2>1. request[q] \in RequestPatch
      BY <1>6 DEF ReadRequest, RequestRow, RequestPatch
    <2>2. QED
      BY <1>2, <1>6, <2>1, PatchOf DEF ReadRequest, Documents
  <1>7. ASSUME NEW b \in BOOLEAN, SaveRequest(q, b)
        PROVE  PInv'
    <2>1. [patch[q] EXCEPT !.hasLines = b] \in RequestRow
      BY <1>7 DEF SaveRequest, RequestPatch, RequestRow, RequestStatuses
    <2>2. QED
      BY <1>2, <1>3, <1>7, <2>1, PatchOf DEF SaveRequest, Documents
  <1>8. QED
    BY <1>1, <1>4, <1>5, <1>6, <1>7

LEMMA RfqStep ==
  ASSUME PInv, AskForQuotations
  PROVE  PInv'
  <1> USE DEF PInv, ProcurementTypeOK, PatchesHaveDocuments, ordering, sourcing
  <1>1. PICK f \in Rfqs :
          \/ \E invited \in SUBSET Suppliers : CreateRfq(f, invited)
          \/ \E target \in DOMAIN RfqOrigins : TransitionRfq(f, target)
          \/ \E invited \in (SUBSET Suppliers) \union {None} : ReadRfq(f, invited)
          \/ SaveRfq(f)
    BY DEF AskForQuotations
  <1>2. f \in Documents /\ f \notin Requests /\ f \notin Orders
    BY KeysAreDistinct DEF Documents
  <1>3. ASSUME NEW row \in RfqRow, rfq' = [rfq EXCEPT ![f] = row]
        PROVE  /\ rfq' \in [Rfqs -> RfqRow \union {None}]
               /\ \A x \in Rfqs : rfq[x] # None => rfq'[x] # None
               /\ rfq'[f] # None
    BY <1>3, NoneIsNoDocument
  <1>4. ASSUME NEW invited \in SUBSET Suppliers, CreateRfq(f, invited)
        PROVE  PInv'
    <2>1. [status |-> "draft", invited |-> invited] \in RfqRow
      BY DEF RfqRow, RfqStatuses
    <2>2. QED
      BY <1>3, <1>4, <2>1 DEF CreateRfq
  <1>5. ASSUME NEW target \in DOMAIN RfqOrigins, TransitionRfq(f, target)
        PROVE  PInv'
    <2>1. target \in RfqStatuses
      BY DEF RfqOrigins, RfqStatuses
    <2>2. [rfq[f] EXCEPT !.status = target] \in RfqRow
      BY <1>5, <2>1 DEF TransitionRfq, RfqRow
    <2>3. rfq' = [rfq EXCEPT ![f] = [rfq[f] EXCEPT !.status = target]]
      BY <1>5 DEF TransitionRfq
    <2>4. QED
      BY <1>3, <1>5, <2>2, <2>3 DEF TransitionRfq
  <1>6. ASSUME NEW invited \in (SUBSET Suppliers) \union {None}, ReadRfq(f, invited)
        PROVE  PInv'
    <2>1. [status |-> "draft", invited |-> invited] \in RfqPatch
      BY DEF RfqPatch
    <2>2. QED
      BY <1>2, <1>6, <2>1, PatchOf DEF ReadRfq, Documents
  <1>7. CASE SaveRfq(f)
    <2> DEFINE row == [status |-> patch[f].status,
                       invited |-> IF patch[f].invited = None THEN rfq[f].invited
                                   ELSE patch[f].invited]
    <2>1. patch[f] \in RfqPatch /\ rfq[f] \in RfqRow
      BY <1>7 DEF SaveRfq
    <2>2. row \in RfqRow
      BY <2>1 DEF RfqPatch, RfqRow, RfqStatuses
    <2>3. rfq' = [rfq EXCEPT ![f] = row]
      BY <1>7 DEF SaveRfq
    <2> HIDE DEF row
    <2>4. QED
      BY <1>2, <1>3, <1>7, <2>2, <2>3, PatchOf DEF SaveRfq, Documents
  <1>8. QED
    BY <1>1, <1>4, <1>5, <1>6, <1>7

LEMMA QuotationStep ==
  ASSUME PInv, CompareQuotations
  PROVE  PInv'
  <1> USE DEF PInv, ProcurementTypeOK, PatchesHaveDocuments, ordering, sourcing
  <1>1. PICK f \in Rfqs, s \in Suppliers :
          \/ CheckQuotation(f, s) \/ InsertQuotation(f, s) \/ AbandonQuotation(f, s)
          \/ SelectQuotation(f, s)
    BY DEF CompareQuotations
  <1>2. CASE CheckQuotation(f, s)
    BY <1>2 DEF CheckQuotation
  <1>3. CASE InsertQuotation(f, s)
    BY <1>3 DEF InsertQuotation, QuotationStatuses
  <1>4. CASE AbandonQuotation(f, s)
    BY <1>4 DEF AbandonQuotation
  <1>5. CASE SelectQuotation(f, s)
    <2>1. quotation' \in [Rfqs -> [Suppliers -> QuotationStatuses \union {None}]]
      BY <1>5 DEF SelectQuotation, QuotationStatuses
    <2>2. QED
      BY <1>5, <2>1 DEF SelectQuotation
  <1>6. QED
    BY <1>1, <1>2, <1>3, <1>4, <1>5

-----------------------------------------------------------------------------
(* Purchase orders.                                                        *)

\* A step that writes the row of one order, for no less than it received.
LEMMA RowOfOrder ==
  ASSUME ProcurementTypeOK, NothingOverReceived, NEW o \in Orders, NEW row \in OrderRow,
         \A i \in Items : row.received[i] <= row.lines[i],
         order' = [order EXCEPT ![o] = row]
  PROVE  /\ order' \in [Orders -> OrderRow \union {None}]
         /\ OrdersKept
         /\ order'[o] # None
  BY NoneIsNoDocument DEF ProcurementTypeOK, OrdersKept, NothingOverReceived, OrdersStay

LEMMA SaveOrderStep ==
  ASSUME PInv, NothingOverReceived, NEW o \in Orders,
         NEW lines \in Lines \union {None}, SaveOrder(o, lines)
  PROVE  PInv' /\ OrdersKept
  <1> USE DEF PInv, ProcurementTypeOK, PatchesHaveDocuments, ordering, sourcing
  <1> DEFINE after == LinesAfter(o, lines)
             row == [patch[o] EXCEPT !.lines = after.lines, !.received = after.received]
  <1>1. patch[o] \in OrderPatch /\ order[o] \in OrderRow
    BY DEF SaveOrder
  <1>2. /\ after.lines \in Lines /\ after.received \in Lines
        /\ \A i \in Items : after.received[i] <= after.lines[i]
    <2>1. CASE lines = None
      BY <1>1, <2>1, NoneIsNoDocument DEF LinesAfter, OrderRow, NothingOverReceived, SaveOrder
    <2>2. CASE lines # None
      <3>1. after = [lines |-> lines, received |-> NoLines] /\ lines \in Lines
        BY <2>2 DEF LinesAfter
      <3>2. \A i \in Items : NoLines[i] = 0 /\ lines[i] >= 0
        BY <3>1, LinesAreBounded, BoundIsNatural DEF NoLines
      <3>3. QED
        BY <3>1, <3>2, LinesAreBounded
    <2>3. QED
      BY <2>1, <2>2
  <1>3. /\ row \in OrderRow
        /\ row.received = after.received /\ row.lines = after.lines
    <2> HIDE DEF after
    <2>1. QED
      BY <1>1, <1>2 DEF OrderPatch, OrderRow, OrderStatuses
  <1>4. order' = [order EXCEPT ![o] = row]
    BY DEF SaveOrder
  <1> HIDE DEF row, after
  <1>5. /\ order' \in [Orders -> OrderRow \union {None}]
        /\ OrdersKept /\ order'[o] # None
    BY <1>2, <1>3, <1>4, RowOfOrder
  <1>6. patch' = [patch EXCEPT ![o] = None]
    BY DEF SaveOrder
  <1>7. o \in Documents /\ o \notin Requests /\ o \notin Rfqs
    BY KeysAreDistinct DEF Documents
  <1>8. /\ patch'[o] = None
        /\ patch' \in [Documents -> RequestPatch \union RfqPatch \union OrderPatch
                                      \union {None}]
        /\ \A e \in Documents \ {o} : patch'[e] = patch[e]
    BY <1>6, <1>7, PatchOf
  <1>9. UNCHANGED <<active, sourcing, distinct>>
    BY DEF SaveOrder
  <1>10. QED
    BY <1>5, <1>7, <1>8, <1>9 DEF OrdersKept, OrdersStay, Documents

LEMMA OrderStep ==
  ASSUME PInv, NothingOverReceived, OrderGoods
  PROVE  PInv' /\ OrdersKept
  <1> USE DEF PInv, ProcurementTypeOK, PatchesHaveDocuments, ordering, sourcing
  <1>1. PICK o \in Orders :
          \/ \E s \in Suppliers, u \in Users, lines \in Lines :
                CreateOrder(o, s, u, lines)
          \/ \E target \in DOMAIN OrderOrigins : TransitionOrder(o, target)
          \/ \E u \in Users : ApproveOrder(o, u)
          \/ \E s \in Suppliers : ReadOrder(o, s)
          \/ SaveOrder(o, None)
    BY DEF OrderGoods
  <1>2. ASSUME NEW row \in OrderRow, \A i \in Items : row.received[i] <= row.lines[i],
               order' = [order EXCEPT ![o] = row],
               UNCHANGED <<active, sourcing, distinct, patch>>
        PROVE  PInv' /\ OrdersKept
    <2>1. /\ order' \in [Orders -> OrderRow \union {None}]
          /\ OrdersKept /\ order'[o] # None
      BY <1>2, RowOfOrder
    <2>2. QED
      BY <1>2, <2>1 DEF OrdersKept, OrdersStay
  <1>3. ASSUME NEW s \in Suppliers, NEW u \in Users, NEW lines \in Lines,
               CreateOrder(o, s, u, lines)
        PROVE  PInv' /\ OrdersKept
    <2> DEFINE row == [status |-> "draft", supplier |-> s, creator |-> u,
                       approver |-> None, lines |-> lines, received |-> NoLines]
    <2>1. row \in OrderRow
      BY LinesAreBounded DEF OrderRow, OrderStatuses
    <2>2. \A i \in Items : row.received[i] <= row.lines[i]
      BY LinesAreBounded, BoundIsNatural DEF NoLines
    <2>3. order' = [order EXCEPT ![o] = row]
      BY <1>3 DEF CreateOrder
    <2> HIDE DEF row
    <2>4. QED
      BY <1>2, <1>3, <2>1, <2>2, <2>3 DEF CreateOrder
  <1>4. ASSUME NEW target \in DOMAIN OrderOrigins, TransitionOrder(o, target)
        PROVE  PInv' /\ OrdersKept
    <2> DEFINE row == [order[o] EXCEPT !.status = target]
    <2>1. target \in OrderStatuses /\ order[o] \in OrderRow
      BY <1>4 DEF OrderOrigins, OrderStatuses, TransitionOrder
    <2>2. row \in OrderRow /\ row.received = order[o].received /\ row.lines = order[o].lines
      BY <2>1 DEF OrderRow
    <2>3. order' = [order EXCEPT ![o] = row]
      BY <1>4 DEF TransitionOrder
    <2> HIDE DEF row
    <2>4. QED
      BY <1>2, <1>4, <2>2, <2>3 DEF TransitionOrder, NothingOverReceived
  <1>5. ASSUME NEW u \in Users, ApproveOrder(o, u)
        PROVE  PInv' /\ OrdersKept
    <2> DEFINE row == [order[o] EXCEPT !.status = "approved", !.approver = u]
    <2>1. order[o] \in OrderRow
      BY <1>5 DEF ApproveOrder
    <2>2. row \in OrderRow /\ row.received = order[o].received /\ row.lines = order[o].lines
      BY <2>1 DEF OrderRow, OrderStatuses
    <2>3. order' = [order EXCEPT ![o] = row]
      BY <1>5 DEF ApproveOrder
    <2> HIDE DEF row
    <2>4. QED
      BY <1>2, <1>5, <2>2, <2>3 DEF ApproveOrder, NothingOverReceived
  <1>6. ASSUME NEW s \in Suppliers, ReadOrder(o, s)
        PROVE  PInv' /\ OrdersKept
    <2> DEFINE row == [order[o] EXCEPT !.supplier = s]
    <2>1. row \in OrderPatch
      <3>1. order[o] \in OrderRow /\ order[o].status = "draft"
        BY <1>6 DEF ReadOrder
      <3>2. QED
        BY <3>1 DEF OrderRow, OrderPatch
    <2>2. patch' = [patch EXCEPT ![o] = row]
      BY <1>6 DEF ReadOrder
    <2>3. o \in Documents /\ o \notin Requests /\ o \notin Rfqs
      BY KeysAreDistinct DEF Documents
    <2> HIDE DEF row
    <2>4. QED
      BY <1>6, <2>1, <2>2, <2>3, PatchOf
         DEF ReadOrder, Documents, OrdersKept, OrdersStay, NothingOverReceived
  <1>7. CASE SaveOrder(o, None)
    BY <1>7, SaveOrderStep
  <1>8. QED
    BY <1>1, <1>3, <1>4, <1>5, <1>6, <1>7

\* What is left: PATCHes that fail and edits of the rule.
LEMMA OtherStep ==
  ASSUME PInv, EndPatch \/ EditRule
  PROVE  PInv' /\ order' = order
  <1> USE DEF PInv, ProcurementTypeOK, PatchesHaveDocuments, ordering, sourcing
  <1>1. CASE EditRule
    BY <1>1 DEF EditRule
  <1>2. CASE EndPatch
    <2>1. PICK d \in Documents : AbandonPatch(d)
      BY <1>2 DEF EndPatch
    <2>2. QED
      BY <2>1, PatchOf DEF AbandonPatch, Documents
  <1>3. QED
    BY <1>1, <1>2

\* Together.
LEMMA ProcurementStep ==
  ASSUME PInv, NothingOverReceived,
         \/ ProcurementNext
         \/ \E o \in Orders, lines \in Lines : SaveOrder(o, lines)
         \/ UNCHANGED procurement
  PROVE  PInv' /\ OrdersKept
  <1> USE DEF sourcing, ordering
  <1>1. ASSUME order' = order PROVE OrdersKept
    BY <1>1 DEF OrdersKept, OrdersStay, NothingOverReceived
  <1>3. CASE MaintainSuppliers
    BY <1>1, <1>3, SupplierStep DEF MaintainSuppliers, SetSupplierActive
  <1>4. CASE RequestGoods
    BY <1>1, <1>4, RequestStep
       DEF RequestGoods, CreateRequest, TransitionRequest, ReadRequest, SaveRequest
  <1>5. CASE AskForQuotations
    BY <1>1, <1>5, RfqStep
       DEF AskForQuotations, CreateRfq, TransitionRfq, ReadRfq, SaveRfq
  <1>6. CASE CompareQuotations
    BY <1>1, <1>6, QuotationStep
       DEF CompareQuotations, CheckQuotation, InsertQuotation, AbandonQuotation,
           SelectQuotation
  <1>7. CASE OrderGoods
    BY <1>7, OrderStep
       DEF OrderGoods, CreateOrder, TransitionOrder, ApproveOrder, ReadOrder, SaveOrder
  <1>8. ASSUME NEW o \in Orders, NEW lines \in Lines, SaveOrder(o, lines)
        PROVE  PInv' /\ OrdersKept
    BY <1>8, SaveOrderStep DEF SaveOrder
  <1>9. CASE EndPatch \/ EditRule
    BY <1>1, <1>9, OtherStep
  <1>10. CASE UNCHANGED procurement
    BY <1>1, <1>10
       DEF procurement, PInv, ProcurementTypeOK, PatchesHaveDocuments
  <1>11. QED
    BY <1>3, <1>4, <1>5, <1>6, <1>7, <1>8, <1>9, <1>10 DEF ProcurementNext

-----------------------------------------------------------------------------
(* Receipts.                                                               *)

\* PostedIsStocked, of one receipt line.
IsPosted(r) == receipt[r] # None /\ receipt[r].status = "posted"

PostedAs(r, i) ==
    /\ (<<r, i>> \in history) <=> IsPosted(r) /\ i \in OfReceipt(r)
    /\ stocked[<<r, i>>] = IF IsPosted(r) THEN receipt[r].accepted[i] ELSE 0

LEMMA PostedLines == PostedIsStocked <=> \A r \in Receipts, i \in Items : PostedAs(r, i)
  BY DEF PostedIsStocked, PostedAs, IsPosted

\* A step that writes the row of a receipt that is not posted, before or after.
LEMMA RowOfReceipt ==
  ASSUME RInv, OrdersStay, PInv, NEW r \in Receipts, NEW row \in Receipt,
         order[row.order] # None,
         \A i \in Items : row.accepted[i] <= row.arrived[i],
         receipt' = [receipt EXCEPT ![r] = row],
         receipt[r] = None \/ receipt[r].status # "posted",
         row.status # "posted",
         PostedIsStocked,
         UNCHANGED <<stocked, history, lastPrice>>
  PROVE  RInv' /\ PostedIsStocked'
  <1>1. /\ receipt' \in [Receipts -> Receipt \union {None}]
        /\ receipt'[r] = row
        /\ \A x \in Receipts \ {r} : receipt'[x] = receipt[x]
    BY DEF RInv
  <1>2. \A x \in Receipts : receipt[x] # None => receipt[x].order \in Orders
    BY DEF RInv, Receipt
  <1>3. row.order \in Orders
    BY DEF Receipt
  <1>4. RInv'
    BY <1>1, <1>2, <1>3 DEF RInv, ReceiptsAreWithin, OrdersStay
  <1>5. ASSUME NEW x \in Receipts, NEW i \in Items
        PROVE  PostedAs(x, i)'
    <2>1. PostedAs(x, i)
      BY PostedLines
    <2>2. CASE x = r
      BY <1>1, <2>1, <2>2 DEF PostedAs, IsPosted
    <2>3. CASE x # r
      <3>1. receipt'[x] = receipt[x] /\ OfReceipt(x)' = OfReceipt(x)
        BY <1>1, <2>3 DEF OfReceipt
      <3>2. QED
        BY <2>1, <3>1 DEF PostedAs, IsPosted
    <2>4. QED
      BY <2>2, <2>3
  <1>6. PostedIsStocked'
    BY <1>5 DEF PostedIsStocked, PostedAs, IsPosted
  <1>7. QED
    BY <1>4, <1>6

LEMMA ReceiptStep ==
  ASSUME RInv, PInv, PostedIsStocked, HandleReceipts, order' = order
  PROVE  RInv' /\ PostedIsStocked'
  <1>1. PICK r \in Receipts :
          \/ \E o \in Orders, arrived \in Lines : CreateReceipt(r, o, arrived)
          \/ \E accepted \in Lines : ControlReceipt(r, accepted)
          \/ CancelReceipt(r)
    BY DEF HandleReceipts
  <1>2. OrdersStay
    BY DEF OrdersStay
  <1>3. receipt[r] # None => receipt[r] \in Receipt
    BY DEF RInv
  <1>4. ASSUME NEW o \in Orders, NEW arrived \in Lines, CreateReceipt(r, o, arrived)
        PROVE  RInv' /\ PostedIsStocked'
    <2> DEFINE row == [order |-> o, status |-> "draft", arrived |-> arrived,
                       accepted |-> NoLines]
    <2>1. row \in Receipt
      BY LinesAreBounded DEF Receipt, ReceiptStatuses
    <2>2. \A i \in Items : row.accepted[i] <= row.arrived[i]
      BY LinesAreBounded, BoundIsNatural DEF NoLines
    <2>3. receipt' = [receipt EXCEPT ![r] = row]
      BY <1>4 DEF CreateReceipt
    <2>4. row.order = o /\ row.status = "draft"
      OBVIOUS
    <2> HIDE DEF row
    <2>5. QED
      BY <1>2, <1>4, <2>1, <2>2, <2>3, <2>4, RowOfReceipt DEF CreateReceipt
  <1>5. ASSUME NEW accepted \in Lines, ControlReceipt(r, accepted)
        PROVE  RInv' /\ PostedIsStocked'
    <2> DEFINE row == [receipt[r] EXCEPT !.status = "controlled", !.accepted = accepted]
    <2>1. row \in Receipt
      BY <1>3, <1>5 DEF ControlReceipt, Receipt, ReceiptStatuses
    <2>2. /\ row.status = "controlled" /\ row.order = receipt[r].order
          /\ row.accepted = accepted /\ row.arrived = receipt[r].arrived
      BY <1>3, <1>5 DEF ControlReceipt, Receipt
    <2>3. receipt' = [receipt EXCEPT ![r] = row]
      BY <1>5 DEF ControlReceipt, RInv
    <2> HIDE DEF row
    <2>4. /\ receipt[r] # None /\ receipt[r].status # "posted"
          /\ order[row.order] # None
          /\ \A i \in Items : row.accepted[i] <= row.arrived[i]
          /\ UNCHANGED <<stocked, history, lastPrice>>
      BY <1>5, <2>2 DEF ControlReceipt, RInv, ReceiptsAreWithin
    <2>5. QED
      BY <1>2, <2>1, <2>2, <2>3, <2>4, RowOfReceipt
  <1>6. CASE CancelReceipt(r)
    <2> DEFINE row == [receipt[r] EXCEPT !.status = "cancelled"]
    <2>1. row \in Receipt
      BY <1>3, <1>6 DEF CancelReceipt, Receipt, ReceiptStatuses
    <2>2. /\ row.status = "cancelled" /\ row.order = receipt[r].order
          /\ row.accepted = receipt[r].accepted /\ row.arrived = receipt[r].arrived
      BY <1>3, <1>6 DEF CancelReceipt, Receipt
    <2>3. receipt' = [receipt EXCEPT ![r] = row]
      BY <1>6 DEF CancelReceipt
    <2> HIDE DEF row
    <2>4. /\ receipt[r] # None /\ receipt[r].status # "posted"
          /\ order[row.order] # None
          /\ \A i \in Items : row.accepted[i] <= row.arrived[i]
          /\ UNCHANGED <<stocked, history, lastPrice>>
      BY <1>6, <2>2 DEF CancelReceipt, RInv, ReceiptsAreWithin
    <2>5. QED
      BY <1>2, <2>1, <2>2, <2>3, <2>4, RowOfReceipt
  <1>7. QED
    BY <1>1, <1>4, <1>5, <1>6

\* The lines of a receipt that is posted fit the order, so that crediting them
\* keeps it within what it orders.
LEMMA PostingStep ==
  ASSUME RInv, PInv, NothingOverReceived, PostedIsStocked,
         NEW r \in Receipts, PostReceipt(r)
  PROVE  RInv' /\ PInv' /\ OrdersKept /\ PostedIsStocked'
  <1> DEFINE o == receipt[r].order
             arrived == receipt[r].arrived
             accepted == receipt[r].accepted
             row == [receipt[r] EXCEPT !.status = "posted"]
             credited == [i \in Items |-> order[o].received[i] + accepted[i]]
             credit == [order[o] EXCEPT !.received = credited]
  <1>1. /\ receipt[r] \in Receipt /\ receipt[r] # None
        /\ receipt[r].status = "controlled"
        /\ o \in Orders /\ arrived \in Lines /\ accepted \in Lines
        /\ order[o] \in OrderRow
    BY DEF PostReceipt, RInv, Receipt, ReceiptsAreWithin, PInv, ProcurementTypeOK
  <1>2. /\ order[o].lines \in Lines /\ order[o].received \in Lines
        /\ \A i \in Items : order[o].received[i] <= order[o].lines[i]
    BY <1>1 DEF OrderRow, NothingOverReceived, RInv, ReceiptsAreWithin
  <1>3. ASSUME NEW i \in Items
        PROVE  /\ accepted[i] \in Nat /\ accepted[i] <= arrived[i]
               /\ credited[i] \in 0..MaxQuantity
               /\ credited[i] <= order[o].lines[i]
    <2>1. /\ accepted[i] \in 0..MaxQuantity /\ arrived[i] \in 0..MaxQuantity
          /\ order[o].lines[i] \in 0..MaxQuantity
          /\ order[o].received[i] \in 0..MaxQuantity
      BY <1>1, <1>2, LinesAreBounded
    <2>2. accepted[i] <= arrived[i]
      BY <1>1 DEF RInv, ReceiptsAreWithin
    <2>3. arrived[i] > 0 => arrived[i] <= order[o].lines[i] - order[o].received[i]
      BY DEF PostReceipt, OfReceipt, Fits, Outstanding
    <2>4. QED
      BY <1>2, <2>1, <2>2, <2>3, BoundIsNatural
  <1>4. /\ credit \in OrderRow
        /\ \A i \in Items : credit.received[i] <= credit.lines[i]
    <2>1. credited \in Lines
      BY <1>3 DEF Lines
    <2>2. /\ credit \in OrderRow
          /\ credit.received = credited /\ credit.lines = order[o].lines
      <3> HIDE DEF credited
      <3>1. QED
        BY <1>1, <2>1 DEF OrderRow
    <2>3. QED
      BY <1>3, <2>2
  <1>5. order' = [order EXCEPT ![o] = credit]
    BY DEF PostReceipt, CreditOrder
  <1>6. /\ order' \in [Orders -> OrderRow \union {None}]
        /\ OrdersKept
    <2> HIDE DEF credit, o
    <2>1. QED
      BY <1>1, <1>4, <1>5, RowOfOrder DEF PInv
  <1>7. PInv'
    BY <1>6 DEF PostReceipt, PInv, ProcurementTypeOK, PatchesHaveDocuments, sourcing,
                OrdersKept, OrdersStay
  <1>8. /\ row \in Receipt /\ row.status = "posted" /\ row.order = o
        /\ row.arrived = arrived /\ row.accepted = accepted /\ row # None
    BY <1>1, NoneIsNoReceipt DEF Receipt, ReceiptStatuses
  <1>9. receipt' = [receipt EXCEPT ![r] = row]
    BY DEF PostReceipt
  <1> HIDE DEF row, credit, credited, o, arrived, accepted
  <1>10. /\ receipt' \in [Receipts -> Receipt \union {None}]
         /\ receipt'[r] = row
         /\ \A x \in Receipts \ {r} : receipt'[x] = receipt[x]
    BY <1>8, <1>9 DEF RInv
  <1>11. ReceiptsAreWithin'
    <2>1. \A x \in Receipts : receipt[x] # None => receipt[x].order \in Orders
      BY DEF RInv, Receipt
    <2>2. order'[o] # None
      BY <1>1, <1>6 DEF OrdersKept, OrdersStay, RInv, ReceiptsAreWithin, o
    <2>3. QED
      BY <1>3, <1>6, <1>8, <1>10, <2>1, <2>2
         DEF RInv, ReceiptsAreWithin, OrdersKept, OrdersStay
  <1>12. /\ \A l \in ReceiptLines : stocked'[l] =
              IF l[1] = r /\ l[2] \in OfReceipt(r) THEN accepted[l[2]] ELSE stocked[l]
         /\ stocked' \in [ReceiptLines -> 0..MaxQuantity]
    <2>1. stocked' = [l \in ReceiptLines |->
             IF l[1] = r /\ l[2] \in OfReceipt(r) THEN accepted[l[2]] ELSE stocked[l]]
      BY DEF PostReceipt, StockLines, accepted
    <2>2. \A i \in OfReceipt(r) : accepted[i] \in 0..MaxQuantity
      BY <1>1, LinesAreBounded DEF OfReceipt
    <2>3. QED
      BY <2>1, <2>2 DEF RInv
  <1>13. /\ history' = history \union {<<r, i>> : i \in OfReceipt(r)}
         /\ history' \subseteq ReceiptLines
    BY DEF PostReceipt, RecordHistory, RInv, ReceiptLines, OfReceipt
  <1>14. lastPrice' \in [Catalogued -> ReceiptLines \union {None}]
    BY DEF PostReceipt, RecordHistory, RInv, ReceiptLines, OfReceipt
  <1>15. ASSUME NEW x \in Receipts, NEW i \in Items
         PROVE  PostedAs(x, i)'
    <2>1. PostedAs(x, i) /\ <<x, i>> \in ReceiptLines
      BY PostedLines DEF ReceiptLines
    <2>2. CASE x # r
      <3>1. receipt'[x] = receipt[x] /\ OfReceipt(x)' = OfReceipt(x)
        BY <1>10, <2>2 DEF OfReceipt
      <3>2. stocked'[<<x, i>>] = stocked[<<x, i>>]
        BY <1>12, <2>1, <2>2
      <3>3. <<x, i>> \in history' <=> <<x, i>> \in history
        BY <1>13, <2>2
      <3>4. QED
        BY <2>1, <3>1, <3>2, <3>3 DEF PostedAs, IsPosted
    <2>3. CASE x = r
      <3>1. IsPosted(r)' /\ OfReceipt(r)' = OfReceipt(r) /\ ~IsPosted(r)
        BY <1>1, <1>8, <1>10 DEF IsPosted, OfReceipt, arrived
      <3>2. i \in OfReceipt(r) <=> <<r, i>> \in history'
        BY <1>13, <2>1, <2>3, <3>1 DEF PostedAs
      <3>3. stocked'[<<r, i>>] = accepted[i]
        <4>1. CASE i \in OfReceipt(r)
          BY <1>12, <2>1, <2>3, <4>1
        <4>2. CASE i \notin OfReceipt(r)
          <5>1. arrived[i] \in Nat /\ ~(arrived[i] > 0)
            BY <1>1, <4>2, LinesAreBounded DEF OfReceipt, arrived
          <5>2. accepted[i] = 0
            BY <1>3, <5>1
          <5>3. stocked'[<<r, i>>] = stocked[<<r, i>>]
            BY <1>12, <2>1, <2>3, <4>2
          <5>4. QED
            BY <2>1, <2>3, <3>1, <5>2, <5>3 DEF PostedAs
        <4>3. QED
          BY <4>1, <4>2
      <3>4. receipt'[r].accepted = accepted
        BY <1>8, <1>10
      <3>5. QED
        BY <2>3, <3>1, <3>2, <3>3, <3>4 DEF PostedAs
    <2>4. QED
      BY <2>2, <2>3
  <1>16. PostedIsStocked'
    BY <1>15 DEF PostedIsStocked, PostedAs, IsPosted
  <1>17. QED
    BY <1>6, <1>7, <1>10, <1>11, <1>12, <1>13, <1>14, <1>16 DEF RInv

-----------------------------------------------------------------------------
(* Inspections.                                                            *)

LEMMA InspectionStep ==
  ASSUME QualityTypeOK, Inspect
  PROVE  QualityTypeOK'
  <1> USE DEF QualityTypeOK
  <1>1. ASSUME NEW n \in Inspections, NEW subject \in Subjects, NEW blocking \in BOOLEAN,
               NEW findings \in {"none", "faults", "pending"},
               NEW parent \in Inspections \union {NoInspection},
               CreateInspection(n, subject, blocking, findings, parent)
        PROVE  QualityTypeOK'
    BY <1>1 DEF CreateInspection, InspectionRow
  <1>2. ASSUME NEW n \in Inspections, NEW decision \in InspectionDecisions,
               CompleteInspection(n, decision)
        PROVE  QualityTypeOK'
    <2>1. inspection[n] \in InspectionRow
      BY <1>2 DEF CompleteInspection, Created
    <2>2. [inspection[n] EXCEPT !.decision = decision] \in InspectionRow
      BY <2>1 DEF InspectionRow
    <2>3. QED
      BY <1>2, <2>2 DEF CompleteInspection
  <1>3. ASSUME NEW n \in Inspections, CompleteRework(n)
        PROVE  QualityTypeOK'
    BY <1>3 DEF CompleteRework
  <1>4. QED
    BY <1>1, <1>2, <1>3 DEF Inspect

-----------------------------------------------------------------------------
(* Together.                                                               *)

BuyInv == PInv /\ QualityTypeOK /\ RInv /\ NothingOverReceived /\ PostedIsStocked

LEMMA BuyStep ==
  ASSUME BuyInv, [ReceivingNext]_purchasing
  PROVE  BuyInv'
  <1>1. ASSUME UNCHANGED receiving, OrdersStay
        PROVE  RInv' /\ PostedIsStocked'
    <2>1. \A x \in Receipts : receipt[x] # None => receipt[x].order \in Orders
      BY DEF BuyInv, RInv, Receipt
    <2>2. RInv'
      BY <1>1, <2>1 DEF BuyInv, RInv, ReceiptsAreWithin, OrdersStay, receiving
    <2>3. PostedIsStocked'
      BY <1>1 DEF BuyInv, PostedIsStocked, OfReceipt, receiving
    <2>4. QED
      BY <2>2, <2>3
  <1>2. ASSUME UNCHANGED quality
        PROVE  QualityTypeOK'
    BY <1>2 DEF quality, QualityTypeOK, BuyInv
  <1>3. ASSUME UNCHANGED procurement
        PROVE  PInv' /\ NothingOverReceived' /\ OrdersStay
    BY <1>3, ProcurementStep DEF BuyInv, OrdersKept
  <1>4. CASE \/ ProcurementNext /\ UNCHANGED <<quality, receiving>>
             \/ \E o \in Orders, lines \in Lines :
                   RewriteOrder(o, lines) /\ UNCHANGED <<quality, receiving>>
    <2>1. PInv' /\ OrdersKept
      BY <1>4, ProcurementStep DEF BuyInv, RewriteOrder
    <2>2. UNCHANGED quality /\ UNCHANGED receiving
      BY <1>4
    <2>3. QED
      BY <1>1, <1>2, <2>1, <2>2 DEF BuyInv, OrdersKept
  <1>5. CASE HandleReceipts /\ UNCHANGED <<procurement, quality>>
    <2>1. RInv' /\ PostedIsStocked'
      BY <1>5, ReceiptStep DEF BuyInv, procurement, ordering
    <2>2. QED
      BY <1>2, <1>3, <1>5, <2>1 DEF BuyInv
  <1>6. ASSUME NEW r \in Receipts, PostReceipt(r)
        PROVE  BuyInv'
    <2>1. RInv' /\ PInv' /\ OrdersKept /\ PostedIsStocked'
      BY <1>6, PostingStep DEF BuyInv
    <2>2. UNCHANGED quality
      BY <1>6 DEF PostReceipt, sourcing
    <2>3. QED
      BY <1>2, <2>1, <2>2 DEF BuyInv, OrdersKept
  <1>7. CASE InspectArrivals /\ UNCHANGED <<procurement, receiving>>
    <2>1. QualityTypeOK'
      BY <1>7, InspectionStep DEF InspectArrivals, BuyInv
    <2>2. QED
      BY <1>1, <1>3, <1>7, <2>1 DEF BuyInv
  <1>8. CASE UNCHANGED purchasing
    <2>1. UNCHANGED procurement /\ UNCHANGED quality /\ UNCHANGED receiving
      BY <1>8 DEF purchasing
    <2>2. QED
      BY <1>1, <1>2, <1>3, <2>1 DEF BuyInv
  <1>9. QED
    BY <1>4, <1>5, <1>6, <1>7, <1>8 DEF ReceivingNext

LEMMA BuyInvInit == ReceivingInit => BuyInv
  <1> SUFFICES ASSUME ReceivingInit PROVE BuyInv
    OBVIOUS
  <1>1. PInv
    BY DEF ReceivingInit, ProcurementInit, PInv, ProcurementTypeOK, PatchesHaveDocuments,
           Documents
  <1>2. QualityTypeOK
    BY DEF ReceivingInit, QualityInit, QualityTypeOK
  <1>3. RInv
    BY BoundIsNatural DEF ReceivingInit, RInv, ReceiptsAreWithin
  <1>4. NothingOverReceived
    BY DEF ReceivingInit, ProcurementInit, NothingOverReceived
  <1>5. PostedIsStocked
    BY DEF ReceivingInit, PostedIsStocked, ReceiptLines
  <1>6. QED
    BY <1>1, <1>2, <1>3, <1>4, <1>5 DEF BuyInv

\* The documents of purchasing, edits in flight included, are well typed, and no
\* PATCH or receipt is of a document that does not exist.
THEOREM PurchasingInvariant == ReceivingSpec => []BuyInv
  BY BuyInvInit, BuyStep, PTL DEF ReceivingSpec

\* Type correctness of every table of purchasing and quality.
THEOREM PurchasingTypeCorrect == ReceivingSpec => []PurchasingTypeOK
  <1>1. BuyInv => PurchasingTypeOK
    BY DEF BuyInv, PInv, RInv, PurchasingTypeOK
  <1>2. QED
    BY <1>1, PurchasingInvariant, PTL

\* Receipts that compete for the same goods never bring in more than the order
\* line asks for, and stock holds what posted receipts accepted, once.
THEOREM NeverOverReceived == ReceivingSpec => [](NothingOverReceived /\ PostedIsStocked)
  <1>1. BuyInv => NothingOverReceived /\ PostedIsStocked
    BY DEF BuyInv
  <1>2. QED
    BY <1>1, PurchasingInvariant, PTL

-----------------------------------------------------------------------------
(* What orders count as received.                                          *)

PostedReceipts == {r \in Receipts : IsPosted(r)}

CountOf(o, i) == SumFunction([r \in Posted(o) |-> stocked[<<r, i>>]])

\* OrdersCountWhatWasPosted, of receipts that are finitely many.
CountInv ==
    /\ IsFiniteSet(PostedReceipts)
    /\ \A o \in Orders, i \in Items :
          order[o] # None => order[o].received[i] = CountOf(o, i)

\* A step that credits no order: what it received stays, or nothing was.
ReceivedStays ==
    \A o \in Orders : order'[o] # None =>
       \/ order[o] # None /\ order'[o].received = order[o].received
       \/ /\ order'[o].received = NoLines
          /\ \A r \in Receipts : receipt[r] # None => receipt[r].order # o

\* Of the handlers of orders only a PATCH that rewrites the lines changes what
\* was received, and only of an order without receipts.
LEMMA OrdersAreNotCredited ==
  ASSUME PInv, RInv,
         \/ ProcurementNext
         \/ \E o \in Orders, lines \in Lines : RewriteOrder(o, lines)
         \/ UNCHANGED procurement
  PROVE  ReceivedStays
  <1> USE DEF ordering
  <1>1. CASE order' = order
    BY <1>1 DEF ReceivedStays
  <1>2. ASSUME NEW o \in Orders, NEW row,
               order' = [order EXCEPT ![o] = row],
               \/ order[o] # None /\ row.received = order[o].received
               \/ /\ row.received = NoLines
                  /\ \A r \in Receipts : receipt[r] # None => receipt[r].order # o
        PROVE  ReceivedStays
    <2>1. /\ order'[o] = row
          /\ \A x \in Orders \ {o} : order'[x] = order[x]
      BY <1>2 DEF PInv, ProcurementTypeOK
    <2>2. QED
      BY <1>2, <2>1 DEF ReceivedStays
  <1>3. ASSUME NEW o \in Orders, order[o] = None
        PROVE  \A r \in Receipts : receipt[r] # None => receipt[r].order # o
    BY <1>3 DEF RInv, ReceiptsAreWithin
  <1>4. ASSUME NEW o \in Orders, order[o] # None
        PROVE  order[o] \in OrderRow
    BY <1>4 DEF PInv, ProcurementTypeOK
  <1>5. ASSUME NEW o \in Orders, NEW s \in Suppliers, NEW u \in Users,
               NEW lines \in Lines, CreateOrder(o, s, u, lines)
        PROVE  ReceivedStays
    <2> DEFINE row == [status |-> "draft", supplier |-> s, creator |-> u,
                       approver |-> None, lines |-> lines, received |-> NoLines]
    <2>1. row.received = NoLines /\ order' = [order EXCEPT ![o] = row]
      BY <1>5 DEF CreateOrder
    <2> HIDE DEF row
    <2>2. QED
      BY <1>2, <1>3, <1>5, <2>1 DEF CreateOrder
  <1>6. ASSUME NEW o \in Orders, NEW target \in DOMAIN OrderOrigins,
               TransitionOrder(o, target)
        PROVE  ReceivedStays
    <2> DEFINE row == [order[o] EXCEPT !.status = target]
    <2>1. order[o] # None /\ order' = [order EXCEPT ![o] = row]
      BY <1>6 DEF TransitionOrder
    <2>2. row.received = order[o].received
      BY <1>4, <2>1 DEF OrderRow
    <2> HIDE DEF row
    <2>3. QED
      BY <1>2, <2>1, <2>2
  <1>7. ASSUME NEW o \in Orders, NEW u \in Users, ApproveOrder(o, u)
        PROVE  ReceivedStays
    <2> DEFINE row == [order[o] EXCEPT !.status = "approved", !.approver = u]
    <2>1. order[o] # None /\ order' = [order EXCEPT ![o] = row]
      BY <1>7 DEF ApproveOrder
    <2>2. row.received = order[o].received
      BY <1>4, <2>1 DEF OrderRow
    <2> HIDE DEF row
    <2>3. QED
      BY <1>2, <2>1, <2>2
  <1>8. ASSUME NEW o \in Orders, NEW lines \in Lines \union {None}, SaveOrder(o, lines),
               lines # None => Rewritable(o)
        PROVE  ReceivedStays
    <2> DEFINE after == LinesAfter(o, lines)
               row == [patch[o] EXCEPT !.lines = after.lines,
                                       !.received = after.received]
    <2>1. /\ patch[o] \in OrderPatch /\ order[o] # None
          /\ order' = [order EXCEPT ![o] = row]
      BY <1>8 DEF SaveOrder, PInv, PatchesHaveDocuments, ProcurementTypeOK
    <2>2. row.received = after.received
      <3> HIDE DEF after
      <3> QED BY <2>1 DEF OrderPatch
    <2>3. \/ lines = None /\ after.received = order[o].received
          \/ lines # None /\ after.received = NoLines
      BY DEF LinesAfter
    <2> HIDE DEF row, after
    <2>4. QED
      BY <1>2, <1>8, <2>1, <2>2, <2>3 DEF Rewritable
  <1>9. CASE OrderGoods
    BY <1>1, <1>5, <1>6, <1>7, <1>8, <1>9 DEF OrderGoods, ReadOrder
  <1>10. CASE \E o \in Orders, lines \in Lines : RewriteOrder(o, lines)
    BY <1>8, <1>10 DEF RewriteOrder
  <1>11. CASE MaintainSuppliers \/ UNCHANGED procurement
    BY <1>1, <1>11 DEF MaintainSuppliers, SetSupplierActive, procurement
  <1>12. CASE RequestGoods
    BY <1>1, <1>12
       DEF RequestGoods, CreateRequest, TransitionRequest, ReadRequest, SaveRequest
  <1>13. CASE AskForQuotations
    BY <1>1, <1>13 DEF AskForQuotations, CreateRfq, TransitionRfq, ReadRfq, SaveRfq
  <1>14. CASE CompareQuotations
    BY <1>1, <1>14
       DEF CompareQuotations, CheckQuotation, InsertQuotation, AbandonQuotation,
           SelectQuotation
  <1>15. CASE EndPatch \/ EditRule
    BY <1>1, <1>15 DEF EndPatch, AbandonPatch, EditRule
  <1>16. QED
    BY <1>9, <1>10, <1>11, <1>12, <1>13, <1>14, <1>15 DEF ProcurementNext

\* Nothing is counted for an order without posted receipts.
LEMMA NothingCounted ==
  ASSUME NEW o, NEW i, Posted(o) = {}
  PROVE  CountOf(o, i) = 0
  <1> DEFINE f == [r \in Posted(o) |-> stocked[<<r, i>>]]
  <1>1. CountOf(o, i) = SumFunctionOnSet(f, Posted(o))
    BY DEF CountOf, SumFunction
  <1>2. SumFunctionOnSet(f, {}) = 0
    BY SumOfNone
  <1> HIDE DEF f
  <1>3. QED
    BY <1>1, <1>2

\* Counts follow orders while no receipt is posted.
LEMMA SameCounts ==
  ASSUME CountInv, ReceivedStays, stocked' = stocked,
         PostedReceipts' = PostedReceipts,
         \A r \in PostedReceipts : receipt'[r] = receipt[r]
  PROVE  CountInv'
  <1>1. \A o \in Orders : Posted(o)' = Posted(o)
    BY DEF PostedReceipts, Posted, IsPosted
  <1>2. ASSUME NEW o \in Orders, NEW i \in Items, order'[o] # None
        PROVE  order'[o].received[i] = CountOf(o, i)'
    <2>1. CountOf(o, i)' = CountOf(o, i)
      BY <1>1 DEF CountOf
    <2>2. CASE order[o] # None /\ order'[o].received = order[o].received
      BY <2>1, <2>2 DEF CountInv
    <2>3. CASE /\ order'[o].received = NoLines
               /\ \A r \in Receipts : receipt[r] # None => receipt[r].order # o
      <3>1. Posted(o) = {}
        BY <2>3 DEF Posted
      <3>2. QED
        BY <2>1, <2>3, <3>1, NothingCounted DEF NoLines
    <2>4. QED
      BY <1>2, <2>2, <2>3 DEF ReceivedStays
  <1>3. QED
    BY <1>2 DEF CountInv

\* No handler of receipts but post_receipt writes a posted receipt.
LEMMA PostedAreKept ==
  ASSUME RInv, HandleReceipts
  PROVE  /\ PostedReceipts' = PostedReceipts
         /\ \A r \in PostedReceipts : receipt'[r] = receipt[r]
  <1>1. PICK r \in Receipts :
          \/ \E o \in Orders, arrived \in Lines : CreateReceipt(r, o, arrived)
          \/ \E accepted \in Lines : ControlReceipt(r, accepted)
          \/ CancelReceipt(r)
    BY DEF HandleReceipts
  <1>2. /\ ~IsPosted(r) /\ receipt'[r].status # "posted"
        /\ \A x \in Receipts \ {r} : receipt'[x] = receipt[x]
    <2>1. CASE \E o \in Orders, arrived \in Lines : CreateReceipt(r, o, arrived)
      BY <2>1 DEF CreateReceipt, IsPosted, RInv
    <2>2. CASE \E accepted \in Lines : ControlReceipt(r, accepted)
      BY <2>2 DEF ControlReceipt, IsPosted, RInv, Receipt
    <2>3. CASE CancelReceipt(r)
      BY <2>3 DEF CancelReceipt, IsPosted, RInv, Receipt
    <2>4. QED
      BY <1>1, <2>1, <2>2, <2>3
  <1>3. QED
    BY <1>2 DEF PostedReceipts, IsPosted

\* Posting counts what it puts in stock for the order of the receipt.
LEMMA PostingCounts ==
  ASSUME RInv, PInv, NothingOverReceived, PostedIsStocked, CountInv,
         NEW r \in Receipts, PostReceipt(r)
  PROVE  CountInv'
  <1> DEFINE accepted == receipt[r].accepted
             row == [receipt[r] EXCEPT !.status = "posted"]
             credited == [i \in Items |-> order[receipt[r].order].received[i]
                                            + accepted[i]]
             credit == [order[receipt[r].order] EXCEPT !.received = credited]
  <1>1. /\ receipt[r] \in Receipt /\ receipt[r] # None
        /\ receipt[r].status = "controlled" /\ accepted \in Lines
        /\ receipt[r].order \in Orders
        /\ order[receipt[r].order] \in OrderRow /\ order[receipt[r].order] # None
    BY DEF PostReceipt, RInv, Receipt, ReceiptsAreWithin, PInv, ProcurementTypeOK
  <1>2. RInv' /\ PostedIsStocked'
    BY PostingStep
  <1>3. /\ row # None /\ row.status = "posted" /\ row.order = receipt[r].order
        /\ row.accepted = accepted
    BY <1>1, NoneIsNoReceipt DEF Receipt, ReceiptStatuses
  <1>4. receipt' = [receipt EXCEPT ![r] = row]
    BY DEF PostReceipt
  <1> HIDE DEF row
  <1>5. /\ receipt'[r] = row
        /\ \A x \in Receipts \ {r} : receipt'[x] = receipt[x]
    BY <1>4 DEF RInv
  <1>6. /\ order' = [order EXCEPT ![receipt[r].order] = credit]
        /\ credit.received = credited
    <2>1. order' = [order EXCEPT ![receipt[r].order] = credit]
      BY DEF PostReceipt, CreditOrder
    <2>2. credit.received = credited
      <3> HIDE DEF credited
      <3> QED BY <1>1 DEF OrderRow
    <2>3. QED
      BY <2>1, <2>2
  <1>7. ASSUME NEW o \in Orders, NEW i \in Items, order'[o] # None
        PROVE  /\ order[o] # None
               /\ order'[o].received[i] = order[o].received[i]
                    + (IF receipt[r].order = o THEN accepted[i] ELSE 0)
    <2>1. CASE receipt[r].order = o
      <3>1. order'[o].received = credited
        <4> HIDE DEF credit, credited
        <4> QED BY <1>1, <1>6, <2>1 DEF PInv, ProcurementTypeOK
      <3>2. QED
        BY <1>1, <2>1, <3>1
    <2>2. CASE receipt[r].order # o
      <3>1. order'[o] = order[o]
        <4> HIDE DEF credit
        <4> QED BY <1>6, <2>2 DEF PInv, ProcurementTypeOK
      <3>2. order[o].received[i] \in Int
        BY <1>7, <3>1, LinesAreBounded, BoundIsNatural
           DEF PInv, ProcurementTypeOK, OrderRow
      <3>3. QED
        BY <1>7, <2>2, <3>1, <3>2
    <2>3. QED
      BY <2>1, <2>2
  <1>8. PostedReceipts' = PostedReceipts \union {r}
    BY <1>3, <1>5 DEF PostedReceipts, IsPosted
  <1>9. IsFiniteSet(PostedReceipts')
    BY <1>8, FS_AddElement DEF CountInv
  <1>10. \A x \in Receipts, i \in Items : x # r =>
            stocked'[<<x, i>>] = stocked[<<x, i>>]
    BY DEF PostReceipt, StockLines, RInv, ReceiptLines
  <1>11. \A i \in Items : stocked'[<<r, i>>] = accepted[i]
    BY <1>2, <1>3, <1>5 DEF PostedIsStocked
  <1>12. /\ \A x \in Receipts, i \in Items : stocked[<<x, i>>] \in Int
         /\ \A x \in Receipts, i \in Items : stocked'[<<x, i>>] \in Int
    BY <1>2, BoundIsNatural DEF RInv, ReceiptLines
  <1>13. ASSUME NEW o \in Orders, NEW i \in Items, order'[o] # None
         PROVE  order'[o].received[i] = CountOf(o, i)'
    <2> DEFINE S == Posted(o)
               T == Posted(o)'
               f == [x \in S |-> stocked[<<x, i>>]]
               g == [x \in T |-> stocked'[<<x, i>>]]
    <2>1. /\ IsFiniteSet(S) /\ r \notin S /\ S \ {r} = T \ {r}
          /\ r \in T <=> receipt[r].order = o
      <3>1. S \subseteq PostedReceipts
        BY DEF Posted, PostedReceipts, IsPosted
      <3>2. IsFiniteSet(S)
        BY <3>1, FS_Subset DEF CountInv
      <3>3. r \notin S /\ (r \in T <=> receipt[r].order = o)
        BY <1>1, <1>3, <1>5 DEF Posted
      <3>4. S \ {r} = T \ {r}
        BY <1>5 DEF Posted
      <3>5. QED
        BY <3>2, <3>3, <3>4
    <2>2. /\ S \subseteq Receipts /\ T \subseteq Receipts
      BY DEF Posted
    <2>3. /\ \A x \in S : f[x] \in Int
          /\ \A x \in T : g[x] \in Int
          /\ \A x \in S \ {r} : g[x] = f[x]
          /\ r \in T => g[r] = accepted[i]
      BY <1>10, <1>11, <1>12, <2>1, <2>2
    <2>4. /\ CountOf(o, i) = SumFunctionOnSet(f, S)
          /\ CountOf(o, i)' = SumFunctionOnSet(g, T)
      BY DEF CountOf, SumFunction
    <2> HIDE DEF S, T, f, g
    <2>5. /\ SumFunctionOnSet(f, S) \in Int
          /\ SumFunctionOnSet(g, T)
               = SumFunctionOnSet(f, S) - Share(f, S, r) + Share(g, T, r)
      BY <2>1, <2>3, SumChanges
    <2>6. /\ Share(f, S, r) = 0
          /\ Share(g, T, r) = IF receipt[r].order = o THEN accepted[i] ELSE 0
      BY <2>1, <2>3 DEF Share
    <2>7. accepted[i] \in Int
      BY <1>1, LinesAreBounded, BoundIsNatural
    <2>8. order[o].received[i] = CountOf(o, i)
      BY <1>7, <1>13 DEF CountInv
    <2> HIDE DEF accepted
    <2>9. QED
      BY <1>7, <1>13, <2>4, <2>5, <2>6, <2>7, <2>8
  <1>14. QED
    BY <1>9, <1>13 DEF CountInv

\* Every step of purchasing keeps the counts.
LEMMA CountStep ==
  ASSUME BuyInv, CountInv, [ReceivingNext]_purchasing
  PROVE  CountInv'
  <1> USE DEF BuyInv
  <1>1. ASSUME receipt' = receipt, stocked' = stocked, ReceivedStays
        PROVE  CountInv'
    <2>1. PostedReceipts' = PostedReceipts
      BY <1>1 DEF PostedReceipts, IsPosted
    <2>2. QED
      BY <1>1, <2>1, SameCounts
  <1>2. CASE \/ ProcurementNext /\ UNCHANGED <<quality, receiving>>
             \/ \E o \in Orders, lines \in Lines :
                   RewriteOrder(o, lines) /\ UNCHANGED <<quality, receiving>>
             \/ InspectArrivals /\ UNCHANGED <<procurement, receiving>>
             \/ UNCHANGED purchasing
    <2>1. receipt' = receipt /\ stocked' = stocked
      BY <1>2 DEF receiving, purchasing
    <2>2. ReceivedStays
      BY <1>2, OrdersAreNotCredited DEF purchasing
    <2>3. QED
      BY <1>1, <2>1, <2>2
  <1>3. CASE HandleReceipts /\ UNCHANGED <<procurement, quality>>
    <2>1. stocked' = stocked
      BY <1>3 DEF HandleReceipts, CreateReceipt, ControlReceipt, CancelReceipt
    <2>2. ReceivedStays
      BY <1>3, OrdersAreNotCredited
    <2>3. QED
      BY <1>3, <2>1, <2>2, PostedAreKept, SameCounts
  <1>4. CASE \E r \in Receipts : PostReceipt(r)
    BY <1>4, PostingCounts
  <1>5. QED
    BY <1>2, <1>3, <1>4 DEF ReceivingNext

\* "Only accepted quantity enters stock": what an order counts as received is
\* the sum of what its posted receipts put in stock, each what it accepted, and
\* never more than was ordered, whatever is edited, cancelled or posted between.
THEOREM ReceivedAlwaysStocked == ReceivingSpec => []ReceivedIsStocked
  <1>1. ReceivingInit => CountInv
    <2> SUFFICES ASSUME ReceivingInit PROVE CountInv
      OBVIOUS
    <2>1. PostedReceipts = {}
      BY DEF ReceivingInit, PostedReceipts, IsPosted
    <2>2. \A o \in Orders : order[o] = None
      BY DEF ReceivingInit, ProcurementInit
    <2>3. QED
      BY <2>1, <2>2, FS_EmptySet DEF CountInv
  <1>2. BuyInv /\ CountInv => ReceivedIsStocked
    BY DEF BuyInv, CountInv, CountOf, ReceivedIsStocked, OrdersCountWhatWasPosted
  <1>3. BuyInv /\ CountInv /\ [ReceivingNext]_purchasing => CountInv'
    BY CountStep
  <1>4. QED
    BY <1>1, <1>2, <1>3, PurchasingInvariant, PTL DEF ReceivingSpec

-----------------------------------------------------------------------------
(* The quality gate, and the approval of orders.                           *)

\* What the gate lets pass has no refusal that stands: of the inspections that
\* refused, one was completed last, and the gate reads that one or a later one.
LEMMA GateKeepsRefused ==
  ASSUME QualityTypeOK, NEW l, GatePassed(l)
  PROVE  ~Refused(l)
  <1> SUFFICES ASSUME Refused(l) PROVE FALSE
    OBVIOUS
  <1> DEFINE all == BlockingInspections(l)
  <1>1. DOMAIN completed = 1..Len(completed) /\ Len(completed) \in Nat
    BY DEF QualityTypeOK
  <1>2. PICK j \in DOMAIN completed :
           /\ inspection[completed[j]].subject = l
           /\ inspection[completed[j]].blocking
           /\ inspection[completed[j]].decision # "accept"
           /\ \A k \in DOMAIN completed :
                 k > j /\ inspection[completed[k]].subject = l
                       /\ inspection[completed[k]].blocking =>
                    inspection[completed[k]].decision # "accept"
    BY DEF Refused
  <1>3. j \in all /\ all \subseteq 1..Len(completed)
    BY <1>1, <1>2 DEF BlockingInspections
  <1>4. PICK m \in all : \A k \in all : k <= m
    <2> HIDE DEF all
    <2> QED BY <1>1, <1>3, GreatestElement
  <1>5. inspection[completed[m]].decision = "accept"
    BY <1>4 DEF GatePassed
  <1>6. /\ m \in DOMAIN completed /\ inspection[completed[m]].subject = l
        /\ inspection[completed[m]].blocking
    BY <1>4 DEF BlockingInspections
  <1>7. m = j \/ m > j
    BY <1>1, <1>3, <1>4, <1>6
  <1>8. QED
    BY <1>2, <1>5, <1>6, <1>7

\* Goods of a line enter stock only in the step that posts them, and only while
\* no blocking inspection refuses them.
THEOREM RefusedStayOut == ReceivingSpec => RefusedGoodsStayOut
  <1>1. ASSUME BuyInv, [ReceivingNext]_purchasing, NEW l \in ReceiptLines,
               stocked'[l] # stocked[l]
        PROVE  ~Refused(l)
    <2>1. PICK r \in Receipts : PostReceipt(r)
      BY <1>1 DEF ReceivingNext, purchasing, receiving, HandleReceipts,
                  CreateReceipt, ControlReceipt, CancelReceipt
    <2>2. l[1] = r /\ l[2] \in OfReceipt(r)
      BY <1>1, <2>1 DEF PostReceipt, StockLines, BuyInv, RInv
    <2>3. l = <<r, l[2]>>
      BY <2>2 DEF ReceiptLines
    <2>4. GatePassed(l)
      BY <2>1, <2>2, <2>3 DEF PostReceipt
    <2>5. QED
      BY <1>1, <2>4, GateKeepsRefused DEF BuyInv
  <1>2. BuyInv /\ [ReceivingNext]_purchasing =>
          [\A l \in ReceiptLines : stocked'[l] # stocked[l] => ~Refused(l)]_purchasing
    BY <1>1
  <1>3. QED
    BY <1>2, PurchasingInvariant, PTL DEF ReceivingSpec, RefusedGoodsStayOut

\* ApprovalCoversLines, of the row of one order.
Covered(row) ==
    row.status \in {"approved", "ordered"} =>
       /\ row.approver # None
       /\ NeedsAnother(row.lines) => row.approver # row.creator

\* A step writes a row of an order that is covered, while the rule stays.
LEMMA CoveredRow ==
  ASSUME PInv, ApprovalCoversLines, distinct' = distinct, NEW o \in Orders,
         NEW row, Covered(row), order' = [order EXCEPT ![o] = row]
  PROVE  ApprovalCoversLines'
  <1>1. /\ order'[o] = row
        /\ \A x \in Orders \ {o} : order'[x] = order[x]
    BY DEF PInv, ProcurementTypeOK
  <1>2. QED
    BY <1>1 DEF ApprovalCoversLines, Covered, NeedsAnother

\* Whoever approves is accepted for the lines as they are, and every edit of
\* the lines puts the order back to draft.
LEMMA CoverStep ==
  ASSUME BuyInv, ApprovalCoversLines, distinct' = distinct,
         [ReceivingNext]_purchasing
  PROVE  ApprovalCoversLines'
  <1> USE DEF BuyInv, ordering
  <1>1. CASE order' = order
    BY <1>1 DEF ApprovalCoversLines, NeedsAnother
  <1>2. ASSUME NEW o \in Orders, order[o] # None
        PROVE  order[o] \in OrderRow /\ Covered(order[o])
    BY <1>2 DEF PInv, ProcurementTypeOK, ApprovalCoversLines, Covered
  <1>3. ASSUME NEW o \in Orders, NEW s \in Suppliers, NEW u \in Users,
               NEW lines \in Lines, CreateOrder(o, s, u, lines)
        PROVE  ApprovalCoversLines'
    <2> DEFINE row == [status |-> "draft", supplier |-> s, creator |-> u,
                       approver |-> None, lines |-> lines, received |-> NoLines]
    <2>1. Covered(row) /\ order' = [order EXCEPT ![o] = row]
      BY <1>3 DEF CreateOrder, Covered
    <2> HIDE DEF row
    <2>2. QED
      BY <2>1, CoveredRow
  <1>4. ASSUME NEW o \in Orders, NEW target \in DOMAIN OrderOrigins,
               TransitionOrder(o, target)
        PROVE  ApprovalCoversLines'
    <2> DEFINE row == [order[o] EXCEPT !.status = target]
    <2>1. /\ order[o] # None /\ order' = [order EXCEPT ![o] = row]
          /\ target = "ordered" => order[o].status = "approved"
          /\ target # "approved"
      BY <1>4 DEF TransitionOrder, OrderOrigins
    <2>2. /\ row.status = target /\ row.approver = order[o].approver
          /\ row.creator = order[o].creator /\ row.lines = order[o].lines
      BY <1>2, <2>1 DEF OrderRow
    <2> HIDE DEF row
    <2>3. QED
      BY <1>2, <2>1, <2>2, CoveredRow DEF Covered
  <1>5. ASSUME NEW o \in Orders, NEW u \in Users, ApproveOrder(o, u)
        PROVE  ApprovalCoversLines'
    <2> DEFINE row == [order[o] EXCEPT !.status = "approved", !.approver = u]
    <2>1. /\ order[o] # None /\ order' = [order EXCEPT ![o] = row]
          /\ NeedsAnother(order[o].lines) => u # order[o].creator
      BY <1>5 DEF ApproveOrder
    <2>2. /\ row.approver = u
          /\ row.creator = order[o].creator /\ row.lines = order[o].lines
      BY <1>2, <2>1 DEF OrderRow
    <2> HIDE DEF row
    <2>3. QED
      BY <2>1, <2>2, CoveredRow, NoneIsNoKey DEF Covered
  <1>6. ASSUME NEW o \in Orders, NEW lines \in Lines \union {None}, SaveOrder(o, lines)
        PROVE  ApprovalCoversLines'
    <2> DEFINE after == LinesAfter(o, lines)
               row == [patch[o] EXCEPT !.lines = after.lines,
                                       !.received = after.received]
    <2>1. patch[o] \in OrderPatch /\ order' = [order EXCEPT ![o] = row]
      BY <1>6 DEF SaveOrder, PInv, ProcurementTypeOK
    <2>2. row.status = "draft"
      <3> HIDE DEF after
      <3> QED BY <2>1 DEF OrderPatch
    <2> HIDE DEF row
    <2>3. QED
      BY <2>1, <2>2, CoveredRow DEF Covered
  <1>7. ASSUME NEW r \in Receipts, PostReceipt(r)
        PROVE  ApprovalCoversLines'
    <2> DEFINE o == receipt[r].order
               credited == [i \in Items |-> order[o].received[i]
                                              + receipt[r].accepted[i]]
               row == [order[o] EXCEPT !.received = credited]
    <2>1. o \in Orders /\ order[o] # None
      BY <1>7 DEF PostReceipt, RInv, Receipt, ReceiptsAreWithin
    <2>2. order' = [order EXCEPT ![o] = row]
      BY <1>7 DEF PostReceipt, CreditOrder
    <2>3. /\ row.status = order[o].status /\ row.approver = order[o].approver
          /\ row.creator = order[o].creator /\ row.lines = order[o].lines
      <3> HIDE DEF credited, o
      <3> QED BY <1>2, <2>1 DEF OrderRow
    <2> HIDE DEF row, o
    <2>4. QED
      BY <1>2, <2>1, <2>2, <2>3, CoveredRow DEF Covered
  <1>8. CASE OrderGoods
    BY <1>1, <1>3, <1>4, <1>5, <1>6, <1>8 DEF OrderGoods, ReadOrder
  <1>9. CASE \E o \in Orders, lines \in Lines : RewriteOrder(o, lines)
    BY <1>6, <1>9 DEF RewriteOrder
  <1>10. CASE MaintainSuppliers
    BY <1>1, <1>10 DEF MaintainSuppliers, SetSupplierActive
  <1>11. CASE RequestGoods
    BY <1>1, <1>11
       DEF RequestGoods, CreateRequest, TransitionRequest, ReadRequest, SaveRequest
  <1>12. CASE AskForQuotations
    BY <1>1, <1>12 DEF AskForQuotations, CreateRfq, TransitionRfq, ReadRfq, SaveRfq
  <1>13. CASE CompareQuotations
    BY <1>1, <1>13
       DEF CompareQuotations, CheckQuotation, InsertQuotation, AbandonQuotation,
           SelectQuotation
  <1>14. CASE EndPatch \/ EditRule
    BY <1>1, <1>14 DEF EndPatch, AbandonPatch, EditRule
  <1>15. CASE UNCHANGED procurement \/ UNCHANGED purchasing
    BY <1>1, <1>15 DEF procurement, purchasing
  <1>16. QED
    BY <1>7, <1>8, <1>9, <1>10, <1>11, <1>12, <1>13, <1>14, <1>15
       DEF ReceivingNext, ProcurementNext

\* However edits of orders, approvals and receipts overlap: until the rule is
\* edited, an order that may be sent was approved by somebody whom the rule
\* accepts for the lines it has now.
THEOREM ApprovedUnderTheRule == WatchedSpec => []ApprovedWhileRuleStays
  <1>1. WatchedInit => ReceivingInit /\ ApprovedWhileRuleStays
    BY DEF WatchedInit, ReceivingInit, ProcurementInit, ApprovedWhileRuleStays,
           ApprovalCoversLines
  <1>2. [WatchedNext]_<<purchasing, edited>> => [ReceivingNext]_purchasing
    BY DEF WatchedNext
  <1>3. ASSUME BuyInv, ApprovedWhileRuleStays, [WatchedNext]_<<purchasing, edited>>
        PROVE  ApprovedWhileRuleStays'
    <2>1. CASE edited'
      BY <2>1 DEF ApprovedWhileRuleStays
    <2>2. CASE ~edited'
      <3>1. ~edited /\ distinct' = distinct
        <4>1. CASE WatchedNext
          BY <2>2, <4>1, Zenon DEF WatchedNext
        <4>2. CASE UNCHANGED <<purchasing, edited>>
          <5>1. edited' = edited /\ distinct' = distinct
            BY <4>2 DEF purchasing, procurement, ordering
          <5>2. QED
            BY <2>2, <5>1, Zenon
        <4>3. QED
          BY <1>3, <4>1, <4>2
      <3>2. ApprovalCoversLines'
        BY <1>2, <1>3, <3>1, CoverStep DEF ApprovedWhileRuleStays
      <3>3. QED
        BY <3>2 DEF ApprovedWhileRuleStays
    <2>3. QED
      BY <2>1, <2>2
  <1>4. WatchedSpec => ReceivingSpec
    BY <1>1, <1>2, PTL DEF WatchedSpec, ReceivingSpec
  <1>5. BuyInv /\ ApprovedWhileRuleStays /\ [WatchedNext]_<<purchasing, edited>>
           => ApprovedWhileRuleStays'
    BY <1>3
  <1>6. QED
    BY <1>1, <1>4, <1>5, PurchasingInvariant, PTL DEF WatchedSpec

=============================================================================
