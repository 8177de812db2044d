# Verification of the Ivadoo server

TLA+ models, TLC runs and TLAPS proofs for the server of Ivadoo Fashion ERP
(`src/platform/server/ivadoo`): an ERP for tailoring workshops written in Django, on PostgreSQL.
Paths below are relative to that directory unless they start with `docs/`, which is the
repository's own `docs/`.

To check: `tlc -workers 2 -config <Run>.cfg <Module>` for the runs of `PROJECT.json`, and
`tlapm` on the seven modules whose names end in `Proofs` and on `SumTheorems`.

## 1. Inventory of the system

The server is a set of Django applications over one database. A request is handled by one
thread; what changes state is a *service* in `<app>/services.py` (or a view) under
`@transaction.atomic`, at PostgreSQL's default isolation (READ COMMITTED), with
`select_for_update` on the rows the service decides by. There is no message queue, no background
worker, no cache and no timer: applications interact by calling each other's services in
one transaction, by reading each other's tables, and by Django signals (quality hooks into
`pre_save` of manufacturing and purchases). What is hard is therefore concurrency between
requests, retries by clients (`idempotency_key`), decisions taken on rows that are not locked,
and long sequences of calls to services that do not know of each other.

| component | state it keeps | operations that change it | interacts with | what is hard | what makes it correct |
|---|---|---|---|---|---|
| `inventory` stock ledger | positions (buckets available / reserved / in production / damaged), lots, movements, reservations | apply a movement, open a lot, edit a lot, reserve, start production, release, consume whole, consume part | called by manufacturing, delivery, purchases; controlled by operations | lock order, lost create races, retries, partial then whole consumption, an unlocked lot edit | stock is the sum of its movements; a lot moves by its movements; buckets hold what reservations still ask for; each key applied once; every call ends |
| `operations` approvals | approval rules, approvals of stock movements, approvals of purchase orders | edit a rule; ask for, decide and use up an approval | the movement endpoint of inventory, purchase orders | rules change between request, decision and use; keys used before | a covered movement was approved as it is, by the right person; what was refused is never used |
| `manufacturing` | versions of bills of materials, orders, requirements, operations and transitions, consumptions, remnants, output receipts | edit / activate / archive a BOM, plan an order from it; ready, start, cancel, complete an order; reserve, consume, give back material; plan, start, complete, rework, cancel an operation | inventory, quality, sales, delivery | BOM edits and planning checked on rows without a lock, partial consumption, retries, quality gates, stock endpoints that work on the same reservations, also while an order is completed | material is traced to the ledger; nothing is given back that was not taken; done means finished; a plan keeps the lines it was made from |
| `delivery` | deliveries and their lines, proofs, returns, return lines and allocations | create, prepare, assign, ship, ready, deliver / pick up, fail, cancel; return or exchange | sales, manufacturing outputs, inventory, quality | sums over other deliveries and returns, stock that runs out in the middle, exchanges that reopen an order | never over-delivered or over-returned; issued exactly once; history is kept |
| `quality` | checklists, inspections, criteria, defects, rework tasks | evaluate, complete an inspection, complete a rework | gates on operations, orders, outputs and receipts by signals | the last inspection decides, at the moment of the save | nothing passes a closed gate |
| `purchases` | suppliers, requests, RFQs, supplier quotations, purchase orders, receipts, last prices | transitions and edits of each; select a quotation; control, post, cancel a receipt | inventory, operations, quality | quotations and edits that are saved after their check, receipts that compete, receipts of an order that was cancelled | an approved order has the lines that were approved; never more received than ordered; what is in stock is what posted receipts accepted |
| `sales` | quotations, orders, fittings, alterations, customer validations | quotation and order actions, conversion, fitting and alteration transitions, validation | measurements, delivery, manufacturing | quotation actions, bookings and validations checked without a lock; readiness that looks at the latest fitting only | what the customer validated fitted, and stays; what is ready for delivery was accepted |
| `identity` | users, API sessions, TOTP credential, recovery codes | log in, renew, revoke; set up, confirm, disable, reset the second factor; regenerate codes; administer users | authorization, audit | a recovery code used by two logins at once, renewal against revocation, users edited on a row read before | a recovery code buys one session; a session that ended stays ended |
| `authorization` | permissions, roles, groups, grants with a scope | edit a role or group, grant and revoke; evaluation is a pure function | every view | scope covering (organization, company, establishment), decided in one place for objects and in another for lists | lists show exactly what single checks allow |
| `extensibility` | module installations, custom fields, import and export | enable and disable a module | manifests with dependencies, the gate of every request | dependency check outside the transaction | an enabled module has its dependencies enabled, while switches do not overlap |
| `measurements` | templates, versioned measurement sets | record a set | customers, lines of orders | version numbers under concurrency | versions of a customer are consecutive, older ones unchanged |
| `audit` | append-only events | record | called by all services in their transaction | - | an event exists exactly when its change commits |
| `catalog`, `customers`, `organizations` | reference data | CRUD with scope checks | all | - | - |
| `internationalization`, `api`, the `apps/`, `modules/`, `infrastructure/` trees | none | formatting, routing, health, placeholders | - | - | - |

`PROJECT.json` lists the components with their modelling status and the hazards at their lines.

## 2. Modules

```
Inventory <-- ProductionStock <-- Manufacturing      Procurement --+
   ^               ^                                                +--> Receiving
   |               +-- StockTransactions (refines it)  Quality -----+
   +-- ApprovalControl
                                                     Measurements --+
OrderFulfilment <-- Delivery (refines it)                           +--> Sales
                                                     Planning ------+
Identity <-- Authorization --+
             ModuleRegistry -+--> Access
```

Each `X <-- Y` is EXTENDS, but for the two refinements, which are INSTANCE. A service that
holds the locks of what it reads until it commits is one action. Where the code decides on a row it
did not lock, or in another transaction, the operation is two actions and everything may happen
in between that does not wait for a lock the first one holds; these are named below. A call that fails a check rolls back and is a
stuttering step.

* **Inventory** - the stock ledger of one item (product, variant, unit) of one organization.
  One action per service of `inventory/services.py`.
  `position[l]` is the `StockPosition` row of a location (a missing row reads as zeros:
  `_locked_position` creates it), `lot` and `reservation` the rows by primary key, `movement` the
  rows by idempotency key. Keys are pairs: one the caller chose, or one a service builds
  (`reservation-consume:<id>`, `lot-open:<id>`, ...). A call whose key is known returns the old row.
  The PATCH of a lot is two actions, `ReadLot` and `SaveLot`: the view reads the row without a lock
  and saves all of it, remaining quantity and status included (`edit` is that row).
* **ProductionStock** - adds `consume_reserved_quantity` (`inventory/production_services.py`),
  the partial consumption that manufacturing uses, beside the unchanged services above.
* **StockTransactions** - the same services as PostgreSQL runs them. `call[w]` is the transaction
  of worker `w`: its *plan* is the rows it locks or inserts, in the code's order; `Lock`, `Miss`,
  `Insert`, `Collide`, `Refuse`, `Commit`, `Deadlock`, `Crash` are its steps. The idempotency check
  (`Answered`) is a read before the first lock, as in the code; the unique index is `Collide`; a
  position that two transactions create at once makes the loser's transaction abort.
  `ImplementsLedger` is the refinement: the committed rows, with the edits of lots that have read one
  (`EditBy`), behave as `ProductionSpec`.
* **ApprovalControl** - `operations`: rules, approvals, and the movement endpoint that
  resolves the rule, checks the approval, applies the movement and uses the approval up in one
  transaction. The other stock services stay beside it, uncontrolled, as in the code.
* **Manufacturing** - orders (`status`), their reservations (`owner` is `production_order_id`),
  consumptions, remnants, operations, quality gates and completion, over ProductionStock. Every
  service locks the order row, and two operations are two actions. The planning of an operation
  validates against an unlocked order (`operation_serializers.py:153`; `PlanOperation`,
  `InsertOperation`). The completion counts the open reservations of the order and commits
  (`CheckCompletion`, `CommitCompletion`): it holds the order in between (`Free`), but the stock
  endpoint reserves for an order without that lock. The stock endpoints settle any reservation.
* **OrderFulfilment** - the abstract promise of delivery: per order line, how much is promised,
  handed over, taken back and to be replaced.
* **Delivery** - deliveries, their steps, the walk over output receipts that issues
  finished stock (`Served`), returns that go back on the oldest issues first (`GivenBack`),
  exchanges that raise what may be delivered. Orders, fittings, production outputs, inspections
  and other stock movements appear as the actions of its last section, as deliveries see them.
  It implements OrderFulfilment (`ImplementsFulfilment`).
* **Procurement** - suppliers, requests, RFQs with the quotations of each supplier, purchase
  orders and the rule that asks for another approver. Two operations are two actions. A PATCH
  compares a status it read without a lock and saves the row it read (`ReadOrder`, `SaveOrder` and
  their like; `patch` is that row). A quotation is recorded after its RFQ was
  found sent (`CheckQuotation`, `InsertQuotation`). Selecting one is a single action: its
  `select_for_update` joins the RFQ and locks that row too.
* **Quality** - inspections with their findings, the decision, reinspections of what was
  reworked; `GatePassed` is the gate that signals run when a row is saved.
* **Receiving** - composes Procurement and Quality with receipts: created against what is
  outstanding, controlled, posted (which moves stock, the received quantities, the supplier's
  history and last price), posted again, cancelled. `stocked` is the ledger as receipts see it. A
  rewrite of an order's lines is refused by the database once a receipt points at them
  (`Rewritable`).
* **Measurements** - recording a set locks the customer, computes the next version and inserts
  (`BeginRecording`, `CommitRecording`, `AbortRecording`).
* **Planning** - versions of bills of materials and the orders planned from them. A PATCH
  (`ReadBom`, `SaveBom`) and the check of a plan (`CheckPlan`, `CreatePlan`) are two actions each.
* **Sales** - composes Measurements and Planning with quotations, orders, fittings, alterations
  and validations; `Deliverable` is `order_delivery_readiness`. The moves of a quotation
  (`ReadQuotation`, `MoveQuotation`), the booking of a fitting (`CheckFitting`, `CreateFitting`) and
  the customer's validation (`CheckValidation`, `RecordValidation`) are two actions each.
* **Identity** - sessions, recovery codes and the TOTP credential. A login validates
  (`BeginLogin`) before it commits; a request resolves its session (`Resolve`), renews it (`Touch`),
  may reauthenticate, and then runs its transaction; `call` is what it remembers. Confirming two
  factors (`CheckSetup`, `ConfirmSetup`), replacing recovery codes (`SeeCodes`, `RegenerateCodes`) and
  editing a user (`ReadUser`, `SaveUser`) read rows without a lock first, and are two actions more.
* **Authorization** - roles, groups, grants, `has_permission` and the lists. A revocation is
  checked before it is made (`CheckRevocation`, `RevokeGrant`).
* **ModuleRegistry** - which modules are enabled; a switch is checked before its
  transaction (`CheckSwitch`, `Switch`).
* **Access** - composes the last three: a request passes the gate of its module, and
  managing access, users or modules asks for the permission to.
* **InventoryProofs**, **ApprovalProofs**, **ManufacturingProofs**, **DeliveryProofs**,
  **ReceivingProofs**, **SalesProofs**, **AccessProofs** - theorems; **SumTheorems** - the facts on
  finite sums that they share. The **MC** modules hold requests, quantities, symmetry and bounds
  for TLC.

Sums are `SumFunction` of the community modules throughout, and the walk of a delivery over lines and
outputs (`Served`) is two recursive functions: the theorems are about the operators that TLC
evaluates.

Definitions preceded by a comment `Fault:` are not part of any specification. Each is a plausible
bug of the definition after it; putting it in place must break the property that
`PROJECT.json` ("mutants") pairs it with, which shows that the property can fail.

## 3. Runs

All figures are distinct states with the configuration in the repository; the longest of the
runs take two or three minutes.

| run | asks | bounds, and why they are enough |
|---|---|---|
| `inventory` (483,690) | Is every unit of stock accounted for by a movement, every bucket by reservations, each reservation settled once? Does a lot move by its movements only, but for the save of an edit? | Two locations, so that transfers and lot moves happen, that hold three pieces in all (`FewPieces`); one lot; one edit of it in flight; two reservations that compete; two caller keys; quantities 1 and 2, so that requests exceed, meet and undercut what is there. Every service at once, but no partial consumption |
| `consume_after_partial` (violation) | Does consumption stay within the reservation when the stock endpoint settles what production used in part? | see findings |
| `stock_transactions` (58,318) | Do interleaved transactions with retries, collisions, deadlocks and crashes commit only what the atomic services would, and does every call end although consumption and issue, and two transfers, lock in opposite orders? | Two workers: every race here is between two transactions; one request of each kind, each sent any number of times; two locations whose positions two calls create at once |
| `approvals` (366,559) | Can a covered movement happen without the right approval while the rules stand; is a refused approval ever used? | Two rules of different scope and threshold, two users, two keys; rules may be switched off and on and change who may approve |
| `reused_approval_key` (violation) | Is an approval used for what it approves? | see findings |
| `partial_delivery` (105,492) | One line of two pieces in two deliveries and two returns: do issues, returns and promises agree? | Two deliveries and two return keys allow deliver, exchange, deliver again and a return in two parts; one output; one piece moved by others |
| `two_lines` (230,966) | Two lines that compete for one position; two locations, quarantine: is what was prepared also produced, and stock accounted for? | Two outputs, so that outputs for the order and for the line both occur |
| `production` (137,008) | What do parts that production consumes, and endpoints that settle the same reservation whole, leave in the buckets? Do the tables of manufacturing and the ledger agree on material? Is an order only done when its work is, and its work done in turn, whatever is planned late, reworked, overridden, cancelled? | One order for two pieces; two reservations, two keys, three lots (one bought, two for remnants), opened with three pieces in all (`FewPieces`), so that one can be bought, taken, given back as a remnant, and the remnant taken and given back again; two operations, the smallest number with an order between them. Material and operations do not move in one behaviour (`OnePartMoves`). Lots are not edited here: `Editors` is empty, `inventory` has them |
| `late_reservation` (violation) | Is an order only done when no reservation of it is open? | see findings |
| `purchasing` (511,350) | Does an order go out only with the approval of its lines, is what entered stock what posted receipts accepted and inspections let through? | Two suppliers, one request, RFQ and order, one item of at most two pieces, two receipts that compete for it, two inspections (the later decides), two users; `FewAtOnce` separates phases that share no table |
| `sales` (213,348) | Are versions consecutive; does what was validated stand; is what is ready settled; do plans keep their lines? | Three sets of two customers; three fittings (refused, accepted, still to come) of one order with an alteration; one version of a bill of materials with two materials and two plans; `FewAtOnce` separates measurements, quotations, fittings and production, where no code compares them |
| `access` (141,497) | Is a code spent once; do sessions end; do lists agree with checks; do modules keep their dependencies? | Two users, two codes, and three sessions: one that sets two factors up, and two that log in with one code at once. At most two requests or logins are under way at a time, as every race here is between two; two grants over two companies with an establishment each, one ordinary role and one group; the chain of three modules that the defaults have; time up to 2, past both lifetimes; `OnePartMoves` lets a behaviour move one of factors (three sessions, of one user when all are open), accounts (two), grants and modules (one) |

Deadlock checking is off where every key, lot and document of an instance can be used up, so that
the model (not the program) has nothing left to do.

Three specifications (`WatchedSpec`) keep a history variable, because the code promises something only
as long as something else did not happen. `CoveredWhileRulesStay` and `ApprovedWhileRuleStays` hold
until a rule is edited: rules are resolved anew at each step, and nothing is promised about what was made under
rules that changed later. `DependenciesWhileAlone` holds until two switches of modules overlap:
each is checked before its transaction, and two that overlap do leave an enabled module without
its dependency (section 5).

`BucketsBackReservations` and `ConsumptionIsRecorded` are about reservations that are called whole,
without partial consumption (`Spec` of Inventory). What holds when production uses the same
reservations in part is checked in `production`, and proved, for all sequences of calls: the
parts never exceed the reservation (`PartsWithinReservation`); the reserved and in-production stock is
what was reserved and not released, less all that was consumed (`HeldIsOwed`, in which a reservation
that was used in part and then settled whole counts below zero); and each step moves the buckets
with the reservations in them, but for a settlement of one used in part
(`BucketsMoveWithReservations`). That such a settlement takes too much is the first finding.

## 4. Fairness

Only `stock_transactions` needs it: `FairSpec` is `Spec` with strong fairness of each worker's
`Step`. A worker thread goes on with its transaction unless it waits for a row; PostgreSQL queues
the waiters of a row in order, so a row that is released again and again is eventually handed to
each of them (strong rather than weak fairness); and the deadlock detector aborts a
member of every wait cycle (`Deadlock`), so a cycle is not a way to wait for ever. Nothing
makes clients send requests (`Accept`) or connections break (`Crash`). The other parts have no
liveness of their own: what happens next to a document is a person's decision.

## 5. Findings

* **`inventory/services.py:497`** (`consume_after_partial`). `consume_reservation` and
  `release_reservation` use the whole quantity of a reservation although
  `consume_reserved_quantity` may have used a part. If the bucket holds stock of another
  reservation, the call takes or releases that. `production_services.py:77` refuses the same
  thing: "Consumption exceeds the remaining reserved quantity."
* **`manufacturing/production_services.py:348`** (`late_reservation`). The completion of an order
  counts its open reservations under the lock of the order, which the stock endpoint does not take
  when it reserves with a `production_order_id`: a reservation made before the commit stays open on
  an order that is done, while `docs/operations/phase-3.md:19` says that completion "refuses
  unresolved material reservations".
* **`operations/services.py:223`** (`reused_approval_key`). `apply_stock_movement` answers with
  the movement that has the key, whatever it moved; the approved movement is never
  made, and its approval is marked as used.

More was met and is not a run. The first three break a sentence of the documentation; the models
have both steps of each, and the sequences that follow are among their behaviours:

* The lot edit endpoint (`inventory/views.py:274`) reads the row without a lock and saves all of it:
  a movement that commits in between loses its effect on the remaining quantity, while
  `inventory/README.md:14` says that quantity changes are derived from authorized stock operations.
  `LotsMoveWithTheLedger` is what remains true: only such a save moves a lot without a movement.
* Whether a PATCH deactivates a user is decided by a row read without a lock
  (`authorization/serializers.py:264`). If another request activated the account since and the user
  logged in, the PATCH deactivates the account and revokes nothing: the session works again as
  soon as the account is active again. `authorization/README.md:41` says "Deactivating an internal
  user revokes their active API sessions."
* Dependencies of modules are checked before the transaction that locks the row of one module
  (`extensibility/services.py:86`): a module can be disabled while another that depends on it is being
  enabled. `docs/adr/0019-module-registry-and-runtime-capability-gates.md:36` says "A module cannot be
  disabled while enabled dependants require it." `DependenciesWhileAlone` is what remains true.

Of the rest no text of the repository promises the opposite, or a part of it has no state in a model:

* `reserve_stock` compares with what remains of a lot, not with what other open reservations of the
  lot claim (`inventory/services.py:366`): two reservations can claim the same pieces of a lot, and
  the second consumption is refused.
* Cancelling a manufacturing order leaves its reservations open (`manufacturing/services.py:163`).
* "Activated or archived BOM versions are immutable." (`manufacturing/serializers.py:114`) is
  compared on a row read without a lock: a PATCH that was checked before an activation and is saved
  after it rewrites the version and takes the activation back. `PlansKeepTheirLines` is what remains
  true: no order keeps other lines than its version has.
* A quotation can be recorded after its RFQ was closed or cancelled (`purchases/procurement_views.py:268`
  compares a row read without a lock).
* Of two overlapping actions on a quotation the last wins (`sales/views.py:95`), and an accepted
  quotation can be converted again and again (`sales/serializers.py:226`).
* Two administrators who revoke their own grants at once both succeed
  (`authorization/views.py:181`).

## 6. Theorems

The constants are arbitrary: any locations, lots, reservations, keys, documents, users and
modules. The assumptions are named beside the constants: quantities are positive
(`QuantitiesArePositive`), a null is different from every row (`NoneIsNoRow` and its like), keys of
different tables are distinct, what is counted or summed over is finite (`SetsAreFinite`,
`KeysAreFinite`: primary keys and idempotency keys have bounded length), and what is enabled by
default depends only on what is (`DefaultsAreClosed`). TLC evaluates them in the runs. Of every property that a passing run checks,
all but the two of `stock_transactions` are theorems.

**SumTheorems** holds the facts about finite sums. The library's induction theorems take a predicate,
which the provers cannot instantiate, so induction goes over *sets* of natural numbers
(`NatSetInduction`, from the well-foundedness of `<`): the set of the sizes up to which a fact holds
for every subset. From it: `SumFunction` obeys its recursion (`SumFunctionOnSet` is defined by
a fold over a CHOOSE), a sum moves by what one summand moves (`SumMoves`), and sums of parts, zeros
and naturals.

**InventoryProofs**. `InventoryInvariant` proves `[]IInv` for `ProductionSpec`, with `IInv` the
types and "the lot of a reservation exists" (`ReservedLotsExist`). The second part is what
makes the first inductive: a consumption writes the lot its reservation names, and without
knowing that the row exists the type of the written row cannot be shown. The proof follows the
code: lemmas for `Add`, `Take`, `Shift`, `ApplyLotDelta`, `Record` (what each keeps
and how it changes the total of a location), then one lemma per service (`ApplyKeeps`,
`CreateLotKeeps`, ...), then the step. From `IInv`:

* `TypeCorrect` - no bucket and no lot is ever negative.
* `ChangesAreRecorded` - `PhysicalChangeIsRecorded`: stock at a location changes only by the effect
  of the one movement the step records, and no movement is ever changed.
* `Conservation`, `LotsFollowTheLedger` - `StockConserved` and `LotsMoveWithTheLedger`, from `Accounted`:
  finitely many movements are recorded, and every location is the sum of them. A step records at
  most one, so each sum moves by one summand. That a lot *is* the sum of its movements is no
  theorem: an edit that is saved late refutes it (section 5). What is proved is that every step moves the lot with that
  sum, except the save of an edit, which brings back the quantity the edit read.
* `OnlyForward` - `ReservationMovesForward`.
* `ConsumedOnce` - `ConsumptionIsRecorded`, and `ReservationsAreBacked` - `BucketsBackReservations`,
  for the services of Inventory alone (`Spec`): with partial consumption a reservation may be
  consumed without that movement, and is not outstanding whole.
* `PartsStayWithin`, `BucketsFollowReservations` - `PartsWithinReservation` and
  `BucketsMoveWithReservations` for `ProductionSpec`, from `Backing`: what is consumed of each
  reservation is measured by its movements (`Measured`), finitely many exist, and what is held is owed.
  No call is excluded. `Measured` is what makes it inductive: that a whole consumption happens once,
  and only on an open reservation, is needed to know what the rest below zero is. Its lemmas (each
  service `Settles` one reservation or `Idles`) serve both Inventory and Manufacturing.

**ApprovalProofs**. `UsedWereGiven` proves `RefusedNeverUsed` for any rules and any edits of them:
the movement of a used approval exists and the approval is still given. It reuses the step of
InventoryProofs: stock movements, once made, last (`Lasting`), and only the movement endpoint uses
approvals. `CoveredAreApproved` proves `CoveredWhileRulesStay` from `CoverInv`, which says more than
the property: that an approval given was given by somebody the rule accepts, also before anything
was moved under it, and that the movement under a caller's key used its approval up. Without the
latter the approval could still be asked for again and the property be lost later.

**DeliveryProofs**, for any orders, lines, deliveries, returns and outputs. `TypeCorrect` already
says that no balance is negative. The walk over lines and outputs is taken once: `ServeKeepsBooks`,
`ServeLineKeepsBooks` and `ServedKeepsBooks` show, by induction over the walk, that at each point what
was issued, what is still needed and what left the stock agree (`Underway`). Then:

* `IssuedOnce` - `IssuedExactlyWhenDelivered`, from `IssueInv`: goods are only issued of outputs there
  are. `ApprovedGoodsLeave` - `OnlyApprovedGoodsLeave`; `HistoryStays` - `HistoryIsKept`.
* `ReturnsAreOfIssues` - `ReturnsTraceToIssues`, from `ReturnInv`: returns are of deliveries that
  were completed. `GivenBackFits` is the arithmetic of the split: what each issue takes back fits
  what earlier returns left of it.
* `StockIsAccounted` - `StockFollowsDeliveries`, from the two and the sums of what was made, issued and
  put back at each location (`StockInv`).
* `OnlyProducedIsPrepared` - `PreparedIsProduced`, from `PreparedInv`. The check that the code makes
  is against `Produced`, which prefers newer outputs; what is proved is against all outputs that were
  ever made for the line (`ProducedIsMade`), as these only grow.
* `FulfilmentImplemented` - `ImplementsFulfilment`: creation is `Promise`, failure and cancellation
  `Withdraw`, completion `HandOver`, a return `TakeBack`, and every other step changes no count.
  It needs `HoldInv`: what was handed over of a line is what was returned and what is left of each
  delivery (`RestWith`), of which no part is negative. Each delivery alone is compared with its
  returns by the code; that the *line* is never over-returned follows only through this sum.
* `CountsKeepOrder`, `NeverOverDelivered` - the promises of OrderFulfilment, for what deliveries do:
  taken back <= handed over <= promised <= ordered + to be replaced, and what the customer holds is
  between nothing and what was ordered, through any number of exchanges.

**ManufacturingProofs**, of `ManufacturingSpec`, for any orders, operations with distinct places
within an order (`OperationsHaveAPlace`), and inspectors that judge any of them
(`InspectedIsWork`). A step of manufacturing is a service of inventory or one of two movements of
its own (`StepOfStock`), so `StockInvariant` reuses the step of InventoryProofs. `MInv` adds the types
of the tables. Frame lemmas (`StockLeavesWork`, `OrdersLeaveRest`, `WorkLeavesRest`) leave each
argument with the steps that matter to it.

* `ManufacturingTypeCorrect` - `ManufacturingTypeOK`.
* `ConsumptionStaysWithin`, `HeldStockIsOwed` - `PartsWithinReservation` and `HeldIsOwed`, from
  `Backing`, with the stock endpoints free to settle the reservations of orders at any time.
* `DoneOrdersAreFinished`, `WorkRunsInSequence` - `DoneMeansFinished` and `RunsInSequence`, from
  `WorkInv`. Neither is inductive: an operation that is planned arrives in front of others, and
  nothing in the two says that those wait. `WorkInv` adds that all work of an order that has not
  started is pending (`UnstartedOrdersWait`), that an operation is inserted once
  (`PlannedAreNew`), and that what a completion has checked stays finished until it commits
  (`CheckedStaysFinished`, by the lock it holds). Both exceptions, `late` and `reworked`, are reachable.
* `FinishedRest` - `FinishedOrdersRest`.
* `MaterialTraced` - `MaterialIsTraced`, from `Traces`, which adds that the reservation a movement
  names exists: `owner` is only written with a new reservation (`OwnersStay`), so an order keeps
  the consumption that was booked on it. The other half is that no endpoint writes under the keys
  of manufacturing (`StockLeavesTraces`).
* `RemnantsStayWithin` - `RemnantsWithinConsumption`, from `AmountInv`, which adds that both tables are
  finite.

**ReceivingProofs**, of `ReceivingSpec`. The invariant `BuyInv` (`PurchasingInvariant`) adds to the
types that a PATCH in flight is of a document that exists, that a receipt is of an order that
exists, and that it accepts at most what arrived: saving a PATCH writes fields of the row, and posting
credits what was accepted although only what arrived was compared with what is outstanding.

* `PurchasingTypeCorrect` - `PurchasingTypeOK`.
* `NeverOverReceived` - `NothingOverReceived /\ PostedIsStocked`, and `ReceivedAlwaysStocked` -
  `ReceivedIsStocked`, which adds that an order counts the sum of its posted receipts (`CountInv`).
  That lines cannot be rewritten under a receipt is the step that needs the foreign key
  (`Rewritable`).
* `RefusedStayOut` - `RefusedGoodsStayOut`.
* `ApprovedUnderTheRule` - `ApprovedWhileRuleStays`: a PATCH that is saved after an approval
  writes the draft that it read, and the approval is gone with it.

**SalesProofs**, of `SalesSpec`; `SalesStep` gives each part the steps that write its tables.

* `ValidationsStand` - `ValidatedFittingsStand`, from `FitInv`: the row is compared again under
  its lock, and a completed fitting never changes its status.
* `ReadyIsSettled` - `ReadyMeansSettled`, from `PerformedInv`: every fitting that took place has its
  place in the order in which they did, so the one that readiness looks at is the last.
* `PlansKeep` - `PlansKeepTheirLines`, from `PlanInv`, which adds that the versions that checks, edits
  and plans refer to exist (`ReferredVersionsExist`).
* `VersionsSequential` - `VersionsAreSequential`, from `RecordInv`: the versions of a customer are
  exactly `1..n` for its `n` sets, and a recording under way holds its customer alone and has
  the version after them (`RecordingsAreNext`). The counting is by the library's facts on
  cardinalities.

**AccessProofs**, of `AccessSpec`.

* `IdentityInvariant` - types, and what a login or a request remembers: a session that does not exist
  yet, or one that exists with the lifetime that was read (`SessionsAreInUse`).
* `CodesSpentOnce` - `CodesAreSpentOnce`: a code that bought a session is used or deleted, and
  neither becomes unused again.
* `SessionsEndForGood` - `SessionsEnd`.
* `ListsAgree` - `ListsAgreeWithChecks`, from the types of grants alone: whatever the roles,
  groups and grants are, the two ways to compute a scope agree.
* `DependenciesStayEnabled` - `DependenciesWhileAlone`, from `RegistryInv`: the one switch under way
  would still pass its check.

Only model-checked: that locking transactions implement the atomic services (`ImplementsLedger`),
for which the invariant of the locks is not stated yet, and that every call ends (`EveryCallEnds`),
which is liveness and out of the prover's reach. The theorems of Inventory and of what builds on it
are about the atomic services, and rest on that refinement.

## 7. What is left out of the modelled parts

* Authorization, tenant scope and audit of each call, outside Access: they decide whether a call is
  made, not what it does. A call in the model is one that passed them.
* One item of stock. Movements of other products do not touch its rows. In Manufacturing the output
  is another item, so its receipt appears as `output` only; in Receiving and Delivery, stock is seen
  from that side (`stocked` by receipt line).
* Names, codes, numbers, reasons, dates, notes, units, currencies, totals of lines, the checklists of
  packages and delivery proofs. In Procurement every item costs 1, so that the threshold of the
  approval rule compares quantities. Quantities are natural numbers; the code's are decimals with
  fixed places, which add and compare in the same way.
* A request with several allocations is one transaction that applies them in order; the
  model of stock and production applies them one at a time. Receipts with several lines are one step.
* A caller that chooses, for the movement endpoint, a key that a service builds
  (`lot-open:...`), a blank key, or the `reference_type` by which partial consumptions are
  counted.
* Row locks outside inventory. Manufacturing, Delivery and the transitions of Procurement are atomic
  because each service locks its document first; that `create_delivery` and
  `create_delivery_return` lock in opposite orders is listed as a hazard.
* In Identity, passwords, TOTP arithmetic and the throttling of attempts. A batch of recovery codes has
  one code.
* In Authorization one permission stands for all.
* Plain CRUD with scope checks: warehouses and locations, work centers, supplier addresses and
  products, measurement templates, catalog, customers, organizations. Custom fields, import and
  export, and internationalization convert and check data and keep no protocol. Audit
  events are written in the transaction of what they describe and never read back.

## 8. Plan

Done, in this order because stock is what every other part moves: Inventory, ProductionStock,
StockTransactions, ApprovalControl, OrderFulfilment and Delivery, Manufacturing; then Procurement,
Quality and Receiving; Measurements, Planning and Sales; Identity, Authorization, ModuleRegistry and
Access; and the proofs of each.

Left, by weight:

1. Row locks of deliveries, in the scheme of StockTransactions: a delivery and a return that lock
   order and delivery in opposite orders.
2. Several permissions, and the scope of the documents that each endpoint asks them for.
3. Imports, which are prepared before the transaction that writes all their rows.

Next theorem: `ImplementsLedger`, from the invariant of StockTransactions that what a transaction has
read of the rows it owns is what is stored.
