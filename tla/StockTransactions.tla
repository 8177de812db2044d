-------------------------- MODULE StockTransactions --------------------------
(***************************************************************************)
(* The services of ivadoo/inventory as PostgreSQL runs them.  A call is a  *)
(* transaction of several statements: it takes row locks one by one (select *)
(* for update), reads committed rows only (READ COMMITTED), and commits or *)
(* rolls back as a whole.  Several workers serve calls at once, and clients *)
(* may send a request again at any time.                                   *)
(*                                                                         *)
(* The idempotency check of a service reads before it locks anything; what *)
(* stops a second application is the unique index on the key, in which the *)
(* row is inserted last.  PostgreSQL breaks a wait cycle by aborting one of *)
(* its transactions.                                                       *)
(***************************************************************************)
EXTENDS Integers, Sequences, FiniteSets

CONSTANTS
    Workers,        \* server threads, each with its database connection
    Requests,       \* the requests clients send (bound of a run)
    Locations, Lots, Reservations, Keys, Quantities, RequestTypes, None

VARIABLES
    stored,   \* the committed rows, by name; None is a row that does not exist
    owner,    \* the transaction that locked or inserted a row, or None
    call,     \* the call a worker is serving, or None
    seen,     \* the rows a transaction has read, and will write back
    missing   \* _locked_position found no row and is about to insert one

vars == <<stored, owner, call, seen, missing>>

PositionRow(l) == <<"position", l>>
LotRow(t) == <<"lot", t>>
ReservationRow(r) == <<"reservation", r>>
MovementRow(k) == <<"movement", k>>

MovementKeys == ({"request", "production-reservation",
                  "manufacturing-supplemental", "manufacturing-remnant"} \X Keys)
                  \union ({"lot-open"} \X Lots)
                  \union ({"reservation-consume"} \X Reservations)

NoStock == [b \in {"available", "reserved", "in_production", "damaged"} |-> 0]

StoredPosition(l) == IF stored[PositionRow(l)] = None
                     THEN NoStock ELSE stored[PositionRow(l)]

\* The edit of a lot that a worker is serving, with the row it read.
EditBy(w) ==
    IF call[w] = None \/ call[w].kind # "edit_lot" THEN None
    ELSE [lot |-> call[w].lot, row |-> seen[w][LotRow(call[w].lot)]]

\* The ledger of Inventory.tla and ProductionStock.tla: the committed rows,
\* and the edits that have read one.
Ledger == INSTANCE ProductionStock WITH
    Editors <- Workers,
    position <- [l \in Locations |-> StoredPosition(l)],
    lot <- [t \in Lots |-> stored[LotRow(t)]],
    reservation <- [r \in Reservations |-> stored[ReservationRow(r)]],
    movement <- [k \in MovementKeys |-> stored[MovementRow(k)]],
    edit <- [w \in Workers |-> EditBy(w)]

Rows == {PositionRow(l) : l \in Locations}
          \union {LotRow(t) : t \in Lots}
          \union {ReservationRow(r) : r \in Reservations}
          \union {MovementRow(k) : k \in MovementKeys}

Init == /\ stored = [row \in Rows |-> None]
        /\ owner = [row \in Rows |-> None]
        /\ call = [w \in Workers |-> None]
        /\ seen = [w \in Workers |-> << >>]
        /\ missing = [w \in Workers |-> FALSE]

-----------------------------------------------------------------------------
(* A call: the rows it gets, in order (plan), the bucket of a location it   *)
(* takes from and the one it puts into, and what it does to a lot, to a     *)
(* reservation and to the ledger.  The bucket "held" is the one that holds  *)
(* the stock of the reservation when its row is read.                       *)

Optional(row, x) == IF x = None THEN << >> ELSE <<row>>

Positions(take, put) ==
    IF take = None THEN <<PositionRow(put[1])>>
    ELSE IF put = None \/ put[1] = take[1] THEN <<PositionRow(take[1])>>
    ELSE <<PositionRow(take[1]), PositionRow(put[1])>>

Entry(type, q, source, destination, t, r) ==
    [type |-> type, quantity |-> q, source |-> source,
     destination |-> destination, lot |-> t, reservation |-> r]

ApplyMovement(key, type, q, source, destination, t) ==
    LET inbound == type \in Ledger!Inbound
        outbound == type \in Ledger!Outbound
        shelf == IF type = "restore_damage" THEN "damaged" ELSE "available"
        target == IF type = "damage" THEN "damaged" ELSE "available"
        take == IF inbound THEN None ELSE <<source, shelf>>
        put == IF outbound THEN None
               ELSE <<IF destination = None THEN source ELSE destination, target>>
    IN  [kind |-> "apply", take |-> take, put |-> put, quantity |-> q,
         plan |-> Optional(LotRow(t), t) \o Positions(take, put)
                    \o <<MovementRow(key)>>,
         lot |-> IF type \in {"damage", "restore_damage"} THEN None ELSE t,
         delta |-> IF inbound THEN q ELSE IF outbound THEN -q ELSE 0,
         destination |-> destination, reservation |-> None,
         entry |-> Entry(type, q, source, destination, t, None)]

CreateLot(t, l, q) ==
    [ApplyMovement(<<"lot-open", t>>, "receipt", q, None, l, t)
       EXCEPT !.kind = "create_lot"]

ReserveStock(r, l, q, t) ==
    [kind |-> "reserve", take |-> <<l, "available">>, put |-> <<l, "reserved">>,
     quantity |-> q, lot |-> t, delta |-> 0, destination |-> None,
     plan |-> Optional(LotRow(t), t) \o <<PositionRow(l), ReservationRow(r)>>,
     reservation |-> r, entry |-> None]

\* Start and release; the location and quantity of a reservation never change.
Settle(kind, r, from, to) ==
    LET row == stored[ReservationRow(r)]
    IN  [kind |-> kind, take |-> <<row.location, from>>,
         put |-> <<row.location, to>>, quantity |-> row.quantity,
         lot |-> None, delta |-> 0, destination |-> None,
         plan |-> <<ReservationRow(r), PositionRow(row.location)>>,
         reservation |-> r, entry |-> None]

Consume(kind, r, key, q) ==
    LET row == stored[ReservationRow(r)]
    IN  [kind |-> kind, take |-> <<row.location, "held">>, put |-> None,
         quantity |-> q, lot |-> row.lot, delta |-> -q, destination |-> None,
         plan |-> <<ReservationRow(r), PositionRow(row.location)>>
                    \o Optional(LotRow(row.lot), row.lot) \o <<MovementRow(key)>>,
         reservation |-> r,
         entry |-> Entry("production_consumption", q, row.location, None,
                         row.lot, r)]

\* StockLotDetailView: the row is read without a lock, then saved whole.
EditLot(t, l) ==
    [kind |-> "edit_lot", take |-> None, put |-> None, quantity |-> 0,
     lot |-> t, delta |-> 0, destination |-> l, plan |-> <<LotRow(t)>>,
     reservation |-> None, entry |-> None]

Exists(row) == stored[row] # None

\* The calls a request leads to.  A settlement or an edit first finds its row
\* (404), a movement or reservation its lot, and a known key is answered at once.
CallsFor(q) ==
    CASE q.service = "apply" /\ (q.lot = None \/ Exists(LotRow(q.lot))) ->
            {ApplyMovement(<<"request", q.key>>, q.type, q.quantity,
                           q.source, q.destination, q.lot)}
      [] q.service = "create_lot" ->
            {CreateLot(q.lot, q.destination, q.quantity)}
      [] q.service = "edit_lot" /\ Exists(LotRow(q.lot)) ->
            {EditLot(q.lot, q.destination)}
      [] q.service = "reserve" /\ (q.lot = None \/ Exists(LotRow(q.lot))) ->
            {ReserveStock(q.reservation, q.source, q.quantity, q.lot)}
      [] q.service = "settle" /\ Exists(ReservationRow(q.reservation)) ->
            {Settle("start", q.reservation, "reserved", "in_production"),
             Settle("release", q.reservation, "held", "available"),
             Consume("consume", q.reservation,
                     <<"reservation-consume", q.reservation>>,
                     stored[ReservationRow(q.reservation)].quantity)}
      [] q.service = "consume_part" /\ Exists(ReservationRow(q.reservation)) ->
            {Consume("consume_part", q.reservation,
                     <<"production-reservation", q.key>>, q.quantity)}
      [] OTHER -> {}

\* Rows that a call inserts, under a unique index.
Inserts(c, row) == \/ row[1] = "movement"
                   \/ row[1] = "reservation" /\ c.kind = "reserve"
                   \/ row[1] = "lot" /\ c.kind = "create_lot"

\* The unlocked check of an idempotency key, where a service makes one.
Answered(c) ==
    /\ c.kind \in {"apply", "reserve", "consume_part"}
    /\ \E i \in DOMAIN c.plan : Inserts(c, c.plan[i]) /\ Exists(c.plan[i])

\* A new lot has a primary key nobody else uses.
Fresh(c) == c.kind = "create_lot" =>
               ~Exists(LotRow(c.lot)) /\ \A w \in Workers :
                  call[w] # None => ~(call[w].kind = "create_lot"
                                        /\ call[w].lot = c.lot)

-----------------------------------------------------------------------------
(* The progress of a transaction.                                          *)

Serving(w) == call[w] # None

\* How many rows of its plan a transaction has, the last one, the next one.
Got(w) == Cardinality({i \in DOMAIN call[w].plan : owner[call[w].plan[i]] = w})
HasAll(w) == Got(w) = Len(call[w].plan)
LastRow(w) == call[w].plan[Got(w)]
NextRow(w) == call[w].plan[Got(w) + 1]

Bucket(c, rows, end) ==
    IF end[2] = "held"
    THEN Ledger!BucketOf(rows[ReservationRow(c.reservation)].status)
    ELSE end[2]

LotSuffices(c, rows) ==
    c.lot # None =>
       rows[LotRow(c.lot)].remaining >= IF c.kind = "reserve" THEN c.quantity
                                        ELSE -c.delta

BucketSuffices(c, rows) ==
    c.take # None => rows[PositionRow(c.take[1])][Bucket(c, rows, c.take)]
                        >= c.quantity

\* The checks a service makes once it has a row, before it goes for the next.
ReservationPasses(w, c, row) ==
    /\ row.status \in {"active", "in_production"}
    /\ c.kind = "start" => row.status = "active"
    /\ c.kind = "consume_part" =>
          /\ ~Exists(c.plan[Len(c.plan)])
          /\ c.quantity <= row.quantity - Ledger!ConsumedQuantity(c.reservation)

LotPasses(w, c, row) ==
    /\ c.kind = "reserve" => row.location = c.take[1]
    /\ c.kind \in {"reserve", "consume", "consume_part"} => LotSuffices(c, seen[w])

PositionsPass(w, c) ==
    /\ BucketSuffices(c, seen[w])
    /\ c.kind = "apply" => LotSuffices(c, seen[w])

LastPosition(c) == PositionRow((IF c.put = None THEN c.take ELSE c.put)[1])

Passes(w) ==
    LET c == call[w]
        last == LastRow(w)
    IN  Got(w) > 0 =>
          /\ last[1] = "reservation" /\ c.kind # "reserve"
               => ReservationPasses(w, c, seen[w][last])
          /\ last[1] = "lot" => LotPasses(w, c, seen[w][last])
          /\ last[1] = "position" /\ last = LastPosition(c) => PositionsPass(w, c)

-----------------------------------------------------------------------------
(* What a call writes in the rows it has.                                  *)

NewPosition(c, rows, l) ==
    LET takes(b) == c.take # None /\ c.take[1] = l /\ Bucket(c, rows, c.take) = b
        puts(b) == c.put # None /\ c.put = <<l, b>>
    IN  [b \in DOMAIN NoStock |->
           rows[PositionRow(l)][b] - (IF takes(b) THEN c.quantity ELSE 0)
                                   + (IF puts(b) THEN c.quantity ELSE 0)]

NewLot(c, row) ==
    CASE c.kind = "edit_lot" -> [row EXCEPT !.location = c.destination]
      [] c.kind = "create_lot" ->
            [location |-> c.destination, initial |-> c.quantity,
             remaining |-> c.quantity, status |-> "active"]
      [] c.kind = "reserve" \/ c.lot = None -> row
      [] OTHER ->
            LET remaining == row.remaining + c.delta
            IN  [location |-> IF c.destination = None
                              THEN row.location ELSE c.destination,
                 initial |-> IF remaining > row.initial
                             THEN remaining ELSE row.initial,
                 remaining |-> remaining,
                 status |-> IF remaining = 0 THEN "exhausted" ELSE "active"]

NewReservation(c, row) ==
    LET status ==
          CASE c.kind = "start" -> "in_production"
            [] c.kind = "release" -> "released"
            [] c.kind = "consume" -> "consumed"
            [] c.kind = "consume_part" ->
                 IF Ledger!ConsumedQuantity(c.reservation) + c.quantity
                      = row.quantity THEN "consumed" ELSE row.status
    IN  IF c.kind = "reserve"
        THEN [location |-> c.take[1], lot |-> c.lot, quantity |-> c.quantity,
              status |-> "active"]
        ELSE [row EXCEPT !.status = status]

Written(w, row) ==
    LET c == call[w]
        rows == seen[w]
    IN  CASE row[1] = "position" -> NewPosition(c, rows, row[2])
          [] row[1] = "lot" -> NewLot(c, rows[row])
          [] row[1] = "reservation" -> NewReservation(c, rows[row])
          [] row[1] = "movement" -> c.entry

-----------------------------------------------------------------------------
(* The steps of a worker.                                                  *)

Accept(w) ==
    /\ ~Serving(w)
    /\ \E q \in Requests : \E c \in CallsFor(q) :
          /\ ~Answered(c)
          /\ Fresh(c)
          /\ call' = [call EXCEPT ![w] = c]
          /\ seen' = [seen EXCEPT ![w] =
               [row \in Rows |-> IF c.kind = "edit_lot" /\ row = LotRow(c.lot)
                                 THEN stored[row] ELSE None]]
    /\ UNCHANGED <<stored, owner, missing>>

Inserting(w) == Inserts(call[w], NextRow(w)) \/ missing[w]

\* The transaction can go for its next row.
Ready(w) == Serving(w) /\ ~HasAll(w) /\ Passes(w)

\* select for update (or, for an edit, update) of a row that exists.
Lock(w) ==
    /\ Ready(w)
    /\ ~Inserting(w)
    /\ Exists(NextRow(w))
    /\ owner[NextRow(w)] = None
    /\ owner' = [owner EXCEPT ![NextRow(w)] = w]
    /\ seen' = IF call[w].kind = "edit_lot" THEN seen
               ELSE [seen EXCEPT ![w][NextRow(w)] = stored[NextRow(w)]]
    /\ UNCHANGED <<stored, call, missing>>

\* The position row does not exist, as far as this transaction can see.
Miss(w) ==
    /\ Ready(w)
    /\ ~Inserting(w)
    /\ ~Exists(NextRow(w))
    /\ missing' = [missing EXCEPT ![w] = TRUE]
    /\ UNCHANGED <<stored, owner, call, seen>>

\* Fault: the index on the idempotency key of movements is not unique.
InsertDuplicate(w) ==
    /\ Ready(w)
    /\ Inserting(w)
    /\ owner[NextRow(w)] = None
    /\ Exists(NextRow(w)) => NextRow(w)[1] = "movement"
    /\ owner' = [owner EXCEPT ![NextRow(w)] = w]
    /\ seen' = [seen EXCEPT ![w][NextRow(w)] =
                  IF missing[w] THEN NoStock ELSE None]
    /\ missing' = [missing EXCEPT ![w] = FALSE]
    /\ UNCHANGED <<stored, call>>

Insert(w) ==
    /\ Ready(w)
    /\ Inserting(w)
    /\ owner[NextRow(w)] = None
    /\ ~Exists(NextRow(w))
    /\ owner' = [owner EXCEPT ![NextRow(w)] = w]
    /\ seen' = [seen EXCEPT ![w][NextRow(w)] =
                  IF missing[w] THEN NoStock ELSE None]
    /\ missing' = [missing EXCEPT ![w] = FALSE]
    /\ UNCHANGED <<stored, call>>

\* A transaction ends, with its locks, by committing or by rolling back.
End(w) == /\ owner' = [row \in Rows |-> IF owner[row] = w THEN None ELSE owner[row]]
          /\ call' = [call EXCEPT ![w] = None]
          /\ seen' = [seen EXCEPT ![w] = << >>]
          /\ missing' = [missing EXCEPT ![w] = FALSE]

Commit(w) ==
    /\ Serving(w)
    /\ HasAll(w)
    /\ Passes(w)
    /\ stored' = [row \in Rows |-> IF owner[row] = w
                                   THEN Written(w, row) ELSE stored[row]]
    /\ End(w)

Rollback(w) == UNCHANGED stored /\ End(w)

\* Fault: a call that fails a check is tried again, for ever.
RefuseByRetrying(w) ==
    /\ Serving(w)
    /\ ~Passes(w)
    /\ owner' = [row \in Rows |-> IF owner[row] = w THEN None ELSE owner[row]]
    /\ seen' = [seen EXCEPT ![w] = [row \in Rows |-> None]]
    /\ UNCHANGED <<stored, call, missing>>

\* A check fails: the service raises, or finds that there is nothing to do.
Refuse(w) == Serving(w) /\ ~Passes(w) /\ Rollback(w)

\* The unique index already has the row.  A position inserted meanwhile is
\* caught in the code, but PostgreSQL has aborted the transaction by then.
Collide(w) ==
    /\ Ready(w)
    /\ Inserting(w)
    /\ owner[NextRow(w)] = None
    /\ Exists(NextRow(w))
    /\ Rollback(w)

WaitsFor(w, v) == Ready(w) /\ (~Exists(NextRow(w)) => Inserting(w))
                    /\ v # w /\ owner[NextRow(w)] = v

\* A set of transactions that only wait for one another.
WaitCycle(D) == /\ D # {}
                /\ \A w \in D : \E v \in D : WaitsFor(w, v)

\* PostgreSQL aborts a transaction that waits in a cycle.
Deadlock(w) ==
    /\ \E D \in SUBSET Workers :
          /\ w \in D
          /\ WaitCycle(D)
          /\ \A v \in D : \E u \in D : WaitsFor(u, v)
    /\ Rollback(w)

\* The worker or its connection dies.
Crash(w) == Serving(w) /\ Rollback(w)

Step(w) == \/ Lock(w) \/ Miss(w) \/ Insert(w) \/ Commit(w)
           \/ Refuse(w) \/ Collide(w) \/ Deadlock(w)

Next == \E w \in Workers : Accept(w) \/ Step(w) \/ Crash(w)

Spec == Init /\ [][Next]_vars

\* A worker goes on with its call; PostgreSQL hands out row locks in the order
\* in which they were asked for, so a wait does not starve.
FairSpec == Spec /\ \A w \in Workers : SF_vars(Step(w))

-----------------------------------------------------------------------------
(* Properties.                                                             *)

\* Type correctness: locks are only held by transactions that are running.
TypeOK ==
    /\ Ledger!TypeOK
    /\ owner \in [Rows -> Workers \union {None}]
    /\ \A row \in Rows : owner[row] # None => Serving(owner[row])
    /\ missing \in [Workers -> BOOLEAN]

\* The row locks make the services atomic: what is committed changes only as if
\* each call ran alone, in one step, and each idempotency key at most once.
ImplementsLedger == Ledger!ProductionSpec

\* Every call ends, by an answer or by an error: no wait is for ever.
EveryCallEnds == \A w \in Workers : Serving(w) ~> ~Serving(w)

=============================================================================
