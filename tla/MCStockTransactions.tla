------------------------- MODULE MCStockTransactions -------------------------
EXTENDS StockTransactions

CONSTANTS w1, w2, l1, l2, t1, r1, k1, k2, k3, k4, k5

\* A request, with every field it does not use null.
Request(service) ==
    [service |-> service, key |-> None, type |-> None, quantity |-> 0,
     source |-> None, destination |-> None, lot |-> None, reservation |-> None]

Receive(k, q, l, t) == [Request("apply") EXCEPT !.key = k, !.type = "receipt",
                          !.quantity = q, !.destination = l, !.lot = t]
Issue(k, q, l, t) == [Request("apply") EXCEPT !.key = k, !.type = "issue",
                        !.quantity = q, !.source = l, !.lot = t]
Transfer(k, q, l, m) == [Request("apply") EXCEPT !.key = k, !.type = "transfer",
                           !.quantity = q, !.source = l, !.destination = m]
Open(t, l, q) == [Request("create_lot") EXCEPT !.lot = t, !.destination = l,
                    !.quantity = q]
Edit(t, l) == [Request("edit_lot") EXCEPT !.lot = t, !.destination = l]
Book(r, l, q, t) == [Request("reserve") EXCEPT !.reservation = r, !.source = l,
                       !.quantity = q, !.lot = t]
SettleAny(r) == [Request("settle") EXCEPT !.reservation = r]
UsePart(r, k, q) == [Request("consume_part") EXCEPT !.reservation = r, !.key = k,
                       !.quantity = q]

\* One lot, booked, used in part or whole, issued from and edited: a consumption
\* locks the position before the lot, an issue the lot first.  And a second
\* location, where the first stock may arrive from two sides at once.
MixedRequests == {Open(t1, l1, 2), Book(r1, l1, 2, t1), SettleAny(r1),
                  UsePart(r1, k1, 1), Issue(k2, 1, l1, t1), Edit(t1, l1),
                  Receive(k3, 1, l2, None), Transfer(k4, 1, l1, l2),
                  Transfer(k5, 1, l2, l1)}
=============================================================================
