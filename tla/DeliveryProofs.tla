---------------------------- MODULE DeliveryProofs ----------------------------
(***************************************************************************)
(* Proofs about Delivery, for any orders, lines, outputs and locations:    *)
(* what is issued, delivered, returned and left in stock agrees, and the   *)
(* deliveries implement OrderFulfilment.                                   *)
(***************************************************************************)
EXTENDS Delivery, SumTheorems, TLAPS

-----------------------------------------------------------------------------
(* Sizes.                                                                  *)

Issues == Deliveries \X Lines \X Outputs

\* The tables that sums run over are finite.
LEMMA TablesAreFinite ==
  /\ IsFiniteSet(Outputs) /\ IsFiniteSet(Issues) /\ IsFiniteSet(Lines \X Outputs)
  <1>1. IsFiniteSet(Outputs)
    BY BoundsOfRun, FS_Interval DEF Outputs
  <1>2. IsFiniteSet(Lines \X Outputs)
    BY <1>1, KeysAreFinite, FS_Product
  <1> DEFINE P == (Deliveries \X Lines) \X Outputs
             f == [p \in P |-> <<p[1][1], p[1][2], p[2]>>]
  <1>3. IsFiniteSet(P)
    BY <1>1, KeysAreFinite, FS_Product
  <1>4. f \in Surjection(P, Issues)
    <2>1. f \in [P -> Issues]
      BY DEF Issues
    <2>2. ASSUME NEW x \in Issues
          PROVE  \E p \in P : f[p] = x
      <3>1. /\ <<<<x[1], x[2]>>, x[3]>> \in P
            /\ f[<<<<x[1], x[2]>>, x[3]>>] = x
        BY DEF Issues
      <3>2. QED
        BY <3>1
    <2>3. QED
      BY <2>1, <2>2 DEF Surjection
  <1>5. IsFiniteSet(Issues)
    BY <1>3, <1>4, FS_Surjection
  <1>6. QED
    BY <1>1, <1>2, <1>5

\* Every line has a place in the sequence that a completion goes through.
LEMMA LinesInSequence ==
  SetToSeq(Lines) \in [1..Cardinality(Lines) -> Lines]
  <1>1. Cardinality(Lines) \in Nat /\ ExistsBijection(1..Cardinality(Lines), Lines)
    BY KeysAreFinite, FS_CardinalityType
  <1>2. PICK f \in Bijection(1..Cardinality(Lines), Lines) : TRUE
    BY <1>1 DEF ExistsBijection
  <1>3. f \in [1..Cardinality(Lines) -> Lines] /\ IsInjective(f)
    BY <1>2 DEF Bijection, Injection, IsInjective
  <1>4. QED
    BY <1>3 DEF SetToSeq

-----------------------------------------------------------------------------
(* What a completion takes of the stock: one output of one line at a time. *)

Acc == [need: [Lines -> Nat], stock: [Locations -> [available: Nat, damaged: Nat]],
        issue: [Issues -> Nat], clean: BOOLEAN]

IssuedFor(d, l, issues) == SumFunction([i \in Outputs |-> issues[<<d, l, i>>]])

TakenFrom(at, issues) ==
    {x \in DOMAIN issues : issues[x] > 0 /\ output[x[3]].location = at}
IssuedFrom(at, issues) == SumFunction([x \in TakenFrom(at, issues) |-> issues[x]])

AtHand(at, places) == places[at].available + places[at].damaged

\* Where a completion stands: what a line does not need any more was issued for
\* it, and what was issued is missing from the stock it was issued from.
Underway(d, acc) ==
    /\ acc \in Acc
    /\ \A l \in Lines : acc.need[l] + IssuedFor(d, l, acc.issue)
                          = delivery[d].quantity[l] + IssuedFor(d, l, issue)
    /\ \A x \in Issues :
          /\ x[1] # d => acc.issue[x] = issue[x]
          /\ acc.issue[x] >= issue[x]
          /\ acc.issue[x] # issue[x] =>
                x[3] \in DOMAIN output /\ (acc.clean => output[x[3]].approved)
    /\ \A at \in Locations : AtHand(at, acc.stock) + IssuedFrom(at, acc.issue)
                               = AtHand(at, stock) + IssuedFrom(at, issue)

\* What is issued adds up to natural numbers.
LEMMA IssuesAreNatural ==
  ASSUME NEW issues \in [Issues -> Nat]
  PROVE  /\ \A d \in Deliveries, l \in Lines : IssuedFor(d, l, issues) \in Nat
         /\ \A at : IssuedFrom(at, issues) \in Nat
  <1>1. ASSUME NEW d \in Deliveries, NEW l \in Lines
        PROVE  IssuedFor(d, l, issues) \in Nat
    <2> DEFINE f == [i \in Outputs |-> issues[<<d, l, i>>]]
    <2>1. \A i \in DOMAIN f : f[i] \in Nat
      BY DEF Issues
    <2>2. SumFunction(f) \in Nat
      BY <2>1, TablesAreFinite, SumIsNat
    <2>3. QED
      BY <2>2 DEF IssuedFor
  <1>2. ASSUME NEW at
        PROVE  IssuedFrom(at, issues) \in Nat
    <2> DEFINE f == [x \in TakenFrom(at, issues) |-> issues[x]]
    <2>1. IsFiniteSet(TakenFrom(at, issues))
      BY TablesAreFinite, FS_Subset DEF TakenFrom
    <2>2. \A x \in DOMAIN f : f[x] \in Nat
      BY DEF TakenFrom
    <2>3. SumFunction(f) \in Nat
      BY <2>1, <2>2, SumIsNat
    <2>4. QED
      BY <2>3 DEF IssuedFrom
  <1>3. QED
    BY <1>1, <1>2

\* An issue adds to what was issued for its line and from its place.
LEMMA IssueAdds ==
  ASSUME NEW issues \in [Issues -> Nat], NEW z \in Issues, NEW q \in Nat,
         NEW more \in [Issues -> Nat], more[z] = issues[z] + q,
         \A x \in Issues \ {z} : more[x] = issues[x]
  PROVE  /\ IssuedFor(z[1], z[2], more) = IssuedFor(z[1], z[2], issues) + q
         /\ \A m \in Lines \ {z[2]} :
               IssuedFor(z[1], m, more) = IssuedFor(z[1], m, issues)
         /\ IssuedFrom(output[z[3]].location, more)
              = IssuedFrom(output[z[3]].location, issues) + q
         /\ \A at : at # output[z[3]].location =>
               IssuedFrom(at, more) = IssuedFrom(at, issues)
  <1> DEFINE d == z[1]
             l == z[2]
             i == z[3]
  <1>1. /\ z = <<d, l, i>> /\ d \in Deliveries /\ l \in Lines /\ i \in Outputs
        /\ z[1] = d /\ z[2] = l /\ z[3] = i
    BY DEF Issues
  <1> HIDE DEF d, l, i
  <1>2. /\ more[z] = issues[z] + q
        /\ \A x \in Issues : x # z => more[x] = issues[x]
        /\ issues[z] \in Nat
    OBVIOUS
  <1>3. IssuedFor(d, l, more) = IssuedFor(d, l, issues) + q
    <2> DEFINE f == [j \in Outputs |-> issues[<<d, l, j>>]]
               g == [j \in Outputs |-> more[<<d, l, j>>]]
    <2>1. \A j \in Outputs : <<d, l, j>> \in Issues /\ (<<d, l, j>> = z => j = i)
      BY <1>1 DEF Issues
    <2>2. /\ DOMAIN f = Outputs /\ DOMAIN g = Outputs
          /\ \A j \in Outputs : f[j] \in Nat /\ g[j] \in Nat
          /\ \A j \in Outputs \ {i} : g[j] = f[j]
          /\ f[i] = issues[z] /\ g[i] = more[z]
      BY <1>1, <1>2, <2>1
    <2> HIDE DEF f, g
    <2>3. /\ SumFunction(f) \in Int
          /\ SumFunction(g) = SumFunction(f) - ValueAt(f, i) + ValueAt(g, i)
      BY <1>1, <2>2, TablesAreFinite, SumMoves
    <2>4. SumFunction(g) = SumFunction(f) + q
      BY <1>1, <1>2, <2>2, <2>3 DEF ValueAt
    <2>5. QED
      BY <2>4 DEF IssuedFor, f, g
  <1>4. ASSUME NEW m \in Lines \ {l}
        PROVE  IssuedFor(d, m, more) = IssuedFor(d, m, issues)
    <2>1. \A j \in Outputs : more[<<d, m, j>>] = issues[<<d, m, j>>]
      BY <1>1, <1>2 DEF Issues
    <2>2. [j \in Outputs |-> more[<<d, m, j>>]] = [j \in Outputs |-> issues[<<d, m, j>>]]
      BY <2>1
    <2>3. QED
      BY <2>2 DEF IssuedFor
  <1>5. ASSUME NEW at
        PROVE  IssuedFrom(at, more) = IssuedFrom(at, issues)
                        + (IF output[i].location = at THEN q ELSE 0)
    <2> DEFINE S == TakenFrom(at, issues)
               T == TakenFrom(at, more)
               f == [x \in S |-> issues[x]]
               g == [x \in T |-> more[x]]
               here == output[i].location = at
    <2>1. IsFiniteSet(S)
      BY TablesAreFinite, FS_Subset DEF TakenFrom
    <2>2. S \ {z} = T \ {z}
      BY <1>2 DEF TakenFrom
    <2>3. /\ \A x \in S : f[x] \in Nat
          /\ \A x \in T : g[x] \in Nat
          /\ \A x \in S \ {z} : g[x] = f[x]
      BY <1>2, <2>2 DEF TakenFrom
    <2>4. /\ z \in S <=> issues[z] > 0 /\ here
          /\ z \in T <=> more[z] > 0 /\ here
      BY <1>1, <1>2 DEF TakenFrom
    <2>5. /\ DOMAIN f = S /\ DOMAIN g = T
          /\ z \in S => f[z] = issues[z]
          /\ z \in T => g[z] = more[z]
      OBVIOUS
    <2>6. IssuedFrom(at, issues) = SumFunction(f) /\ IssuedFrom(at, more) = SumFunction(g)
      BY DEF IssuedFrom
    <2> HIDE DEF f, g, S, T, here
    <2>7. /\ SumFunction(f) \in Int
          /\ SumFunction(g) = SumFunction(f) - ValueAt(f, z) + ValueAt(g, z)
      BY <2>1, <2>2, <2>3, <2>5, SumMoves
    <2>8. ValueAt(g, z) = ValueAt(f, z) + IF here THEN q ELSE 0
      BY <1>2, <2>4, <2>5 DEF ValueAt
    <2>9. ValueAt(f, z) \in Int
      BY <1>2, <2>4, <2>5 DEF ValueAt
    <2>10. SumFunction(g) = SumFunction(f) + IF here THEN q ELSE 0
      BY <2>7, <2>8, <2>9
    <2>11. QED
      BY <2>6, <2>10 DEF here
  <1>6. IssuedFor(z[1], z[2], more) = IssuedFor(z[1], z[2], issues) + q
    BY <1>1, <1>3
  <1>7. \A m \in Lines \ {z[2]} : IssuedFor(z[1], m, more) = IssuedFor(z[1], m, issues)
    BY <1>1, <1>4
  <1>8. \A at : IssuedFrom(at, issues) \in Nat
    BY IssuesAreNatural
  <1>9. QED
    BY <1>1, <1>5, <1>6, <1>7, <1>8

\* The outputs there are, with the places they are at.
OutputsInPlace == output \in Seq(OutputRow) /\ Len(output) <= MaxReceipts

\* An output of the walk has a location.
LEMMA OutputsHavePlaces ==
  ASSUME OutputsInPlace, NEW i \in DOMAIN output
  PROVE  i \in Outputs /\ output[i] \in OutputRow /\ output[i].location \in Locations
  <1>1. i \in 1..Len(output) /\ Len(output) \in Nat /\ output[i] \in OutputRow
    BY DEF OutputsInPlace
  <1>2. i \in Outputs
    BY <1>1, BoundsOfRun DEF OutputsInPlace, Outputs
  <1>3. QED
    BY <1>1, <1>2 DEF OutputRow

\* Serving a line from one output keeps the books of a completion.
LEMMA ServeKeepsBooks ==
  ASSUME OutputsInPlace, issue \in [Issues -> Nat],
         NEW d \in Deliveries, NEW acc, Underway(d, acc),
         NEW l \in Lines, NEW i \in DOMAIN output
  PROVE  Underway(d, Serve(d, acc, l, i))
  <1> DEFINE z == <<d, l, i>>
             at == output[i].location
             q == Smaller(acc.need[l], acc.stock[at].available)
             need == [acc.need EXCEPT ![l] = @ - q]
             places == [acc.stock EXCEPT ![at].available = @ - q]
             more == [acc.issue EXCEPT ![<<d, l, i>>] = @ + q]
             clean == acc.clean /\ output[i].approved
             next == [need |-> need, stock |-> places, issue |-> more, clean |-> clean]
  <1>1. i \in Outputs /\ at \in Locations /\ output[i].approved \in BOOLEAN
    BY OutputsHavePlaces DEF OutputRow
  <1>2. /\ acc.need \in [Lines -> Nat]
        /\ acc.stock \in [Locations -> [available: Nat, damaged: Nat]]
        /\ acc.issue \in [Issues -> Nat] /\ acc.clean \in BOOLEAN
    BY DEF Underway, Acc
  <1>3. SUFFICES ASSUME i \in OutputsFor(l), acc.need[l] # 0
                 PROVE  Underway(d, next)
    BY DEF Serve
  <1>4. /\ q \in Nat /\ q <= acc.need[l] /\ q <= acc.stock[at].available
        /\ acc.stock[at].available \in Nat
    BY <1>1, <1>2 DEF Smaller
  <1>5. /\ z \in Issues /\ z[1] = d /\ z[2] = l /\ z[3] = i
        /\ acc.issue[z] \in Nat
    BY <1>1, <1>2 DEF Issues
  <1>6. /\ more \in [Issues -> Nat] /\ more[z] = acc.issue[z] + q
        /\ \A x \in Issues \ {z} : more[x] = acc.issue[x]
    <2> HIDE DEF q
    <2>1. QED
      BY <1>2, <1>4, <1>5
  <1>7. /\ need \in [Lines -> Nat] /\ need[l] = acc.need[l] - q
        /\ \A m \in Lines \ {l} : need[m] = acc.need[m]
    BY <1>2, <1>4
  <1>8. /\ places \in [Locations -> [available: Nat, damaged: Nat]]
        /\ AtHand(at, places) = AtHand(at, acc.stock) - q
        /\ \A p \in Locations \ {at} : AtHand(p, places) = AtHand(p, acc.stock)
        /\ \A p \in Locations : AtHand(p, acc.stock) \in Nat
    BY <1>1, <1>2, <1>4 DEF AtHand
  <1>9. /\ \A m \in Lines : IssuedFor(d, m, acc.issue) \in Nat
        /\ \A p : IssuedFrom(p, acc.issue) \in Nat
    BY <1>2, IssuesAreNatural
  <1>10. /\ next.need = need /\ next.stock = places
         /\ next.issue = more /\ next.clean = clean /\ next \in Acc
    BY <1>1, <1>2, <1>7, <1>8, <1>6 DEF Acc
  <1> HIDE DEF next, need, places, more, q, z
  <1>11. /\ IssuedFor(d, l, more) = IssuedFor(d, l, acc.issue) + q
         /\ \A m \in Lines \ {l} : IssuedFor(d, m, more) = IssuedFor(d, m, acc.issue)
         /\ IssuedFrom(at, more) = IssuedFrom(at, acc.issue) + q
         /\ \A p : p # at => IssuedFrom(p, more) = IssuedFrom(p, acc.issue)
    <2> DEFINE old == acc.issue
    <2>1. /\ old \in [Issues -> Nat] /\ q \in Nat /\ more[z] = old[z] + q
          /\ \A x \in Issues \ {z} : more[x] = old[x]
          /\ output[z[3]].location = at
      BY <1>2, <1>4, <1>5, <1>6
    <2> HIDE DEF old, at
    <2>2. /\ IssuedFor(z[1], z[2], more) = IssuedFor(z[1], z[2], old) + q
          /\ \A m \in Lines \ {z[2]} : IssuedFor(z[1], m, more) = IssuedFor(z[1], m, old)
          /\ IssuedFrom(output[z[3]].location, more)
               = IssuedFrom(output[z[3]].location, old) + q
          /\ \A p : p # output[z[3]].location => IssuedFrom(p, more) = IssuedFrom(p, old)
      BY <1>5, <1>6, <2>1, IssueAdds
    <2>3. QED
      BY <1>5, <2>1, <2>2 DEF old
  <1>12. \A m \in Lines : need[m] + IssuedFor(d, m, more)
                            = delivery[d].quantity[m] + IssuedFor(d, m, issue)
    <2>1. \A m \in Lines : acc.need[m] + IssuedFor(d, m, acc.issue)
                            = delivery[d].quantity[m] + IssuedFor(d, m, issue)
      BY DEF Underway
    <2>2. need[l] + IssuedFor(d, l, more) = acc.need[l] + IssuedFor(d, l, acc.issue)
      BY <1>2, <1>4, <1>7, <1>9, <1>11
    <2>3. \A m \in Lines \ {l} : need[m] + IssuedFor(d, m, more)
                                   = acc.need[m] + IssuedFor(d, m, acc.issue)
      BY <1>7, <1>11
    <2>4. QED
      BY <2>1, <2>2, <2>3
  <1>13. ASSUME NEW x \in Issues
         PROVE  /\ x[1] # d => more[x] = issue[x]
                /\ more[x] >= issue[x]
                /\ more[x] # issue[x] =>
                      x[3] \in DOMAIN output /\ (clean => output[x[3]].approved)
    <2>1. /\ x[1] # d => acc.issue[x] = issue[x]
          /\ acc.issue[x] >= issue[x]
          /\ acc.issue[x] # issue[x] =>
                x[3] \in DOMAIN output /\ (acc.clean => output[x[3]].approved)
      BY DEF Underway
    <2>2. CASE x = z
      <3>1. more[x] >= issue[x]
        <4>1. issue[x] \in Nat /\ acc.issue[x] \in Nat
          BY <1>2
        <4>2. more[x] = acc.issue[x] + q
          BY <1>6, <2>2
        <4>3. QED
          BY <1>4, <2>1, <4>1, <4>2
      <3>2. QED
        BY <1>5, <2>2, <3>1
    <2>3. CASE x # z
      BY <1>6, <2>1, <2>3
    <2>4. QED
      BY <2>2, <2>3
  <1>14. ASSUME NEW p \in Locations
         PROVE  AtHand(p, places) + IssuedFrom(p, more)
                  = AtHand(p, stock) + IssuedFrom(p, issue)
    <2>1. AtHand(p, acc.stock) + IssuedFrom(p, acc.issue)
            = AtHand(p, stock) + IssuedFrom(p, issue)
      BY DEF Underway
    <2>2. AtHand(p, places) + IssuedFrom(p, more)
            = AtHand(p, acc.stock) + IssuedFrom(p, acc.issue)
      <3>1. CASE p = at
        BY <1>4, <1>8, <1>9, <1>11, <3>1
      <3>2. CASE p # at
        BY <1>8, <1>9, <1>11, <3>2
      <3>3. QED
        BY <3>1, <3>2
    <2>3. QED
      BY <2>1, <2>2
  <1>15. QED
    BY <1>10, <1>12, <1>13, <1>14 DEF Underway

\* w is how a completion goes through the first n outputs for a line.
LineWalk(w, d, start, l, n) ==
    w = [i \in 0..n |-> IF i = 0 THEN start ELSE Serve(d, w[i - 1], l, i)]

\* A line can be served from any number of outputs.
LEMMA LineWalks ==
  ASSUME NEW d, NEW start, NEW l, NEW n \in Nat
  PROVE  \E w : LineWalk(w, d, start, l, n)
  <1> DEFINE N == {m \in Nat : \E w : LineWalk(w, d, start, l, m)}
  <1>1. 0 \in N
    <2>1. LineWalk([i \in 0..0 |-> start], d, start, l, 0)
      BY DEF LineWalk
    <2>2. QED
      BY <2>1
  <1>2. ASSUME NEW m \in Nat, m \in N
        PROVE  m + 1 \in N
    <2>1. PICK w : LineWalk(w, d, start, l, m)
      BY <1>2
    <2> DEFINE v == [i \in 0..(m + 1) |->
                       IF i <= m THEN w[i] ELSE Serve(d, w[m], l, m + 1)]
               u == [i \in 0..(m + 1) |->
                       IF i = 0 THEN start ELSE Serve(d, v[i - 1], l, i)]
    <2>2. \A i \in 0..m : w[i] = IF i = 0 THEN start ELSE Serve(d, w[i - 1], l, i)
      BY <2>1 DEF LineWalk
    <2>3. \A i \in 1..(m + 1) : i - 1 \in 0..m /\ v[i - 1] = w[i - 1]
      OBVIOUS
    <2>4. ASSUME NEW i \in 0..(m + 1)
          PROVE  v[i] = IF i = 0 THEN start ELSE Serve(d, v[i - 1], l, i)
      <3>1. CASE i = 0
        BY <2>2, <3>1
      <3>2. CASE i \in 1..m
        <4>1. v[i] = w[i] /\ i \in 0..m /\ i # 0
          BY <3>2
        <4> HIDE DEF v
        <4>2. QED
          BY <2>2, <2>3, <3>2, <4>1
      <3>3. CASE i = m + 1
        <4>1. v[i] = Serve(d, w[m], l, i) /\ i - 1 = m /\ i # 0
          BY <3>3
        <4> HIDE DEF v
        <4>2. QED
          BY <2>3, <3>3, <4>1
      <3>4. QED
        BY <3>1, <3>2, <3>3
    <2>5. v = u
      BY <2>4
    <2>6. LineWalk(v, d, start, l, m + 1)
      BY <2>5 DEF LineWalk
    <2>7. QED
      BY <2>6
  <1>3. Nat \subseteq N
    BY <1>1, <1>2, NatSetInduction
  <1>4. QED
    BY <1>3

\* What serving a line comes to is where its walk through the outputs ends.
LEMMA ServeLineIsChosen ==
  ASSUME NEW d, NEW start, NEW l
  PROVE  ServeLine(d, start, l)
           = (CHOOSE w : LineWalk(w, d, start, l, Len(output)))[Len(output)]
  BY DEF ServeLine, LineWalk

\* Serving a line from all outputs keeps the books of a completion.
LEMMA ServeLineKeepsBooks ==
  ASSUME OutputsInPlace, issue \in [Issues -> Nat],
         NEW d \in Deliveries, NEW start, Underway(d, start), NEW l \in Lines
  PROVE  Underway(d, ServeLine(d, start, l))
  <1> DEFINE w == CHOOSE v : LineWalk(v, d, start, l, Len(output))
  <1>1. Len(output) \in Nat /\ DOMAIN output = 1..Len(output)
    BY DEF OutputsInPlace
  <1>2. LineWalk(w, d, start, l, Len(output))
    BY <1>1, LineWalks
  <1>3. ServeLine(d, start, l) = w[Len(output)]
    BY ServeLineIsChosen
  <1> HIDE DEF w
  <1>4. \A i \in 0..Len(output) :
           w[i] = IF i = 0 THEN start ELSE Serve(d, w[i - 1], l, i)
    BY <1>2 DEF LineWalk
  <1> DEFINE N == {i \in Nat : i <= Len(output) => Underway(d, w[i])}
  <1>5. 0 \in N
    BY <1>1, <1>4
  <1>6. ASSUME NEW i \in Nat, i \in N
        PROVE  i + 1 \in N
    <2>1. SUFFICES ASSUME i + 1 <= Len(output)
                   PROVE  Underway(d, w[i + 1])
      OBVIOUS
    <2>2. /\ i + 1 \in DOMAIN output /\ i + 1 \in 0..Len(output)
          /\ (i + 1) - 1 = i /\ i + 1 # 0 /\ Underway(d, w[i])
      BY <1>1, <1>6, <2>1
    <2>3. w[i + 1] = Serve(d, w[i], l, i + 1)
      BY <1>4, <2>2
    <2>4. QED
      BY <2>2, <2>3, ServeKeepsBooks
  <1>7. Nat \subseteq N
    BY <1>5, <1>6, NatSetInduction
  <1>8. QED
    BY <1>1, <1>3, <1>7

\* What a completion starts from.
Untouched(d) == [need |-> delivery[d].quantity, stock |-> stock,
                 issue |-> issue, clean |-> TRUE]

\* w is how a completion goes through the first n lines.
OrderWalk(w, d, n) ==
    w = [i \in 0..n |-> IF i = 0 THEN Untouched(d)
                        ELSE ServeLine(d, w[i - 1], SetToSeq(Lines)[i])]

\* Any number of lines can be served.
LEMMA OrderWalks ==
  ASSUME NEW d, NEW n \in Nat
  PROVE  \E w : OrderWalk(w, d, n)
  <1> DEFINE N == {m \in Nat : \E w : OrderWalk(w, d, m)}
             S(x, i) == ServeLine(d, x, SetToSeq(Lines)[i])
  <1>1. 0 \in N
    <2>1. OrderWalk([i \in 0..0 |-> Untouched(d)], d, 0)
      BY DEF OrderWalk
    <2>2. QED
      BY <2>1
  <1>2. ASSUME NEW m \in Nat, m \in N
        PROVE  m + 1 \in N
    <2>1. PICK w : OrderWalk(w, d, m)
      BY <1>2
    <2> DEFINE v == [i \in 0..(m + 1) |-> IF i <= m THEN w[i] ELSE S(w[m], m + 1)]
               u == [i \in 0..(m + 1) |-> IF i = 0 THEN Untouched(d) ELSE S(v[i - 1], i)]
    <2>2. \A i \in 0..m : w[i] = IF i = 0 THEN Untouched(d) ELSE S(w[i - 1], i)
      BY <2>1 DEF OrderWalk
    <2>3. \A i \in 1..(m + 1) : i - 1 \in 0..m /\ v[i - 1] = w[i - 1]
      OBVIOUS
    <2> HIDE DEF S
    <2>4. ASSUME NEW i \in 0..(m + 1)
          PROVE  v[i] = IF i = 0 THEN Untouched(d) ELSE S(v[i - 1], i)
      <3>1. CASE i = 0
        BY <2>2, <3>1
      <3>2. CASE i \in 1..m
        <4>1. v[i] = w[i] /\ i \in 0..m /\ i # 0
          BY <3>2
        <4> HIDE DEF v
        <4>2. QED
          BY <2>2, <2>3, <3>2, <4>1
      <3>3. CASE i = m + 1
        <4>1. v[i] = S(w[m], i) /\ i - 1 = m /\ i # 0
          BY <3>3
        <4> HIDE DEF v
        <4>2. QED
          BY <2>3, <3>3, <4>1
      <3>4. QED
        BY <3>1, <3>2, <3>3
    <2>5. v = u
      BY <2>4
    <2>6. OrderWalk(v, d, m + 1)
      BY <2>5 DEF OrderWalk, S
    <2>7. QED
      BY <2>6
  <1>3. Nat \subseteq N
    BY <1>1, <1>2, NatSetInduction
  <1>4. QED
    BY <1>3

\* What a completion comes to is where its walk through the lines ends.
LEMMA ServedIsChosen ==
  ASSUME NEW d
  PROVE  Served(d) = (CHOOSE w : OrderWalk(w, d, Cardinality(Lines)))[Cardinality(Lines)]
  BY DEF Served, OrderWalk, Untouched

\* A completion keeps its books.
LEMMA ServedKeepsBooks ==
  ASSUME OutputsInPlace, issue \in [Issues -> Nat],
         stock \in [Locations -> [available: Nat, damaged: Nat]],
         NEW d \in Deliveries, delivery[d].quantity \in [Lines -> Nat]
  PROVE  Underway(d, Served(d))
  <1> DEFINE C == Cardinality(Lines)
             line == SetToSeq(Lines)
             w == CHOOSE v : OrderWalk(v, d, C)
  <1>1. C \in Nat /\ line \in [1..C -> Lines]
    BY KeysAreFinite, FS_CardinalityType, LinesInSequence
  <1>2. OrderWalk(w, d, C)
    BY <1>1, OrderWalks
  <1>3. Served(d) = w[C]
    BY ServedIsChosen
  <1> HIDE DEF w
  <1>4. \A i \in 0..C : w[i] = IF i = 0 THEN Untouched(d)
                               ELSE ServeLine(d, w[i - 1], line[i])
    BY <1>2 DEF OrderWalk
  <1>5. Underway(d, Untouched(d))
    BY DEF Underway, Untouched, Acc
  <1> HIDE DEF C, line
  <1> DEFINE N == {i \in Nat : i <= C => Underway(d, w[i])}
  <1>6. 0 \in N
    BY <1>1, <1>4, <1>5
  <1>7. ASSUME NEW i \in Nat, i \in N
        PROVE  i + 1 \in N
    <2>1. SUFFICES ASSUME i + 1 <= C
                   PROVE  Underway(d, w[i + 1])
      OBVIOUS
    <2>2. /\ i + 1 \in 1..C /\ i + 1 \in 0..C
          /\ (i + 1) - 1 = i /\ i + 1 # 0 /\ Underway(d, w[i])
      BY <1>1, <1>7, <2>1
    <2>3. w[i + 1] = ServeLine(d, w[i], line[i + 1]) /\ line[i + 1] \in Lines
      BY <1>1, <1>4, <2>2
    <2>4. QED
      BY <2>2, <2>3, ServeLineKeepsBooks
  <1>8. Nat \subseteq N
    BY <1>6, <1>7, NatSetInduction
  <1>9. QED
    BY <1>1, <1>3, <1>8

-----------------------------------------------------------------------------
(* Types.                                                                  *)

\* The greater of two numbers.
LEMMA GreaterOfTwo ==
  ASSUME NEW n \in Int
  PROVE  Max({0, n}) = IF n > 0 THEN n ELSE 0
  <1>1. \A x \in {0, n} : (\A y \in {0, n} : x >= y) <=> x = IF n > 0 THEN n ELSE 0
    OBVIOUS
  <1>2. QED
    BY <1>1 DEF Max

\* What came back, and what is left to give back, are numbers.
LEMMA RestsAreNumbers ==
  ASSUME TypeOK, NEW d \in Deliveries, NEW l \in Lines
  PROVE  /\ \A i \in Outputs : ReturnedAgainst(d, l, i) \in Nat
         /\ \A i \in Outputs : Left(d, l, i) \in Int
         /\ \A i \in Outputs : LeftBefore(d, l, i) \in Int
  <1>1. ASSUME NEW i \in Outputs
        PROVE  ReturnedAgainst(d, l, i) \in Nat
    <2> DEFINE f == [k \in ReturnsOf(d) |-> return[k].from[<<l, i>>]]
    <2>1. <<l, i>> \in Lines \X Outputs
      OBVIOUS
    <2>2. \A k \in ReturnsOf(d) : return[k] \in ReturnRow
      BY DEF TypeOK, ReturnsOf, Recorded
    <2>3. \A k \in DOMAIN f : f[k] \in Nat
      BY <2>1, <2>2 DEF ReturnRow
    <2>4. IsFiniteSet(DOMAIN f)
      BY KeysAreFinite, FS_Subset DEF ReturnsOf, Recorded
    <2> HIDE DEF f
    <2>5. SumFunction(f) \in Nat
      BY <2>3, <2>4, SumIsNat
    <2>6. QED
      BY <2>5 DEF ReturnedAgainst, f
  <1>2. ASSUME NEW i \in Outputs
        PROVE  Left(d, l, i) \in Int
    <2>1. issue[<<d, l, i>>] \in Nat
      BY DEF TypeOK
    <2>2. QED
      BY <1>1, <2>1 DEF Left
  <1>3. ASSUME NEW i \in Outputs
        PROVE  LeftBefore(d, l, i) \in Int
    <2> DEFINE f == [j \in 1..(i - 1) |-> Left(d, l, j)]
    <2>1. 1..(i - 1) \subseteq Outputs /\ i \in Nat
      BY BoundsOfRun DEF Outputs
    <2>2. IsFiniteSet(DOMAIN f)
      BY <2>1, TablesAreFinite, FS_Subset
    <2>3. \A j \in DOMAIN f : f[j] \in Int
      BY <1>2, <2>1
    <2> HIDE DEF f
    <2>4. SumFunction(f) \in Int
      BY <2>2, <2>3, SumType DEF SumFunction
    <2>5. QED
      BY <2>4 DEF LeftBefore, f
  <1>4. QED
    BY <1>1, <1>2, <1>3

\* A return gives back natural quantities, and no more of an issue than is left.
LEMMA GivenBackFits ==
  ASSUME TypeOK, NEW d \in Deliveries, NEW quantity \in [Lines -> Nat]
  PROVE  /\ GivenBack(d, quantity) \in [Lines \X Outputs -> Nat]
         /\ \A l \in Lines, i \in Outputs : Left(d, l, i) >= 0 =>
               GivenBack(d, quantity)[<<l, i>>] <= Left(d, l, i)
  <1>1. ASSUME NEW l \in Lines, NEW i \in Outputs
        PROVE  /\ GivenBack(d, quantity)[<<l, i>>] \in Nat
               /\ Left(d, l, i) >= 0 =>
                     GivenBack(d, quantity)[<<l, i>>] <= Left(d, l, i)
    <2> DEFINE n == Smaller(quantity[l] - LeftBefore(d, l, i), Left(d, l, i))
    <2>1. /\ quantity[l] \in Nat /\ LeftBefore(d, l, i) \in Int
          /\ Left(d, l, i) \in Int
      BY RestsAreNumbers
    <2>2. n \in Int /\ n <= Left(d, l, i)
      BY <2>1 DEF Smaller
    <2>3. GivenBack(d, quantity)[<<l, i>>] = Max({0, n})
      BY DEF GivenBack
    <2> HIDE DEF n
    <2>4. GivenBack(d, quantity)[<<l, i>>] = IF n > 0 THEN n ELSE 0
      BY <2>2, <2>3, GreaterOfTwo
    <2>5. QED
      BY <2>1, <2>2, <2>4
  <1>2. DOMAIN GivenBack(d, quantity) = Lines \X Outputs
    BY DEF GivenBack
  <1>3. GivenBack(d, quantity) = [x \in Lines \X Outputs |-> GivenBack(d, quantity)[x]]
    BY DEF GivenBack
  <1>4. \A x \in Lines \X Outputs : GivenBack(d, quantity)[x] \in Nat
    <2>1. ASSUME NEW x \in Lines \X Outputs
          PROVE  GivenBack(d, quantity)[x] \in Nat
      <3>1. x = <<x[1], x[2]>> /\ x[1] \in Lines /\ x[2] \in Outputs
        OBVIOUS
      <3>2. QED
        BY <1>1, <3>1
    <2>2. QED
      BY <2>1
  <1>5. QED
    BY <1>1, <1>3, <1>4

\* What a return puts at a place is a natural quantity, and the damaged and
\* the other goods of it add up.
LEMMA PutAtAddsUp ==
  ASSUME NEW at, NEW terms, NEW from \in [Lines \X Outputs -> Nat]
  PROVE  /\ \A D : PutAt(at, terms, from, D) \in Nat
         /\ PutAt(at, terms, from, Dispositions)
              = PutAt(at, terms, from, Dispositions \ {"damaged"})
                  + PutAt(at, terms, from, {"damaged"})
  <1> DEFINE Here(D) == {li \in Lines \X Outputs :
                           /\ from[li] > 0
                           /\ ReturnedTo(terms, li[1], li[2]) = at
                           /\ terms[li[1]].disposition \in D}
             f(D) == [li \in Here(D) |-> from[li]]
             A == f(Dispositions)
             B == f(Dispositions \ {"damaged"})
             C == f({"damaged"})
  <1>1. \A D : IsFiniteSet(Here(D)) /\ \A li \in Here(D) : from[li] \in Nat
    BY TablesAreFinite, FS_Subset
  <1>2. \A D : PutAt(at, terms, from, D) = SumFunction(f(D))
    BY DEF PutAt
  <1>3. /\ DOMAIN B = DOMAIN A \ DOMAIN C
        /\ DOMAIN C \subseteq DOMAIN A
        /\ \A x \in DOMAIN B : A[x] = B[x]
        /\ \A x \in DOMAIN C : A[x] = C[x]
    BY DEF Dispositions
  <1>4. ASSUME NEW D
        PROVE  PutAt(at, terms, from, D) \in Nat
    <2> DEFINE g == f(D)
    <2>1. IsFiniteSet(DOMAIN g) /\ \A x \in DOMAIN g : g[x] \in Nat
      BY <1>1
    <2> HIDE DEF g
    <2>2. SumFunction(g) \in Nat
      BY <2>1, SumIsNat
    <2>3. QED
      BY <1>2, <2>2 DEF g
  <1>5. IsFiniteSet(DOMAIN A) /\ \A x \in DOMAIN A : A[x] \in Int
    <2> HIDE DEF Here
    <2>1. IsFiniteSet(Here(Dispositions)) /\ \A li \in Here(Dispositions) : from[li] \in Nat
      BY <1>1
    <2>2. DOMAIN A = Here(Dispositions) /\ \A li \in Here(Dispositions) : A[li] = from[li]
      OBVIOUS
    <2>3. QED
      BY <2>1, <2>2
  <1>6. /\ PutAt(at, terms, from, Dispositions) = SumFunction(A)
        /\ PutAt(at, terms, from, Dispositions \ {"damaged"}) = SumFunction(B)
        /\ PutAt(at, terms, from, {"damaged"}) = SumFunction(C)
    BY <1>2
  <1> HIDE DEF A, B, C
  <1>7. SumFunction(A) = SumFunction(B) + SumFunction(C)
    <2> DEFINE T == DOMAIN C
    <2>1. B = [x \in DOMAIN A \ T |-> A[x]] /\ C = [x \in T |-> A[x]] /\ T \subseteq DOMAIN A
      BY <1>3 DEF B, C
    <2> HIDE DEF T
    <2>2. SumFunction(A) = SumFunction([x \in DOMAIN A \ T |-> A[x]])
                             + SumFunction([x \in T |-> A[x]])
      BY <1>5, <2>1, SumOfParts
    <2>3. QED
      BY <2>1, <2>2
  <1>8. QED
    BY <1>4, <1>6, <1>7

-----------------------------------------------------------------------------
(* The steps, by what they change.                                         *)

\* A delivery moves on without goods leaving; only validated ones leave draft.
Movement(d, s) ==
    /\ delivery[d] # None /\ delivery[d].status \in InFlight
    /\ s \in (InFlight \ {"draft"}) \union {"failed", "cancelled"}
    /\ s \in InFlight /\ delivery[d].status = "draft" => Validated(d)
    /\ SetStatus(d, s)
    /\ UNCHANGED <<issue, stock>>

\* A delivery is completed.
Completion(d) ==
    /\ delivery[d] # None
    /\ Complete(d)

\* Goods are finished.
Finish ==
    \E o \in Orders, l \in Lines \union {None}, at \in Workshops, q \in Quantities :
       FinishProduction(o, l, at, q)

\* Orders and fittings change, or nothing does.
Elsewhere ==
    /\ UNCHANGED <<output, delivery, return, issue, stock, other>>
    /\ \/ UNCHANGED <<order, fitting>>
       \/ \E o \in Orders : ConfirmOrder(o) \/ CancelOrder(o) \/ ChangeFitting(o)

\* Every step is one of these.
LEMMA StepsByKind ==
  ASSUME [Next]_vars
  PROVE  \/ Create
         \/ \E d \in Deliveries, s \in (InFlight \ {"draft"}) \union {"failed", "cancelled"} :
               Movement(d, s)
         \/ \E d \in Deliveries : Completion(d)
         \/ Return
         \/ Finish
         \/ \E i \in DOMAIN output : JudgeOutput(i)
         \/ \E at \in Locations, q \in {-1, 1} : MoveOtherStock(at, q)
         \/ Elsewhere
  <1>1. CASE Transition
    <2>1. PICK d \in Deliveries :
             /\ delivery[d] # None
             /\ \/ Prepare(d) \/ Assign(d) \/ Ship(d) \/ ReadyForPickup(d)
                \/ Complete(d) \/ Fail(d) \/ Cancel(d)
      BY <1>1 DEF Transition
    <2>2. CASE Prepare(d)
      <3>1. Movement(d, "prepared")
        BY <2>1, <2>2 DEF Prepare, Movement, InFlight
      <3>2. QED
        BY <3>1 DEF InFlight
    <2>3. CASE Assign(d)
      <3>1. Movement(d, "assigned")
        BY <2>1, <2>3 DEF Assign, Movement, InFlight
      <3>2. QED
        BY <3>1 DEF InFlight
    <2>4. CASE Ship(d)
      <3>1. Movement(d, "shipped")
        BY <2>1, <2>4 DEF Ship, Movement, InFlight
      <3>2. QED
        BY <3>1 DEF InFlight
    <2>5. CASE ReadyForPickup(d)
      <3>1. Movement(d, "ready_for_pickup")
        BY <2>1, <2>5 DEF ReadyForPickup, Movement, InFlight
      <3>2. QED
        BY <3>1 DEF InFlight
    <2>6. CASE Complete(d)
      BY <2>1, <2>6 DEF Completion
    <2>7. CASE Fail(d)
      <3>1. Movement(d, "failed")
        BY <2>1, <2>7 DEF Fail, Movement, InFlight
      <3>2. QED
        BY <3>1
    <2>8. CASE Cancel(d)
      <3>1. Movement(d, "cancelled")
        BY <2>1, <2>8 DEF Cancel, Movement, InFlight
      <3>2. QED
        BY <3>1
    <2>9. QED
      BY <2>1, <2>2, <2>3, <2>4, <2>5, <2>6, <2>7, <2>8
  <1>2. CASE RestOfProgram
    BY <1>2 DEF RestOfProgram, Finish, Elsewhere, ConfirmOrder, CancelOrder, ChangeFitting
  <1>3. CASE UNCHANGED vars
    BY <1>3 DEF vars, Elsewhere
  <1>4. QED
    BY <1>1, <1>2, <1>3 DEF Next

\* A delivery that gets another status keeps the rest of its row.
LEMMA StatusChanges ==
  ASSUME TypeOK, NEW d \in Deliveries, delivery[d] # None,
         NEW s \in Active \union {"failed", "cancelled"}, SetStatus(d, s)
  PROVE  /\ delivery' \in [Deliveries -> DeliveryRow \union {None}]
         /\ delivery'[d] # None /\ delivery'[d].status = s
         /\ delivery'[d].quantity = delivery[d].quantity
         /\ delivery'[d].order = delivery[d].order
         /\ \A e \in Deliveries \ {d} : delivery'[e] = delivery[e]
         /\ UNCHANGED <<order, fitting, output, return, other>>
  <1> DEFINE row == [delivery[d] EXCEPT !.status = s]
  <1>1. delivery[d] \in DeliveryRow
    BY DEF TypeOK
  <1>2. /\ row \in DeliveryRow /\ row.status = s
        /\ row.quantity = delivery[d].quantity /\ row.order = delivery[d].order
    BY <1>1 DEF DeliveryRow
  <1>3. delivery' = [delivery EXCEPT ![d] = row]
    BY DEF SetStatus
  <1> HIDE DEF row
  <1>4. /\ delivery' \in [Deliveries -> DeliveryRow \union {None}]
        /\ delivery'[d] = row
        /\ \A e \in Deliveries \ {d} : delivery'[e] = delivery[e]
    BY <1>2, <1>3 DEF TypeOK
  <1>5. QED
    BY <1>2, <1>4, NoneIsNoDelivery DEF SetStatus

\* What a completion does, of its books.
LEMMA CompletionKeepsBooks ==
  ASSUME TypeOK, NEW d \in Deliveries, Completion(d)
  PROVE  /\ delivery[d] # None /\ delivery[d].status \in InFlight
         /\ \E s \in Terminal : SetStatus(d, s)
         /\ Underway(d, Served(d)) /\ Served(d).clean
         /\ \A l \in Lines : Served(d).need[l] = 0
         /\ issue' = Served(d).issue /\ stock' = Served(d).stock
         /\ issue' \in [Issues -> Nat]
         /\ stock' \in [Locations -> [available: Nat, damaged: Nat]]
  <1>1. /\ delivery[d] # None /\ delivery[d].status \in InFlight
        /\ \E s \in Terminal : SetStatus(d, s)
    BY DEF Completion, Complete, InFlight, Terminal
  <1>2. delivery[d].quantity \in [Lines -> Nat]
    BY <1>1 DEF TypeOK, DeliveryRow
  <1>3. Underway(d, Served(d))
    BY <1>2, ServedKeepsBooks DEF TypeOK, OutputsInPlace, Issues
  <1>4. /\ Served(d).clean /\ \A l \in Lines : Served(d).need[l] = 0
        /\ issue' = Served(d).issue /\ stock' = Served(d).stock
    BY DEF Completion, Complete
  <1>5. Served(d) \in Acc
    BY <1>3 DEF Underway
  <1>6. QED
    BY <1>1, <1>3, <1>4, <1>5 DEF Acc

\* What finishing goods adds to the outputs and to the stock.
LEMMA FinishAppends ==
  ASSUME TypeOK, Finish
  PROVE  \E row \in OutputRow :
            /\ output' = Append(output, row)
            /\ output' \in Seq(OutputRow) /\ Len(output') = Len(output) + 1
            /\ Len(output') <= MaxReceipts
            /\ output'[Len(output) + 1] = row
            /\ \A i \in DOMAIN output : output'[i] = output[i]
            /\ stock' \in [Locations -> [available: Nat, damaged: Nat]]
            /\ stock'[row.location].available
                 = stock[row.location].available + row.quantity
            /\ stock'[row.location].damaged = stock[row.location].damaged
            /\ \A at \in Locations \ {row.location} : stock'[at] = stock[at]
            /\ UNCHANGED <<order, fitting, delivery, return, issue, other>>
  <1>1. PICK o \in Orders, l \in Lines \union {None}, at \in Workshops, q \in Quantities :
           FinishProduction(o, l, at, q)
    BY DEF Finish
  <1> DEFINE row == [order |-> o, line |-> l, location |-> at,
                     quantity |-> q, approved |-> TRUE]
  <1>2. at \in Locations /\ q \in Nat /\ MaxReceipts \in Nat
    BY BoundsOfRun
  <1>3. row \in OutputRow /\ row.location = at /\ row.quantity = q
    BY <1>2 DEF OutputRow
  <1>4. output' = Append(output, row) /\ Len(output) < MaxReceipts
    BY <1>1 DEF FinishProduction
  <1> HIDE DEF row
  <1>5. /\ output' \in Seq(OutputRow) /\ Len(output') = Len(output) + 1
        /\ output'[Len(output) + 1] = row
        /\ \A i \in DOMAIN output : output'[i] = output[i]
        /\ Len(output) \in Nat
    BY <1>3, <1>4 DEF TypeOK
  <1>6. /\ stock' \in [Locations -> [available: Nat, damaged: Nat]]
        /\ stock'[at].available = stock[at].available + q
        /\ stock'[at].damaged = stock[at].damaged
        /\ \A p \in Locations \ {at} : stock'[p] = stock[p]
    <2> DEFINE place == [stock[at] EXCEPT !.available = @ + q]
    <2>1. /\ stock \in [Locations -> [available: Nat, damaged: Nat]]
          /\ stock[at] \in [available: Nat, damaged: Nat]
      BY <1>2 DEF TypeOK
    <2>2. /\ place \in [available: Nat, damaged: Nat]
          /\ place.available = stock[at].available + q
          /\ place.damaged = stock[at].damaged
      BY <1>2, <2>1
    <2>3. stock' = [stock EXCEPT ![at] = place]
      BY <1>1 DEF FinishProduction
    <2> HIDE DEF place
    <2>4. QED
      BY <1>2, <2>1, <2>2, <2>3
  <1>7. UNCHANGED <<order, fitting, delivery, return, issue, other>>
    BY <1>1 DEF FinishProduction
  <1>8. QED
    BY <1>2, <1>3, <1>4, <1>5, <1>6, <1>7

\* Judging an output changes nothing else of it.
LEMMA JudgingKeepsOutputs ==
  ASSUME TypeOK, NEW i \in DOMAIN output, JudgeOutput(i)
  PROVE  /\ output' \in Seq(OutputRow) /\ Len(output') = Len(output)
         /\ DOMAIN output' = DOMAIN output
         /\ \A j \in DOMAIN output : /\ output'[j].order = output[j].order
                                     /\ output'[j].line = output[j].line
                                     /\ output'[j].location = output[j].location
                                     /\ output'[j].quantity = output[j].quantity
         /\ UNCHANGED <<order, fitting, delivery, return, issue, stock, other>>
  <1> DEFINE row == [output[i] EXCEPT !.approved = ~@]
  <1>1. output[i] \in OutputRow /\ output \in Seq(OutputRow)
    BY DEF TypeOK
  <1>2. /\ row \in OutputRow /\ row.order = output[i].order /\ row.line = output[i].line
        /\ row.location = output[i].location /\ row.quantity = output[i].quantity
    BY <1>1 DEF OutputRow
  <1>3. output' = [output EXCEPT ![i] = row]
    BY DEF JudgeOutput
  <1> HIDE DEF row
  <1>4. /\ output' \in Seq(OutputRow) /\ Len(output') = Len(output)
        /\ DOMAIN output' = DOMAIN output
        /\ output'[i] = row /\ \A j \in DOMAIN output \ {i} : output'[j] = output[j]
    BY <1>1, <1>2, <1>3
  <1>5. QED
    BY <1>2, <1>4 DEF JudgeOutput

-----------------------------------------------------------------------------
(* Type correctness.                                                       *)

\* What callers ask for is natural quantities.
LEMMA LineQuantitiesAreNatural == LineQuantities \subseteq [Lines -> Nat]
  <1>1. Quantities \union {0} \subseteq Nat
    BY BoundsOfRun
  <1>2. QED
    BY <1>1 DEF LineQuantities

\* The first state is of the types stated.
LEMMA InitTypes == Init => TypeOK
  <1>1. BoundsOfRun
    BY BoundsOfRun
  <1>2. QED
    BY <1>1 DEF Init, TypeOK, BoundsOfRun

\* A delivery is created with a row of its own.
LEMMA CreateAddsRow ==
  ASSUME TypeOK, Create
  PROVE  \E d \in Deliveries, row \in DeliveryRow :
            /\ order[row.order] = "confirmed" /\ delivery[d] = None
            /\ row.status = "draft" /\ row.quantity \in LineQuantities
            /\ \A l \in Lines : row.quantity[l] > 0 =>
                  Allocated(l) + row.quantity[l] <= Ordered[l] + ExchangeAllowance(l)
            /\ delivery' = [delivery EXCEPT ![d] = row]
            /\ delivery' \in [Deliveries -> DeliveryRow \union {None}]
            /\ delivery'[d] = row /\ row # None
            /\ \A e \in Deliveries \ {d} : delivery'[e] = delivery[e]
            /\ UNCHANGED <<order, fitting, output, return, issue, stock, other>>
  <1>1. PICK d \in Deliveries, o \in Orders, mode \in Modes, packed \in BOOLEAN,
             courier \in BOOLEAN, quantity \in LineQuantities :
           CreateDelivery(d, o, mode, packed, courier, quantity)
    BY DEF Create
  <1> DEFINE row == [order |-> o, mode |-> mode, packed |-> packed, courier |-> courier,
                     status |-> "draft", quantity |-> quantity]
  <1>2. quantity \in [Lines -> Nat]
    BY LineQuantitiesAreNatural
  <1>3. /\ row \in DeliveryRow /\ row.order = o /\ row.status = "draft"
        /\ row.quantity = quantity
    BY <1>2 DEF DeliveryRow, Active, InFlight
  <1>4. delivery' = [delivery EXCEPT ![d] = row]
    BY <1>1 DEF CreateDelivery
  <1> HIDE DEF row
  <1>5. /\ delivery' \in [Deliveries -> DeliveryRow \union {None}]
        /\ delivery'[d] = row
        /\ \A e \in Deliveries \ {d} : delivery'[e] = delivery[e]
    BY <1>3, <1>4 DEF TypeOK
  <1>6. row # None
    BY <1>3, NoneIsNoDelivery
  <1>7. QED
    BY <1>1, <1>3, <1>4, <1>5, <1>6 DEF CreateDelivery

\* The stock with what a return brings.
StockWith(terms, from) ==
    [l \in Locations |->
       [available |-> stock[l].available + PutAt(l, terms, from, Dispositions \ {"damaged"}),
        damaged |-> stock[l].damaged + PutAt(l, terms, from, {"damaged"})]]

\* A return is recorded under a key of its own.
LEMMA ReturnAddsRow ==
  ASSUME TypeOK, Return
  PROVE  \E k \in ReturnKeys, row \in ReturnRow :
            /\ return[k] = None /\ row # None
            /\ delivery[row.delivery] # None
            /\ delivery[row.delivery].status \in Terminal
            /\ row.resolution \in Resolutions
            /\ row.quantity \in LineQuantities
            /\ row.from = GivenBack(row.delivery, row.quantity)
            /\ \A l \in Lines :
                  /\ ReturnedOf(row.delivery, l) + row.quantity[l]
                       <= delivery[row.delivery].quantity[l]
                  /\ row.quantity[l] = SumFunction([i \in Outputs |-> row.from[<<l, i>>]])
            /\ return' \in [ReturnKeys -> ReturnRow \union {None}]
            /\ return'[k] = row
            /\ \A j \in ReturnKeys \ {k} : return'[j] = return[j]
            /\ stock' = StockWith(row.terms, row.from)
            /\ UNCHANGED <<order, fitting, output, delivery, issue, other>>
  <1>1. PICK k \in ReturnKeys, d \in Deliveries, resolution \in Resolutions,
             quantity \in LineQuantities :
           /\ delivery[d] # None
           /\ \E terms \in TermsFor(quantity) : CreateReturn(k, d, resolution, terms, quantity)
    BY DEF Return
  <1>2. PICK terms \in TermsFor(quantity) : CreateReturn(k, d, resolution, terms, quantity)
    BY <1>1
  <1> DEFINE from == GivenBack(d, quantity)
             row == [delivery |-> d, resolution |-> resolution, terms |-> terms,
                     quantity |-> quantity, from |-> from]
  <1>3. quantity \in [Lines -> Nat] /\ terms \in [Lines -> Terms \union {None}]
    BY LineQuantitiesAreNatural DEF TermsFor, AllowedTerms
  <1>4. from \in [Lines \X Outputs -> Nat]
    BY <1>3, GivenBackFits
  <1>5. /\ return[k] = None
        /\ delivery[d].status \in Terminal
        /\ \A l \in Lines :
              /\ ReturnedOf(d, l) + quantity[l] <= delivery[d].quantity[l]
              /\ quantity[l] = SumFunction([i \in Outputs |-> from[<<l, i>>]])
        /\ return' = [return EXCEPT ![k] = row]
        /\ stock' = StockWith(terms, from)
        /\ UNCHANGED <<order, fitting, output, delivery, issue, other>>
    BY <1>2 DEF CreateReturn, StockWith
  <1> HIDE DEF from
  <1>6. /\ row.delivery = d /\ row.resolution = resolution /\ row.terms = terms
        /\ row.quantity = quantity /\ row.from = from /\ row \in ReturnRow
    BY <1>3, <1>4 DEF ReturnRow
  <1> HIDE DEF row
  <1>7. /\ return' \in [ReturnKeys -> ReturnRow \union {None}]
        /\ return'[k] = row
        /\ \A j \in ReturnKeys \ {k} : return'[j] = return[j]
    BY <1>5, <1>6 DEF TypeOK
  <1>8. row # None
    BY <1>6, NoneIsNoDelivery
  <1>9. row.from = GivenBack(row.delivery, row.quantity)
    BY <1>6 DEF from
  <1>10. WITNESS k \in ReturnKeys, row \in ReturnRow
  <1>11. QED
    BY <1>1, <1>5, <1>6, <1>7, <1>8, <1>9

\* What a return adds at each place.
LEMMA ReturnAddsStock ==
  ASSUME TypeOK, NEW terms, NEW from \in [Lines \X Outputs -> Nat]
  PROVE  /\ StockWith(terms, from) \in [Locations -> [available: Nat, damaged: Nat]]
         /\ \A at \in Locations : AtHand(at, StockWith(terms, from))
                                     = AtHand(at, stock) + PutAt(at, terms, from, Dispositions)
  <1> DEFINE A(l) == PutAt(l, terms, from, Dispositions \ {"damaged"})
             B(l) == PutAt(l, terms, from, {"damaged"})
             C(l) == PutAt(l, terms, from, Dispositions)
  <1>1. \A l \in Locations : A(l) \in Nat /\ B(l) \in Nat /\ C(l) = A(l) + B(l)
    BY PutAtAddsUp
  <1> DEFINE after == StockWith(terms, from)
  <1>2. after = [l \in Locations |-> [available |-> stock[l].available + A(l),
                                       damaged |-> stock[l].damaged + B(l)]]
    BY DEF StockWith
  <1>3. \A l \in Locations : stock[l].available \in Nat /\ stock[l].damaged \in Nat
    BY DEF TypeOK
  <1> HIDE DEF A, B, C, after
  <1>4. \A at \in Locations : AtHand(at, after) = AtHand(at, stock) + C(at)
    BY <1>1, <1>2, <1>3 DEF AtHand
  <1>5. after \in [Locations -> [available: Nat, damaged: Nat]]
    BY <1>1, <1>2, <1>3
  <1>6. QED
    BY <1>4, <1>5 DEF C, after

\* Every step keeps the types.
LEMMA StepKeepsTypes ==
  ASSUME TypeOK, [Next]_vars
  PROVE  TypeOK'
  <1>1. CASE Create
    BY <1>1, CreateAddsRow DEF TypeOK
  <1>2. ASSUME NEW d \in Deliveries,
               NEW s \in (InFlight \ {"draft"}) \union {"failed", "cancelled"}, Movement(d, s)
        PROVE  TypeOK'
    BY <1>2, StatusChanges DEF Movement, TypeOK, Active
  <1>3. ASSUME NEW d \in Deliveries, Completion(d)
        PROVE  TypeOK'
    <2>1. PICK s \in Terminal : SetStatus(d, s)
      BY <1>3, CompletionKeepsBooks
    <2>2. /\ issue' \in [Issues -> Nat] /\ delivery[d] # None
          /\ stock' \in [Locations -> [available: Nat, damaged: Nat]]
      BY <1>3, CompletionKeepsBooks
    <2>3. QED
      BY <2>1, <2>2, StatusChanges DEF TypeOK, Active, Issues
  <1>4. CASE Return
    <2>1. PICK k \in ReturnKeys, row \in ReturnRow :
             /\ return' \in [ReturnKeys -> ReturnRow \union {None}]
             /\ stock' = StockWith(row.terms, row.from)
             /\ UNCHANGED <<order, fitting, output, delivery, issue, other>>
      BY <1>4, ReturnAddsRow
    <2>2. row.from \in [Lines \X Outputs -> Nat]
      BY DEF ReturnRow
    <2>3. stock' \in [Locations -> [available: Nat, damaged: Nat]]
      BY <2>1, <2>2, ReturnAddsStock
    <2>4. QED
      BY <2>1, <2>3 DEF TypeOK
  <1>5. CASE Finish
    BY <1>5, FinishAppends DEF TypeOK
  <1>6. ASSUME NEW i \in DOMAIN output, JudgeOutput(i)
        PROVE  TypeOK'
    BY <1>6, JudgingKeepsOutputs DEF TypeOK
  <1>7. ASSUME NEW at \in Locations, NEW q \in {-1, 1}, MoveOtherStock(at, q)
        PROVE  TypeOK'
    <2> DEFINE place == [stock[at] EXCEPT !.available = @ + q]
    <2>1. place \in [available: Nat, damaged: Nat]
      <3>1. /\ stock[at] \in [available: Nat, damaged: Nat]
            /\ stock[at].available + q >= 0 /\ q \in Int
        BY <1>7 DEF MoveOtherStock, TypeOK
      <3>2. QED
        BY <3>1
    <2>2. stock' = [stock EXCEPT ![at] = place]
      BY <1>7 DEF MoveOtherStock
    <2> HIDE DEF place
    <2>3. /\ stock' \in [Locations -> [available: Nat, damaged: Nat]]
          /\ other' \in [Locations -> Int]
      BY <1>7, <2>1, <2>2 DEF MoveOtherStock, TypeOK
    <2>4. QED
      BY <1>7, <2>3 DEF MoveOtherStock, TypeOK
  <1>8. CASE Elsewhere
    BY <1>8 DEF Elsewhere, TypeOK, ConfirmOrder, CancelOrder, ChangeFitting
  <1>9. QED
    BY <1>1, <1>2, <1>3, <1>4, <1>5, <1>6, <1>7, <1>8, StepsByKind

\* Every variable keeps its type; no balance and no count is negative.
THEOREM TypeCorrect == Spec => []TypeOK
  <1>1. TypeOK /\ [Next]_vars => TypeOK'
    BY StepKeepsTypes
  <1>2. QED
    BY InitTypes, <1>1, PTL DEF Spec

-----------------------------------------------------------------------------
(* What is issued.                                                         *)

\* Deliveries, returns and issues stay, and outputs stay where they are.
Quiet ==
    /\ UNCHANGED <<delivery, return, issue>>
    /\ DOMAIN output \subseteq DOMAIN output'
    /\ \A i \in DOMAIN output : /\ output'[i].order = output[i].order
                                /\ output'[i].line = output[i].line
                                /\ output'[i].location = output[i].location
                                /\ output'[i].quantity = output[i].quantity

\* The steps that are not about deliveries leave them alone.
LEMMA QuietSteps ==
  ASSUME TypeOK,
         \/ Finish
         \/ \E i \in DOMAIN output : JudgeOutput(i)
         \/ \E at \in Locations, q \in {-1, 1} : MoveOtherStock(at, q)
         \/ Elsewhere
  PROVE  Quiet
  <1>1. CASE Finish
    <2>1. PICK row \in OutputRow :
             /\ output' \in Seq(OutputRow) /\ Len(output') = Len(output) + 1
             /\ \A i \in DOMAIN output : output'[i] = output[i]
             /\ UNCHANGED <<order, fitting, delivery, return, issue, other>>
      BY <1>1, FinishAppends
    <2>2. DOMAIN output \subseteq DOMAIN output'
      BY <2>1 DEF TypeOK
    <2>3. QED
      BY <2>1, <2>2 DEF Quiet
  <1>2. ASSUME NEW i \in DOMAIN output, JudgeOutput(i)
        PROVE  Quiet
    BY <1>2, JudgingKeepsOutputs DEF Quiet
  <1>3. CASE \E at \in Locations, q \in {-1, 1} : MoveOtherStock(at, q)
    BY <1>3 DEF MoveOtherStock, Quiet
  <1>4. CASE Elsewhere
    BY <1>4 DEF Elsewhere, Quiet
  <1>5. QED
    BY <1>1, <1>2, <1>3, <1>4

\* Every step, once more.
LEMMA StepsOnDeliveries ==
  ASSUME TypeOK, [Next]_vars
  PROVE  \/ Create
         \/ \E d \in Deliveries, s \in (InFlight \ {"draft"}) \union {"failed", "cancelled"} :
               Movement(d, s)
         \/ \E d \in Deliveries : Completion(d)
         \/ Return
         \/ Quiet
  BY StepsByKind, QuietSteps

\* Goods are issued of outputs there are.
IssuesHaveOutputs == \A x \in Issues : issue[x] > 0 => x[3] \in DOMAIN output

\* What is issued for a line of a delivery is all of it or nothing.
IssuedRight == \A d \in Deliveries, l \in Lines :
    IssuedFor(d, l, issue) = IF /\ delivery[d] # None
                                /\ delivery[d].status \in Terminal
                             THEN delivery[d].quantity[l] ELSE 0

\* The property, in the terms of the lemmas.
LEMMA IssuedRightly == IssuedExactlyWhenDelivered <=> IssuedRight
  BY DEF IssuedExactlyWhenDelivered, IssuedRight, IssuedFor, DeliveredBy

IssueInv == TypeOK /\ IssuedRight /\ IssuesHaveOutputs

\* Nothing is issued at first.
LEMMA NothingIssued ==
  ASSUME Init
  PROVE  IssueInv
  <1>1. \A x \in Issues : issue[x] = 0
    BY DEF Init, Issues
  <1>2. ASSUME NEW d \in Deliveries, NEW l \in Lines
        PROVE  IssuedFor(d, l, issue) = 0
    <2> DEFINE f == [i \in Outputs |-> issue[<<d, l, i>>]]
    <2>1. \A i \in Outputs : f[i] = 0
      BY <1>1 DEF Issues
    <2> HIDE DEF f
    <2>2. SumFunction(f) = 0
      <3>1. DOMAIN f = Outputs
        BY DEF f
      <3>2. QED
        BY <2>1, <3>1, TablesAreFinite, SumOfZeros
    <2>3. QED
      BY <2>2 DEF IssuedFor, f
  <1>3. QED
    BY <1>1, <1>2, InitTypes DEF IssueInv, IssuedRight, IssuesHaveOutputs, Init

\* A step issues all of a delivery when it completes it, and nothing else.
LEMMA StepKeepsIssues ==
  ASSUME IssueInv, [Next]_vars
  PROVE  IssueInv'
  <1>0. TypeOK /\ TypeOK'
    BY StepKeepsTypes DEF IssueInv
  <1> USE <1>0
  <1>1. \A x \in Issues : issue[x] \in Nat
    BY DEF TypeOK, Issues
  <1>2. CASE Create
    <2>1. PICK d \in Deliveries, row \in DeliveryRow :
             /\ delivery[d] = None /\ row.status = "draft" /\ delivery'[d] = row
             /\ \A e \in Deliveries \ {d} : delivery'[e] = delivery[e]
             /\ UNCHANGED <<order, fitting, output, return, issue, stock, other>>
      BY <1>2, CreateAddsRow
    <2>2. "draft" \notin Terminal
      BY DEF Terminal
    <2>3. \A e \in Deliveries, l \in Lines : IssuedFor(e, l, issue') = IssuedFor(e, l, issue)
      BY <2>1
    <2>4. IssuedRight'
      BY <2>1, <2>2, <2>3 DEF IssueInv, IssuedRight
    <2>5. QED
      BY <2>1, <2>4 DEF IssueInv, IssuesHaveOutputs
  <1>3. ASSUME NEW d \in Deliveries,
               NEW s \in (InFlight \ {"draft"}) \union {"failed", "cancelled"}, Movement(d, s)
        PROVE  IssueInv'
    <2>1. /\ delivery[d] # None /\ delivery[d].status \in InFlight
          /\ delivery'[d] # None /\ delivery'[d].status = s
          /\ \A e \in Deliveries \ {d} : delivery'[e] = delivery[e]
          /\ UNCHANGED <<output, issue>>
      BY <1>3, StatusChanges DEF Movement, Active
    <2>2. delivery[d].status \notin Terminal /\ s \notin Terminal
      BY <2>1 DEF Terminal, InFlight
    <2>3. \A e \in Deliveries, l \in Lines : IssuedFor(e, l, issue') = IssuedFor(e, l, issue)
      BY <2>1
    <2>4. IssuedRight'
      BY <2>1, <2>2, <2>3 DEF IssueInv, IssuedRight
    <2>5. QED
      BY <2>1, <2>4 DEF IssueInv, IssuesHaveOutputs
  <1>4. ASSUME NEW d \in Deliveries, Completion(d)
        PROVE  IssueInv'
    <2>1. /\ delivery[d] # None /\ delivery[d].status \in InFlight
          /\ Underway(d, Served(d)) /\ \A l \in Lines : Served(d).need[l] = 0
          /\ issue' = Served(d).issue /\ issue' \in [Issues -> Nat]
      BY <1>4, CompletionKeepsBooks
    <2>2. PICK s \in Terminal : SetStatus(d, s)
      BY <1>4, CompletionKeepsBooks
    <2>3. /\ delivery'[d] # None /\ delivery'[d].status = s
          /\ delivery'[d].quantity = delivery[d].quantity
          /\ \A e \in Deliveries \ {d} : delivery'[e] = delivery[e]
          /\ UNCHANGED output
      BY <2>1, <2>2, StatusChanges DEF Active
    <2>4. delivery[d].status \notin Terminal
      BY <2>1 DEF Terminal, InFlight
    <2>5. /\ \A l \in Lines : 0 + IssuedFor(d, l, issue')
                                = delivery[d].quantity[l] + IssuedFor(d, l, issue)
          /\ \A x \in Issues : /\ x[1] # d => issue'[x] = issue[x]
                               /\ issue'[x] # issue[x] => x[3] \in DOMAIN output
      BY <2>1 DEF Underway
    <2>6. \A l \in Lines : IssuedFor(d, l, issue') = delivery[d].quantity[l]
      <3>1. \A l \in Lines : IssuedFor(d, l, issue) = 0
        BY <2>4 DEF IssueInv, IssuedRight
      <3>2. \A l \in Lines : IssuedFor(d, l, issue') \in Nat
        BY <2>1, IssuesAreNatural
      <3>3. \A l \in Lines : delivery[d].quantity[l] \in Nat
        BY <2>1 DEF TypeOK, DeliveryRow
      <3>4. QED
        BY <2>5, <3>1, <3>2, <3>3
    <2>7. ASSUME NEW e \in Deliveries \ {d}, NEW l \in Lines
          PROVE  IssuedFor(e, l, issue') = IssuedFor(e, l, issue)
      <3>0. \A i \in Outputs : <<e, l, i>> \in Issues /\ <<e, l, i>>[1] = e
        BY DEF Issues
      <3>1. \A i \in Outputs : issue'[<<e, l, i>>] = issue[<<e, l, i>>]
        BY <2>5, <3>0
      <3>2. [i \in Outputs |-> issue'[<<e, l, i>>]] = [i \in Outputs |-> issue[<<e, l, i>>]]
        BY <3>1
      <3>3. QED
        BY <3>2 DEF IssuedFor
    <2>8. IssuedRight'
      <3>1. ASSUME NEW e \in Deliveries, NEW l \in Lines
            PROVE  IssuedFor(e, l, issue') =
                     IF delivery'[e] # None /\ delivery'[e].status \in Terminal
                     THEN delivery'[e].quantity[l] ELSE 0
        <4>1. CASE e = d
          BY <2>3, <2>6, <4>1
        <4>2. CASE e # d
          BY <2>3, <2>7, <4>2 DEF IssueInv, IssuedRight
        <4>3. QED
          BY <4>1, <4>2
      <3>2. QED
        BY <3>1 DEF IssuedRight
    <2>9. IssuesHaveOutputs'
      <3>1. ASSUME NEW x \in Issues, issue'[x] > 0
            PROVE  x[3] \in DOMAIN output'
        <4>1. CASE issue'[x] = issue[x]
          <5>1. x[3] \in DOMAIN output
            BY <3>1, <4>1 DEF IssueInv, IssuesHaveOutputs
          <5>2. QED
            BY <2>3, <5>1
        <4>2. CASE issue'[x] # issue[x]
          <5>1. issue'[x] # issue[x] => x[3] \in DOMAIN output
            BY <2>5
          <5>2. x[3] \in DOMAIN output
            BY <4>2, <5>1
          <5>3. QED
            BY <2>3, <5>2
        <4>3. QED
          BY <4>1, <4>2
      <3>2. QED
        BY <3>1 DEF IssuesHaveOutputs
    <2>10. QED
      BY <2>8, <2>9 DEF IssueInv
  <1>5. CASE Return
    <2>1. UNCHANGED <<delivery, issue, output>>
      BY <1>5, ReturnAddsRow
    <2>2. QED
      BY <2>1 DEF IssueInv, IssuedRight, IssuesHaveOutputs, IssuedFor
  <1>6. CASE Quiet
    BY <1>6 DEF Quiet, IssueInv, IssuedRight, IssuesHaveOutputs, IssuedFor
  <1>7. QED
    BY <1>2, <1>3, <1>4, <1>5, <1>6, StepsOnDeliveries

\* Completing a delivery issues all of its goods, once, and nothing else issues
\* any.
THEOREM IssuedOnce == Spec => []IssuedExactlyWhenDelivered
  <1>1. IssueInv /\ [Next]_vars => IssueInv'
    BY StepKeepsIssues
  <1>2. IssueInv => IssuedExactlyWhenDelivered
    BY IssuedRightly DEF IssueInv
  <1>3. QED
    BY NothingIssued, <1>1, <1>2, PTL DEF Spec

-----------------------------------------------------------------------------
(* What a step may do to goods that left, and to what is closed.           *)

\* A step changes the issues of the delivery it completes, if any.
LEMMA OnlyCompletionIssues ==
  ASSUME TypeOK, [Next]_vars
  PROVE  \/ UNCHANGED issue
         \/ \E d \in Deliveries :
               /\ delivery[d] # None /\ delivery[d].status \in InFlight
               /\ \A x \in Issues :
                     /\ x[1] # d => issue'[x] = issue[x]
                     /\ issue'[x] # issue[x] => output[x[3]].approved
  <1>1. ASSUME NEW d \in Deliveries, Completion(d)
        PROVE  /\ delivery[d] # None /\ delivery[d].status \in InFlight
               /\ \A x \in Issues :
                     /\ x[1] # d => issue'[x] = issue[x]
                     /\ issue'[x] # issue[x] => output[x[3]].approved
    <2>1. /\ delivery[d] # None /\ delivery[d].status \in InFlight
          /\ Underway(d, Served(d)) /\ Served(d).clean
          /\ issue' = Served(d).issue
      BY <1>1, CompletionKeepsBooks
    <2>2. \A x \in Issues :
             /\ x[1] # d => issue'[x] = issue[x]
             /\ issue'[x] # issue[x] => output[x[3]].approved
      BY <2>1 DEF Underway
    <2>3. QED
      BY <2>1, <2>2
  <1>2. CASE Create
    BY <1>2, CreateAddsRow
  <1>3. ASSUME NEW d \in Deliveries,
               NEW s \in (InFlight \ {"draft"}) \union {"failed", "cancelled"}, Movement(d, s)
        PROVE  UNCHANGED issue
    BY <1>3 DEF Movement
  <1>4. CASE Return
    BY <1>4, ReturnAddsRow
  <1>5. CASE Quiet
    BY <1>5 DEF Quiet
  <1>6. QED
    BY <1>1, <1>2, <1>3, <1>4, <1>5, StepsOnDeliveries

\* Goods leave only of outputs whose quality gate is open when they leave.
THEOREM ApprovedGoodsLeave == Spec => OnlyApprovedGoodsLeave
  <1>1. ASSUME TypeOK, [Next]_vars
        PROVE  \A d \in Deliveries, l \in Lines, i \in Outputs :
                  issue'[<<d, l, i>>] # issue[<<d, l, i>>] => output[i].approved
    <2>1. SUFFICES ASSUME NEW d \in Deliveries, NEW l \in Lines, NEW i \in Outputs,
                          issue'[<<d, l, i>>] # issue[<<d, l, i>>]
                   PROVE  output[i].approved
      OBVIOUS
    <2>2. <<d, l, i>> \in Issues /\ <<d, l, i>>[3] = i
      BY DEF Issues
    <2>3. QED
      BY <1>1, <2>1, <2>2, OnlyCompletionIssues
  <1>2. TypeOK /\ [Next]_vars =>
          [\A d \in Deliveries, l \in Lines, i \in Outputs :
              issue'[<<d, l, i>>] # issue[<<d, l, i>>] => output[i].approved]_vars
    BY <1>1
  <1>3. QED
    BY TypeCorrect, <1>2, PTL DEF Spec, OnlyApprovedGoodsLeave

\* What is closed stays as it is: final deliveries, what they issued, returns.
LEMMA StepKeepsHistory ==
  ASSUME TypeOK, [Next]_vars
  PROVE  /\ \A d \in DeliveredBy(Terminal \union {"failed", "cancelled"}) :
               /\ delivery'[d] = delivery[d]
               /\ \A l \in Lines, i \in Outputs : issue'[<<d, l, i>>] = issue[<<d, l, i>>]
         /\ \A k \in Recorded : return'[k] = return[k]
  <1> DEFINE Closed == Terminal \union {"failed", "cancelled"}
  <1>1. Closed \intersect InFlight = {}
    BY DEF Terminal, InFlight
  <1>2. ASSUME NEW d \in DeliveredBy(Closed)
        PROVE  delivery'[d] = delivery[d]
    <2>1. d \in Deliveries /\ delivery[d] # None /\ delivery[d].status \notin InFlight
      BY <1>1, <1>2 DEF DeliveredBy
    <2>2. CASE Create
      BY <2>1, <2>2, CreateAddsRow
    <2>3. ASSUME NEW e \in Deliveries,
                 NEW s \in (InFlight \ {"draft"}) \union {"failed", "cancelled"}, Movement(e, s)
          PROVE  delivery'[d] = delivery[d]
      <3>1. e # d
        BY <2>1, <2>3 DEF Movement
      <3>2. QED
        BY <2>1, <2>3, <3>1, StatusChanges DEF Movement, Active
    <2>4. ASSUME NEW e \in Deliveries, Completion(e)
          PROVE  delivery'[d] = delivery[d]
      <3>1. PICK s \in Terminal : SetStatus(e, s)
        BY <2>4, CompletionKeepsBooks
      <3>2. delivery[e] # None /\ e # d
        BY <2>1, <2>4, CompletionKeepsBooks
      <3>3. QED
        BY <2>1, <3>1, <3>2, StatusChanges DEF Active
    <2>5. CASE Return
      BY <2>5, ReturnAddsRow
    <2>6. CASE Quiet
      BY <2>6 DEF Quiet
    <2>7. QED
      BY <2>2, <2>3, <2>4, <2>5, <2>6, StepsOnDeliveries
  <1>3. ASSUME NEW d \in DeliveredBy(Closed), NEW l \in Lines, NEW i \in Outputs
        PROVE  issue'[<<d, l, i>>] = issue[<<d, l, i>>]
    <2>1. d \in Deliveries /\ delivery[d].status \notin InFlight
      BY <1>1, <1>3 DEF DeliveredBy
    <2>2. <<d, l, i>> \in Issues /\ <<d, l, i>>[1] = d
      BY <2>1 DEF Issues
    <2>3. QED
      BY <2>1, <2>2, OnlyCompletionIssues
  <1>4. ASSUME NEW k \in Recorded
        PROVE  return'[k] = return[k]
    <2>1. k \in ReturnKeys /\ return[k] # None
      BY <1>4 DEF Recorded
    <2>2. CASE Return
      BY <2>1, <2>2, ReturnAddsRow
    <2>3. CASE Create
      BY <2>3, CreateAddsRow
    <2>4. ASSUME NEW e \in Deliveries,
                 NEW s \in (InFlight \ {"draft"}) \union {"failed", "cancelled"}, Movement(e, s)
          PROVE  return'[k] = return[k]
      BY <2>4 DEF Movement, SetStatus
    <2>5. ASSUME NEW e \in Deliveries, Completion(e)
          PROVE  return'[k] = return[k]
      BY <2>5 DEF Completion, Complete, SetStatus
    <2>6. CASE Quiet
      BY <2>6 DEF Quiet
    <2>7. QED
      BY <2>2, <2>3, <2>4, <2>5, <2>6, StepsOnDeliveries
  <1>5. QED
    BY <1>2, <1>3, <1>4

\* No step changes a delivery that is final, what it issued, or a return.
THEOREM HistoryStays == Spec => HistoryIsKept
  <1>1. TypeOK /\ [Next]_vars =>
          [/\ \A d \in DeliveredBy(Terminal \union {"failed", "cancelled"}) :
                 /\ delivery'[d] = delivery[d]
                 /\ \A l \in Lines, i \in Outputs : issue'[<<d, l, i>>] = issue[<<d, l, i>>]
           /\ \A k \in Recorded : return'[k] = return[k]]_vars
    BY StepKeepsHistory
  <1>2. QED
    BY TypeCorrect, <1>1, PTL DEF Spec, HistoryIsKept

-----------------------------------------------------------------------------
(* What goes back.                                                         *)

\* A return is added to the table.
Adds(k, row) ==
    /\ k \in ReturnKeys /\ row \in ReturnRow
    /\ return[k] = None /\ return'[k] = row /\ row # None
    /\ \A j \in ReturnKeys \ {k} : return'[j] = return[j]

\* What some returns of a table take back of a line.
TakenBy(rows, keys, l) == SumFunction([k \in keys |-> rows[k].quantity[l]])

\* What some returns take back of a line grows by what a new one does.
LEMMA TakenBackGrows ==
  ASSUME TypeOK, NEW k, NEW row, Adds(k, row), NEW l \in Lines, NEW S \in SUBSET Recorded
  PROVE  /\ TakenBy(return, S, l) \in Nat
         /\ TakenBy(return', S, l) = TakenBy(return, S, l)
         /\ TakenBy(return', S \union {k}, l) = TakenBy(return, S, l) + row.quantity[l]
  <1> DEFINE f == [j \in S |-> return[j].quantity[l]]
             g == [j \in S |-> return'[j].quantity[l]]
             h == [j \in S \union {k} |-> return'[j].quantity[l]]
  <1>1. /\ \A j \in S : j \in ReturnKeys /\ return[j] \in ReturnRow /\ return'[j] = return[j]
        /\ k \notin S
    BY DEF Adds, Recorded, TypeOK
  <1>2. IsFiniteSet(S)
    BY KeysAreFinite, FS_Subset DEF Recorded
  <1>3. row.quantity[l] \in Nat /\ \A j \in S : return[j].quantity[l] \in Nat
    BY <1>1 DEF Adds, ReturnRow
  <1>4. g = f
    BY <1>1
  <1>5. /\ DOMAIN f = S /\ DOMAIN h = DOMAIN f \union {k} /\ h[k] = row.quantity[l]
        /\ \A j \in DOMAIN f : f[j] \in Nat /\ h[j] = f[j]
    BY <1>1, <1>3 DEF Adds
  <1>6. /\ TakenBy(return, S, l) = SumFunction(f) /\ TakenBy(return', S, l) = SumFunction(g)
        /\ TakenBy(return', S \union {k}, l) = SumFunction(h)
    BY DEF TakenBy
  <1> HIDE DEF f, g, h
  <1>7. SumFunction(f) \in Nat /\ SumFunction(h) = SumFunction(f) + h[k]
    BY <1>1, <1>2, <1>3, <1>5, SumGrows
  <1>8. QED
    BY <1>4, <1>5, <1>6, <1>7

\* Which returns there are, and of which delivery.
LEMMA ReturnsGrow ==
  ASSUME TypeOK, NEW k, NEW row, Adds(k, row)
  PROVE  /\ Recorded' = Recorded \union {k} /\ k \notin Recorded
         /\ \A d : ReturnsOf(d) \subseteq Recorded
         /\ \A d : ReturnsOf(d)' = IF row.delivery = d THEN ReturnsOf(d) \union {k}
                                   ELSE ReturnsOf(d)
  <1>1. Recorded' = Recorded \union {k} /\ k \notin Recorded
    BY DEF Adds, Recorded
  <1>2. \A d : ReturnsOf(d) = {j \in Recorded : return[j].delivery = d}
    BY DEF ReturnsOf
  <1>3. \A d : ReturnsOf(d)' = {j \in Recorded' : return'[j].delivery = d}
    BY DEF ReturnsOf
  <1>4. \A j \in Recorded : return'[j] = return[j]
    BY <1>1 DEF Adds, Recorded
  <1>5. return'[k] = row
    BY DEF Adds
  <1>6. ASSUME NEW d
        PROVE  ReturnsOf(d)' = IF row.delivery = d THEN ReturnsOf(d) \union {k}
                               ELSE ReturnsOf(d)
    BY <1>1, <1>2, <1>3, <1>4, <1>5
  <1>7. QED
    BY <1>1, <1>2, <1>6

\* A return gives back on issues of its own delivery only.
LEMMA ReturnedAgainstGrows ==
  ASSUME TypeOK, NEW k, NEW row, Adds(k, row),
         NEW d \in Deliveries, NEW l \in Lines, NEW i \in Outputs
  PROVE  /\ row.delivery = d =>
               ReturnedAgainst(d, l, i)' = ReturnedAgainst(d, l, i) + row.from[<<l, i>>]
         /\ row.delivery # d => ReturnedAgainst(d, l, i)' = ReturnedAgainst(d, l, i)
  <1> DEFINE x == <<l, i>>
             f == [j \in ReturnsOf(d) |-> return[j].from[x]]
             g == [j \in ReturnsOf(d)' |-> return'[j].from[x]]
  <1>1. x \in Lines \X Outputs
    OBVIOUS
  <1>2. /\ ReturnsOf(d) \subseteq Recorded /\ k \notin Recorded
        /\ row.delivery = d => ReturnsOf(d)' = ReturnsOf(d) \union {k}
        /\ row.delivery # d => ReturnsOf(d)' = ReturnsOf(d)
    BY ReturnsGrow
  <1>3. /\ \A j \in ReturnsOf(d) : j \in ReturnKeys /\ return[j] \in ReturnRow /\ return'[j] = return[j]
        /\ k \notin ReturnsOf(d) /\ return'[k] = row /\ row \in ReturnRow
    BY <1>2 DEF Adds, Recorded, TypeOK
  <1>4. IsFiniteSet(ReturnsOf(d))
    BY <1>2, KeysAreFinite, FS_Subset DEF Recorded
  <1> HIDE DEF x
  <1>5. row.from[x] \in Nat /\ \A j \in ReturnsOf(d) : return[j].from[x] \in Nat
    BY <1>1, <1>3 DEF ReturnRow
  <1>6. ReturnedAgainst(d, l, i) = SumFunction(f) /\ ReturnedAgainst(d, l, i)' = SumFunction(g)
    BY DEF ReturnedAgainst, x
  <1>7. CASE row.delivery = d
    <2>1. /\ DOMAIN f = ReturnsOf(d) /\ DOMAIN g = DOMAIN f \union {k}
          /\ \A j \in DOMAIN f : f[j] \in Nat /\ g[j] = f[j]
          /\ g[k] = row.from[x]
      BY <1>2, <1>3, <1>5, <1>7
    <2> HIDE DEF f, g
    <2>2. SumFunction(g) = SumFunction(f) + g[k]
      BY <1>3, <1>4, <1>5, <2>1, SumGrows
    <2>3. QED
      BY <1>6, <1>7, <2>1, <2>2 DEF x
  <1>8. CASE row.delivery # d
    <2>1. g = f
      BY <1>2, <1>3, <1>8
    <2>2. QED
      BY <1>6, <1>8, <2>1
  <1>9. QED
    BY <1>7, <1>8

\* Returns are of deliveries that reached the customer.
ReturnsOfDelivered ==
    \A k \in Recorded : /\ delivery[return[k].delivery] # None
                        /\ delivery[return[k].delivery].status \in Terminal

ReturnInv == TypeOK /\ ReturnsTraceToIssues /\ ReturnsOfDelivered

\* At first there is no return.
LEMMA NothingReturned ==
  ASSUME Init
  PROVE  ReturnInv
  <1>1. Recorded = {} /\ \A d : ReturnsOf(d) = {}
    BY DEF Init, Recorded, ReturnsOf
  <1>2. ASSUME NEW d \in Deliveries, NEW l \in Lines, NEW i \in Outputs
        PROVE  Left(d, l, i) >= 0
    <2> DEFINE f == [k \in ReturnsOf(d) |-> return[k].from[<<l, i>>]]
    <2>1. DOMAIN f = {}
      BY <1>1
    <2> HIDE DEF f
    <2>2. SumFunction(f) = 0
      BY <2>1, FS_EmptySet, SumOfZeros
    <2>3. ReturnedAgainst(d, l, i) = 0
      BY <2>2 DEF ReturnedAgainst, f
    <2>4. issue[<<d, l, i>>] = 0
      BY DEF Init
    <2>5. QED
      BY <2>3, <2>4 DEF Left
  <1>3. QED
    BY <1>1, <1>2, InitTypes DEF ReturnInv, ReturnsTraceToIssues, ReturnsOfDelivered

\* A return step leaves everything but returns and stock.
LEMMA ReturnOrNone ==
  ASSUME TypeOK, [Next]_vars
  PROVE  Return \/ UNCHANGED return
  <1>1. CASE Create
    BY <1>1, CreateAddsRow
  <1>2. ASSUME NEW d \in Deliveries,
               NEW s \in (InFlight \ {"draft"}) \union {"failed", "cancelled"}, Movement(d, s)
        PROVE  UNCHANGED return
    BY <1>2 DEF Movement, SetStatus
  <1>3. ASSUME NEW d \in Deliveries, Completion(d)
        PROVE  UNCHANGED return
    BY <1>3 DEF Completion, Complete, SetStatus
  <1>4. CASE Quiet
    BY <1>4 DEF Quiet
  <1>5. QED
    BY <1>1, <1>2, <1>3, <1>4, StepsOnDeliveries

\* No step takes an issue back.
LEMMA IssuesGrow ==
  ASSUME TypeOK, [Next]_vars
  PROVE  \A x \in Issues : issue'[x] >= issue[x]
  <1>1. ASSUME NEW d \in Deliveries, Completion(d)
        PROVE  \A x \in Issues : issue'[x] >= issue[x]
    <2>1. Underway(d, Served(d)) /\ issue' = Served(d).issue
      BY <1>1, CompletionKeepsBooks
    <2>2. QED
      BY <2>1 DEF Underway
  <1>2. ASSUME UNCHANGED issue
        PROVE  \A x \in Issues : issue'[x] >= issue[x]
    BY <1>2 DEF TypeOK, Issues
  <1>3. CASE Create
    BY <1>2, <1>3, CreateAddsRow
  <1>4. ASSUME NEW d \in Deliveries,
               NEW s \in (InFlight \ {"draft"}) \union {"failed", "cancelled"}, Movement(d, s)
        PROVE  UNCHANGED issue
    BY <1>4 DEF Movement
  <1>5. CASE Return
    BY <1>2, <1>5, ReturnAddsRow
  <1>6. CASE Quiet
    BY <1>2, <1>6 DEF Quiet
  <1>7. QED
    BY <1>1, <1>2, <1>3, <1>4, <1>5, <1>6, StepsOnDeliveries

\* No step gives back more of an issue than is left.
LEMMA StepKeepsReturns ==
  ASSUME ReturnInv, [Next]_vars
  PROVE  ReturnInv'
  <1>0. TypeOK /\ TypeOK'
    BY StepKeepsTypes DEF ReturnInv
  <1> USE <1>0
  <1>1. ASSUME NEW d \in Deliveries, delivery[d] # None, delivery[d].status \in Terminal
        PROVE  delivery'[d] = delivery[d]
    BY <1>1, StepKeepsHistory DEF DeliveredBy
  <1>2. ASSUME NEW d \in Deliveries, NEW l \in Lines, NEW i \in Outputs
        PROVE  /\ issue'[<<d, l, i>>] >= issue[<<d, l, i>>]
               /\ issue[<<d, l, i>>] \in Nat /\ issue'[<<d, l, i>>] \in Nat
               /\ ReturnedAgainst(d, l, i) \in Nat
               /\ Left(d, l, i) >= 0
    <2>1. <<d, l, i>> \in Issues
      BY DEF Issues
    <2>2. QED
      BY <2>1, IssuesGrow, RestsAreNumbers DEF TypeOK, Issues, ReturnInv, ReturnsTraceToIssues
  <1>3. CASE UNCHANGED return
    <2>1. Recorded' = Recorded
      BY <1>3 DEF Recorded
    <2>2. ASSUME NEW d \in Deliveries, NEW l \in Lines, NEW i \in Outputs
          PROVE  Left(d, l, i)' >= 0
      <3>1. ReturnedAgainst(d, l, i)' = ReturnedAgainst(d, l, i)
        BY <1>3, <2>1 DEF ReturnedAgainst, ReturnsOf
      <3>2. QED
        BY <1>2, <3>1 DEF Left
    <2>3. ReturnsTraceToIssues'
      BY <1>3, <2>1, <2>2 DEF ReturnInv, ReturnsTraceToIssues
    <2>4. ReturnsOfDelivered'
      <3>1. \A k \in Recorded : return[k].delivery \in Deliveries
        BY DEF Recorded, TypeOK, ReturnRow
      <3>2. QED
        BY <1>1, <1>3, <2>1, <3>1 DEF ReturnInv, ReturnsOfDelivered
    <2>5. QED
      BY <2>3, <2>4 DEF ReturnInv
  <1>4. CASE Return
    <2>1. PICK k \in ReturnKeys, row \in ReturnRow :
            /\ return[k] = None /\ row # None
            /\ delivery[row.delivery] # None
            /\ delivery[row.delivery].status \in Terminal
            /\ row.quantity \in LineQuantities
            /\ row.from = GivenBack(row.delivery, row.quantity)
            /\ \A l \in Lines :
                  row.quantity[l] = SumFunction([i \in Outputs |-> row.from[<<l, i>>]])
            /\ return'[k] = row
            /\ \A j \in ReturnKeys \ {k} : return'[j] = return[j]
            /\ UNCHANGED <<order, fitting, output, delivery, issue, other>>
      BY <1>4, ReturnAddsRow
    <2>2. Adds(k, row)
      BY <2>1 DEF Adds
    <2>3. /\ Recorded' = Recorded \union {k} /\ k \notin Recorded /\ return'[k] = row
          /\ \A j \in Recorded : return'[j] = return[j]
      BY <2>1, <2>2, ReturnsGrow DEF Recorded
    <2>4. /\ row.delivery \in Deliveries /\ row.quantity \in [Lines -> Nat]
          /\ row.from \in [Lines \X Outputs -> Nat]
      BY DEF ReturnRow
    <2>5. ASSUME NEW d \in Deliveries, NEW l \in Lines, NEW i \in Outputs
          PROVE  Left(d, l, i)' >= 0
      <3>1. CASE row.delivery = d
        <4>1. ReturnedAgainst(d, l, i)' = ReturnedAgainst(d, l, i) + row.from[<<l, i>>]
          BY <2>2, <3>1, ReturnedAgainstGrows
        <4>2. row.from[<<l, i>>] <= Left(d, l, i) /\ row.from[<<l, i>>] \in Nat
          BY <1>2, <2>1, <2>4, <3>1, GivenBackFits
        <4>3. QED
          BY <1>2, <2>1, <4>1, <4>2 DEF Left
      <3>2. CASE row.delivery # d
        <4>1. ReturnedAgainst(d, l, i)' = ReturnedAgainst(d, l, i)
          BY <2>2, <3>2, ReturnedAgainstGrows
        <4>2. QED
          BY <1>2, <2>1, <4>1 DEF Left
      <3>3. QED
        BY <3>1, <3>2
    <2>6. ReturnsTraceToIssues'
      <3>1. ASSUME NEW j \in Recorded', NEW l \in Lines
            PROVE  return'[j].quantity[l]
                     = SumFunction([i \in Outputs |-> return'[j].from[<<l, i>>]])
        <4>1. CASE j = k
          BY <2>1, <4>1
        <4>2. CASE j # k
          BY <2>3, <3>1, <4>2 DEF ReturnInv, ReturnsTraceToIssues
        <4>3. QED
          BY <4>1, <4>2
      <3>2. QED
        BY <2>5, <3>1 DEF ReturnsTraceToIssues
    <2>7. ReturnsOfDelivered'
      <3>1. ASSUME NEW j \in Recorded'
            PROVE  /\ delivery'[return'[j].delivery] # None
                   /\ delivery'[return'[j].delivery].status \in Terminal
        <4>1. CASE j = k
          BY <2>1, <4>1
        <4>2. CASE j # k
          BY <2>1, <2>3, <3>1, <4>2 DEF ReturnInv, ReturnsOfDelivered
        <4>3. QED
          BY <4>1, <4>2
      <3>2. QED
        BY <3>1 DEF ReturnsOfDelivered
    <2>8. QED
      BY <2>6, <2>7 DEF ReturnInv
  <1>5. QED
    BY <1>3, <1>4, ReturnOrNone

\* All of a return goes back on issues of its delivery, and no issue takes back
\* more than it gave.
THEOREM ReturnsAreOfIssues == Spec => []ReturnsTraceToIssues
  <1>1. ReturnInv /\ [Next]_vars => ReturnInv'
    BY StepKeepsReturns
  <1>2. ReturnInv => ReturnsTraceToIssues
    BY DEF ReturnInv
  <1>3. QED
    BY NothingReturned, <1>1, <1>2, PTL DEF Spec

-----------------------------------------------------------------------------
(* What is left in stock.                                                  *)

MadeAt(at) == QuantityOf({i \in DOMAIN output : output[i].location = at})
PutBack(at) == SumFunction([k \in Recorded |->
                  PutAt(at, return[k].terms, return[k].from, Dispositions)])

StockRight == \A at \in Locations :
    AtHand(at, stock) = other[at] + MadeAt(at) - IssuedFrom(at, issue) + PutBack(at)

\* The property, in the terms of the lemmas.
LEMMA StockIsRight == StockFollowsDeliveries <=> StockRight
  BY DEF StockFollowsDeliveries, StockRight, AtHand, MadeAt, IssuedFrom, TakenFrom, PutBack

StockInv == IssueInv /\ ReturnInv /\ StockRight

\* What some outputs come to is a natural quantity.
LEMMA QuantitiesAreNatural ==
  ASSUME TypeOK, NEW S \in SUBSET DOMAIN output
  PROVE  QuantityOf(S) \in Nat
  <1> DEFINE f == [i \in S |-> output[i].quantity]
  <1>1. DOMAIN output = 1..Len(output) /\ Len(output) \in Nat
    BY DEF TypeOK
  <1>2. IsFiniteSet(DOMAIN f)
    <2>1. IsFiniteSet(DOMAIN output)
      BY <1>1, FS_Interval
    <2>2. QED
      BY <2>1, FS_Subset
  <1>3. \A i \in DOMAIN f : f[i] \in Nat
    <2>1. \A i \in DOMAIN output : output[i] \in OutputRow
      BY DEF TypeOK
    <2>2. QED
      BY <2>1 DEF OutputRow
  <1> HIDE DEF f
  <1>4. SumFunction(f) \in Nat
    BY <1>2, <1>3, SumIsNat
  <1>5. QED
    BY <1>4 DEF QuantityOf, f

\* All that stock is accounted by is numbers.
LEMMA StockIsNumbers ==
  ASSUME TypeOK, NEW at \in Locations
  PROVE  /\ MadeAt(at) \in Nat /\ PutBack(at) \in Nat /\ IssuedFrom(at, issue) \in Nat
         /\ AtHand(at, stock) \in Nat /\ other[at] \in Int
  <1>1. MadeAt(at) \in Nat
    BY QuantitiesAreNatural DEF MadeAt
  <1>2. PutBack(at) \in Nat
    <2> DEFINE f == [k \in Recorded |->
                       PutAt(at, return[k].terms, return[k].from, Dispositions)]
    <2>1. IsFiniteSet(DOMAIN f)
      BY KeysAreFinite, FS_Subset DEF Recorded
    <2>2. \A k \in Recorded : return[k].from \in [Lines \X Outputs -> Nat]
      BY DEF TypeOK, Recorded, ReturnRow
    <2>3. \A k \in DOMAIN f : f[k] \in Nat
      BY <2>2, PutAtAddsUp
    <2> HIDE DEF f
    <2>4. SumFunction(f) \in Nat
      BY <2>1, <2>3, SumIsNat
    <2>5. QED
      BY <2>4 DEF PutBack, f
  <1>3. IssuedFrom(at, issue) \in Nat
    BY IssuesAreNatural DEF TypeOK, Issues
  <1>4. AtHand(at, stock) \in Nat /\ other[at] \in Int
    BY DEF TypeOK, AtHand
  <1>5. QED
    BY <1>1, <1>2, <1>3, <1>4

\* Goods go back on issues of outputs there are.
LEMMA ReturnsHaveOutputs ==
  ASSUME StockInv, NEW k \in Recorded, NEW li \in Lines \X Outputs, return[k].from[li] > 0
  PROVE  li[2] \in DOMAIN output
  <1> DEFINE d == return[k].delivery
             l == li[1]
             i == li[2]
             f == [j \in ReturnsOf(d) |-> return[j].from[<<l, i>>]]
  <1>1. /\ d \in Deliveries /\ li = <<l, i>> /\ l \in Lines /\ i \in Outputs
        /\ k \in ReturnsOf(d)
    BY DEF StockInv, IssueInv, TypeOK, Recorded, ReturnRow, ReturnsOf
  <1>2. IsFiniteSet(DOMAIN f)
    BY KeysAreFinite, FS_Subset DEF ReturnsOf, Recorded
  <1>3. \A j \in ReturnsOf(d) : return[j] \in ReturnRow
    BY DEF StockInv, IssueInv, TypeOK, ReturnsOf, Recorded
  <1>4. \A j \in DOMAIN f : f[j] \in Nat
    BY <1>1, <1>3 DEF ReturnRow
  <1>5. k \in DOMAIN f /\ f[k] = return[k].from[li]
    BY <1>1
  <1>6. ReturnedAgainst(d, l, i) = SumFunction(f)
    BY DEF ReturnedAgainst
  <1> HIDE DEF f
  <1>7. f[k] <= SumFunction(f) /\ SumFunction(f) \in Nat
    BY <1>2, <1>4, <1>5, SumIsNat
  <1>8. Left(d, l, i) >= 0
    BY <1>1 DEF StockInv, ReturnInv, ReturnsTraceToIssues
  <1>9. <<d, l, i>> \in Issues /\ <<d, l, i>>[3] = i /\ issue[<<d, l, i>>] \in Nat
    BY <1>1 DEF Issues, StockInv, IssueInv, TypeOK
  <1> HIDE DEF d, l, i
  <1>10. issue[<<d, l, i>>] > 0
    <2>1. issue[<<d, l, i>>] - SumFunction(f) >= 0
      BY <1>6, <1>8 DEF Left
    <2>2. QED
      BY <1>4, <1>5, <1>7, <1>9, <2>1
  <1>11. i \in DOMAIN output
    BY <1>9, <1>10 DEF StockInv, IssueInv, IssuesHaveOutputs
  <1>12. QED
    BY <1>11 DEF i

\* What was issued and what came back does not depend on newer outputs.
LEMMA QuietStock ==
  ASSUME StockInv, Quiet, NEW at \in Locations
  PROVE  /\ IssuedFrom(at, issue)' = IssuedFrom(at, issue)
         /\ PutBack(at)' = PutBack(at)
  <1>1. UNCHANGED <<delivery, return, issue>>
    BY DEF Quiet
  <1>2. \A i \in DOMAIN output : i \in DOMAIN output' /\ output'[i].location = output[i].location
    BY DEF Quiet
  <1>3. IssuedFrom(at, issue)' = IssuedFrom(at, issue)
    <2>1. \A x \in Issues : issue[x] > 0 => output'[x[3]].location = output[x[3]].location
      BY <1>2 DEF StockInv, IssueInv, IssuesHaveOutputs
    <2>2. DOMAIN issue = Issues
      BY DEF StockInv, IssueInv, TypeOK, Issues
    <2>3. TakenFrom(at, issue)' = TakenFrom(at, issue)
      BY <1>1, <2>1, <2>2 DEF TakenFrom
    <2>4. QED
      BY <1>1, <2>3 DEF IssuedFrom
  <1>4. Recorded' = Recorded
    BY <1>1 DEF Recorded
  <1>5. ASSUME NEW k \in Recorded
        PROVE  PutAt(at, return[k].terms, return[k].from, Dispositions)'
                 = PutAt(at, return[k].terms, return[k].from, Dispositions)
    <2> DEFINE from == return[k].from
               terms == return[k].terms
               D == {li \in Lines \X Outputs : /\ from[li] > 0
                                               /\ ReturnedTo(terms, li[1], li[2]) = at
                                               /\ terms[li[1]].disposition \in Dispositions}
    <2>1. \A li \in Lines \X Outputs : from[li] > 0 =>
             ReturnedTo(terms, li[1], li[2])' = ReturnedTo(terms, li[1], li[2])
      BY <1>1, <1>2, ReturnsHaveOutputs DEF ReturnedTo
    <2>2. D' = D
      BY <1>1, <2>1
    <2>3. /\ PutAt(at, return[k].terms, return[k].from, Dispositions)
               = SumFunction([li \in D |-> from[li]])
          /\ PutAt(at, return[k].terms, return[k].from, Dispositions)'
               = SumFunction([li \in D' |-> from'[li]])
      BY DEF PutAt
    <2>4. from' = from
      BY <1>1
    <2> HIDE DEF D, from
    <2>5. QED
      BY <2>2, <2>3, <2>4
  <1>6. PutBack(at)' = PutBack(at)
    BY <1>4, <1>5 DEF PutBack
  <1>7. QED
    BY <1>3, <1>6

\* What is made at a place grows by what is finished there.
LEMMA FinishAdds ==
  ASSUME TypeOK, Finish
  PROVE  /\ \A at \in Locations :
               /\ AtHand(at, stock') - AtHand(at, stock) = MadeAt(at)' - MadeAt(at)
               /\ MadeAt(at)' \in Nat
         /\ UNCHANGED other
  <1>1. PICK row \in OutputRow :
            /\ output' \in Seq(OutputRow) /\ Len(output') = Len(output) + 1
            /\ output'[Len(output) + 1] = row
            /\ \A i \in DOMAIN output : output'[i] = output[i]
            /\ stock' \in [Locations -> [available: Nat, damaged: Nat]]
            /\ stock'[row.location].available
                 = stock[row.location].available + row.quantity
            /\ stock'[row.location].damaged = stock[row.location].damaged
            /\ \A at \in Locations \ {row.location} : stock'[at] = stock[at]
            /\ UNCHANGED <<order, fitting, delivery, return, issue, other>>
    BY FinishAppends
  <1> DEFINE n == Len(output) + 1
  <1>2. /\ DOMAIN output' = DOMAIN output \union {n} /\ n \notin DOMAIN output
        /\ row.location \in Locations /\ row.quantity \in Nat
    <2>1. /\ DOMAIN output = 1..Len(output) /\ Len(output) \in Nat
          /\ DOMAIN output' = 1..n
      BY <1>1 DEF TypeOK
    <2>2. row.location \in Locations /\ row.quantity \in Nat
      BY DEF OutputRow
    <2>3. QED
      BY <2>1, <2>2
  <1>3. ASSUME NEW at \in Locations
        PROVE  /\ AtHand(at, stock') - AtHand(at, stock) = MadeAt(at)' - MadeAt(at)
               /\ MadeAt(at)' \in Nat
    <2> DEFINE S == {i \in DOMAIN output : output[i].location = at}
               T == {i \in DOMAIN output' : output'[i].location = at}
               f == [i \in S |-> output[i].quantity]
               g == [i \in T |-> output'[i].quantity]
    <2>1. /\ MadeAt(at) = SumFunction(f) /\ MadeAt(at)' = SumFunction(g)
          /\ MadeAt(at) \in Nat
      BY StockIsNumbers DEF MadeAt, QuantityOf
    <2>2. /\ stock[at].available \in Nat /\ stock[at].damaged \in Nat
          /\ stock'[at].available \in Nat /\ stock'[at].damaged \in Nat
      BY <1>1 DEF TypeOK
    <2>3. \A i \in S : f[i] \in Nat
      <3>1. \A i \in DOMAIN output : output[i] \in OutputRow
        BY DEF TypeOK
      <3>2. QED
        BY <3>1 DEF OutputRow
    <2>4. IsFiniteSet(S)
      <3>1. DOMAIN output = 1..Len(output) /\ Len(output) \in Nat
        BY DEF TypeOK
      <3>2. IsFiniteSet(DOMAIN output)
        BY <3>1, FS_Interval
      <3>3. QED
        BY <3>2, FS_Subset
    <2>5. CASE row.location = at
      <3>1. /\ T = S \union {n} /\ n \notin S
            /\ DOMAIN f = S /\ DOMAIN g = DOMAIN f \union {n}
            /\ g[n] = row.quantity /\ \A i \in DOMAIN f : g[i] = f[i]
        BY <1>1, <1>2, <2>5
      <3> HIDE DEF f, g, n, S, T
      <3>2. SumFunction(g) = SumFunction(f) + g[n] /\ SumFunction(g) \in Nat
        BY <1>2, <2>3, <2>4, <3>1, SumGrows
      <3>3. AtHand(at, stock') = AtHand(at, stock) + row.quantity
        BY <1>1, <1>2, <2>2, <2>5 DEF AtHand
      <3>4. QED
        BY <1>2, <2>1, <2>2, <3>1, <3>2, <3>3 DEF AtHand
    <2>6. CASE row.location # at
      <3>1. S = T /\ g = f
        BY <1>1, <1>2, <2>6
      <3>2. stock'[at] = stock[at]
        BY <1>1, <2>6
      <3>3. QED
        BY <2>1, <2>2, <3>1, <3>2 DEF AtHand
    <2>7. QED
      BY <2>5, <2>6
  <1>4. QED
    BY <1>1, <1>3

\* What came back to a place grows by what a return puts there.
LEMMA PutBackGrows ==
  ASSUME TypeOK, NEW k, NEW row, Adds(k, row), UNCHANGED output, NEW at \in Locations
  PROVE  PutBack(at)' = PutBack(at) + PutAt(at, row.terms, row.from, Dispositions)
  <1> DEFINE f == [j \in Recorded |->
                     PutAt(at, return[j].terms, return[j].from, Dispositions)]
             g == [j \in Recorded' |->
                     PutAt(at, return'[j].terms, return'[j].from, Dispositions)]
  <1>1. /\ Recorded' = Recorded \union {k} /\ k \notin Recorded
        /\ \A j \in Recorded : return'[j] = return[j]
        /\ return'[k] = row /\ row \in ReturnRow
    BY ReturnsGrow DEF Adds, Recorded
  <1>2. IsFiniteSet(Recorded)
    BY KeysAreFinite, FS_Subset DEF Recorded
  <1>3. /\ \A j \in Recorded : return[j].from \in [Lines \X Outputs -> Nat]
        /\ row.from \in [Lines \X Outputs -> Nat]
    BY <1>1 DEF TypeOK, Recorded, ReturnRow
  <1>4. /\ DOMAIN f = Recorded /\ DOMAIN g = DOMAIN f \union {k}
        /\ g[k] = PutAt(at, row.terms, row.from, Dispositions)
        /\ \A j \in DOMAIN f : g[j] = f[j]
    BY <1>1
  <1>5. g[k] \in Nat /\ \A j \in DOMAIN f : f[j] \in Nat
    BY <1>1, <1>3, PutAtAddsUp
  <1>6. PutBack(at) = SumFunction(f)
    BY DEF PutBack
  <1>7. PutBack(at)' = SumFunction(g)
    <2>1. \A j \in Recorded' : PutAt(at, return[j].terms, return[j].from, Dispositions)'
                                 = PutAt(at, return'[j].terms, return'[j].from, Dispositions)
      BY DEF PutAt, ReturnedTo
    <2>2. QED
      BY <2>1 DEF PutBack
  <1> HIDE DEF f, g
  <1>8. SumFunction(g) = SumFunction(f) + g[k]
    BY <1>1, <1>2, <1>4, <1>5, SumGrows
  <1>9. QED
    BY <1>4, <1>6, <1>7, <1>8

\* At first there is no stock and nothing moved.
LEMMA NothingInStock ==
  ASSUME Init
  PROVE  StockInv
  <1>1. IssueInv /\ ReturnInv
    BY NothingIssued, NothingReturned
  <1>2. ASSUME NEW at \in Locations
        PROVE  /\ MadeAt(at) = 0 /\ PutBack(at) = 0 /\ IssuedFrom(at, issue) = 0
               /\ AtHand(at, stock) = 0 /\ other[at] = 0
    <2>1. DOMAIN output = {} /\ Recorded = {} /\ TakenFrom(at, issue) = {}
      BY DEF Init, Recorded, TakenFrom
    <2> DEFINE f == [i \in {j \in DOMAIN output : output[j].location = at} |-> output[i].quantity]
               g == [k \in Recorded |->
                       PutAt(at, return[k].terms, return[k].from, Dispositions)]
               h == [x \in TakenFrom(at, issue) |-> issue[x]]
    <2>2. DOMAIN f = {} /\ DOMAIN g = {} /\ DOMAIN h = {}
      BY <2>1
    <2>3. /\ MadeAt(at) = SumFunction(f) /\ PutBack(at) = SumFunction(g)
          /\ IssuedFrom(at, issue) = SumFunction(h)
      BY DEF MadeAt, QuantityOf, PutBack, IssuedFrom
    <2> HIDE DEF f, g, h
    <2>4. SumFunction(f) = 0 /\ SumFunction(g) = 0 /\ SumFunction(h) = 0
      BY <2>2, FS_EmptySet, SumOfZeros
    <2>5. AtHand(at, stock) = 0 /\ other[at] = 0
      BY DEF Init, AtHand
    <2>6. QED
      BY <2>3, <2>4, <2>5
  <1>3. QED
    BY <1>1, <1>2 DEF StockInv, StockRight

\* Every step leaves in stock what it should.
LEMMA StepKeepsStock ==
  ASSUME StockInv, [Next]_vars
  PROVE  StockInv'
  <1>0. TypeOK /\ TypeOK'
    BY StepKeepsTypes DEF StockInv, IssueInv
  <1> USE <1>0
  <1>1. IssueInv' /\ ReturnInv'
    BY StepKeepsIssues, StepKeepsReturns DEF StockInv
  <1>2. SUFFICES ASSUME NEW at \in Locations
                 PROVE  AtHand(at, stock') = other'[at] + MadeAt(at)'
                           - IssuedFrom(at, issue)' + PutBack(at)'
    BY <1>1 DEF StockInv, StockRight
  <1> DEFINE goal == AtHand(at, stock') = other'[at] + MadeAt(at)'
                        - IssuedFrom(at, issue)' + PutBack(at)'
  <1>3. AtHand(at, stock) = other[at] + MadeAt(at) - IssuedFrom(at, issue) + PutBack(at)
    BY DEF StockInv, StockRight
  <1>4. /\ MadeAt(at) \in Nat /\ PutBack(at) \in Nat /\ IssuedFrom(at, issue) \in Nat
        /\ AtHand(at, stock) \in Nat /\ other[at] \in Int
    BY StockIsNumbers
  <1>5. ASSUME UNCHANGED <<output, return, issue, stock, other>>
        PROVE  goal
    <2>1. /\ MadeAt(at)' = MadeAt(at) /\ IssuedFrom(at, issue)' = IssuedFrom(at, issue)
          /\ PutBack(at)' = PutBack(at)
      BY <1>5 DEF MadeAt, QuantityOf, IssuedFrom, TakenFrom, PutBack, Recorded, PutAt, ReturnedTo
    <2>2. QED
      BY <1>3, <1>5, <2>1
  <1>6. CASE Create
    BY <1>5, <1>6, CreateAddsRow
  <1>7. ASSUME NEW d \in Deliveries,
               NEW s \in (InFlight \ {"draft"}) \union {"failed", "cancelled"}, Movement(d, s)
        PROVE  goal
    BY <1>5, <1>7 DEF Movement, SetStatus
  <1>8. ASSUME NEW d \in Deliveries, Completion(d)
        PROVE  goal
    <2>1. /\ Underway(d, Served(d))
          /\ issue' = Served(d).issue /\ stock' = Served(d).stock
          /\ issue' \in [Issues -> Nat]
          /\ stock' \in [Locations -> [available: Nat, damaged: Nat]]
      BY <1>8, CompletionKeepsBooks
    <2>2. AtHand(at, stock') + IssuedFrom(at, issue') = AtHand(at, stock) + IssuedFrom(at, issue)
      BY <2>1 DEF Underway
    <2>3. UNCHANGED <<output, return, other>>
      BY <1>8 DEF Completion, Complete, SetStatus
    <2>4. IssuedFrom(at, issue)' = IssuedFrom(at, issue')
      BY <2>3 DEF IssuedFrom, TakenFrom
    <2>5. MadeAt(at)' = MadeAt(at) /\ PutBack(at)' = PutBack(at)
      BY <2>3 DEF MadeAt, QuantityOf, PutBack, Recorded, PutAt, ReturnedTo
    <2>6. IssuedFrom(at, issue') \in Nat /\ AtHand(at, stock') \in Nat
      BY <2>1, IssuesAreNatural DEF AtHand
    <2>7. QED
      BY <1>3, <1>4, <2>2, <2>3, <2>4, <2>5, <2>6
  <1>9. CASE Return
    <2>1. PICK k \in ReturnKeys, row \in ReturnRow :
            /\ return[k] = None /\ row # None
            /\ return'[k] = row
            /\ \A j \in ReturnKeys \ {k} : return'[j] = return[j]
            /\ stock' = StockWith(row.terms, row.from)
            /\ UNCHANGED <<order, fitting, output, delivery, issue, other>>
      BY <1>9, ReturnAddsRow
    <2>2. Adds(k, row) /\ row.from \in [Lines \X Outputs -> Nat]
      BY <2>1 DEF Adds, ReturnRow
    <2>3. PutBack(at)' = PutBack(at) + PutAt(at, row.terms, row.from, Dispositions)
      BY <2>1, <2>2, PutBackGrows
    <2>4. AtHand(at, stock') = AtHand(at, stock) + PutAt(at, row.terms, row.from, Dispositions)
      BY <2>1, <2>2, ReturnAddsStock
    <2>5. PutAt(at, row.terms, row.from, Dispositions) \in Nat
      BY <2>2, PutAtAddsUp
    <2>6. MadeAt(at)' = MadeAt(at) /\ IssuedFrom(at, issue)' = IssuedFrom(at, issue)
      BY <2>1 DEF MadeAt, QuantityOf, IssuedFrom, TakenFrom
    <2>7. QED
      BY <1>3, <1>4, <2>1, <2>3, <2>4, <2>5, <2>6
  <1>10. CASE Finish
    <2>1. /\ IssuedFrom(at, issue)' = IssuedFrom(at, issue)
          /\ PutBack(at)' = PutBack(at)
      BY <1>10, QuietSteps, QuietStock
    <2>2. /\ AtHand(at, stock') - AtHand(at, stock) = MadeAt(at)' - MadeAt(at)
          /\ MadeAt(at)' \in Nat /\ other' = other
      BY <1>10, FinishAdds
    <2>3. AtHand(at, stock') \in Nat
      BY DEF TypeOK, AtHand
    <2>4. QED
      BY <1>3, <1>4, <2>1, <2>2, <2>3
  <1>11. ASSUME NEW i \in DOMAIN output, JudgeOutput(i)
         PROVE  goal
    <2>1. /\ IssuedFrom(at, issue)' = IssuedFrom(at, issue)
          /\ PutBack(at)' = PutBack(at)
      BY <1>11, QuietSteps, QuietStock
    <2>2. /\ DOMAIN output' = DOMAIN output /\ UNCHANGED <<stock, other>>
          /\ \A j \in DOMAIN output : /\ output'[j].location = output[j].location
                                      /\ output'[j].quantity = output[j].quantity
      BY <1>11, JudgingKeepsOutputs
    <2>3. MadeAt(at)' = MadeAt(at)
      BY <2>2 DEF MadeAt, QuantityOf
    <2>4. QED
      BY <1>3, <2>1, <2>2, <2>3
  <1>12. ASSUME NEW p \in Locations, NEW q \in {-1, 1}, MoveOtherStock(p, q)
         PROVE  goal
    <2>1. UNCHANGED <<output, return, issue>>
      BY <1>12 DEF MoveOtherStock
    <2>2. /\ MadeAt(at)' = MadeAt(at) /\ IssuedFrom(at, issue)' = IssuedFrom(at, issue)
          /\ PutBack(at)' = PutBack(at)
      BY <2>1 DEF MadeAt, QuantityOf, IssuedFrom, TakenFrom, PutBack, Recorded, PutAt, ReturnedTo
    <2>3. AtHand(at, stock') - AtHand(at, stock) = other'[at] - other[at]
      <3>1. /\ stock \in [Locations -> [available: Nat, damaged: Nat]]
            /\ other \in [Locations -> Int] /\ q \in Int
        BY DEF TypeOK
      <3>2. /\ stock' = [stock EXCEPT ![p].available = @ + q]
            /\ other' = [other EXCEPT ![p] = @ + q]
        BY <1>12 DEF MoveOtherStock
      <3>3. CASE p = at
        BY <3>1, <3>2, <3>3 DEF AtHand
      <3>4. CASE p # at
        BY <3>1, <3>2, <3>4 DEF AtHand
      <3>5. QED
        BY <3>3, <3>4
    <2>4. AtHand(at, stock') \in Int /\ other'[at] \in Int
      BY DEF TypeOK, AtHand
    <2>5. QED
      BY <1>3, <1>4, <2>2, <2>3, <2>4
  <1>13. CASE Elsewhere
    BY <1>5, <1>13 DEF Elsewhere
  <1>14. QED
    BY <1>6, <1>7, <1>8, <1>9, <1>10, <1>11, <1>12, <1>13, StepsByKind

\* What is at a place is what was made there and what others left there, less
\* what deliveries took and more what returns brought.
THEOREM StockIsAccounted == Spec => []StockFollowsDeliveries
  <1>1. StockInv /\ [Next]_vars => StockInv'
    BY StepKeepsStock
  <1>2. StockInv => StockFollowsDeliveries
    BY StockIsRight DEF StockInv
  <1>3. QED
    BY NothingInStock, <1>1, <1>2, PTL DEF Spec

-----------------------------------------------------------------------------
(* What deliveries add up to.                                              *)

Rows == [Deliveries -> DeliveryRow \union {None}]

RowsIn(rows, statuses) == {d \in Deliveries : rows[d] # None /\ rows[d].status \in statuses}

QuantityOver(rows, l, statuses) ==
    SumFunction([d \in RowsIn(rows, statuses) |-> rows[d].quantity[l]])

\* What one delivery adds.
RowShare(row, l, statuses) ==
    IF row # None /\ row.status \in statuses THEN row.quantity[l] ELSE 0

\* The sums of the model, over the table of deliveries.
LEMMA QuantityInIsOver ==
  \A l, S : /\ QuantityIn(l, S) = QuantityOver(delivery, l, S)
            /\ QuantityIn(l, S)' = QuantityOver(delivery', l, S)
  BY DEF QuantityIn, QuantityOver, DeliveredBy, RowsIn

\* Fewer statuses, less in them.
LEMMA QuantityOverPart ==
  ASSUME NEW rows \in Rows, NEW l \in Lines, NEW T, NEW S \in SUBSET T
  PROVE  /\ QuantityOver(rows, l, S) \in Nat /\ QuantityOver(rows, l, T) \in Nat
         /\ QuantityOver(rows, l, S) <= QuantityOver(rows, l, T)
  <1> DEFINE f == [d \in RowsIn(rows, T) |-> rows[d].quantity[l]]
             g == [d \in RowsIn(rows, S) |-> rows[d].quantity[l]]
  <1>1. IsFiniteSet(DOMAIN f)
    BY KeysAreFinite, FS_Subset DEF RowsIn
  <1>2. /\ \A d \in DOMAIN f : f[d] \in Nat
        /\ DOMAIN g \subseteq DOMAIN f /\ \A d \in DOMAIN g : g[d] = f[d]
    <2>1. \A d \in RowsIn(rows, T) : rows[d] \in DeliveryRow
      BY DEF Rows, RowsIn
    <2>2. RowsIn(rows, S) \subseteq RowsIn(rows, T)
      BY DEF RowsIn
    <2>3. QED
      BY <2>1, <2>2 DEF DeliveryRow
  <1>3. QuantityOver(rows, l, T) = SumFunction(f) /\ QuantityOver(rows, l, S) = SumFunction(g)
    BY DEF QuantityOver
  <1> HIDE DEF f, g
  <1>4. /\ SumFunction(g) \in Nat /\ SumFunction(f) \in Nat
        /\ SumFunction(g) <= SumFunction(f)
    BY <1>1, <1>2, SumOfPart
  <1>5. QED
    BY <1>3, <1>4

\* When one delivery changes, the sum changes by what it adds.
LEMMA QuantityOverMoves ==
  ASSUME NEW rows \in Rows, NEW more \in Rows, NEW d \in Deliveries,
         \A e \in Deliveries \ {d} : more[e] = rows[e], NEW l \in Lines, NEW S
  PROVE  /\ QuantityOver(rows, l, S) \in Nat /\ QuantityOver(more, l, S) \in Nat
         /\ RowShare(rows[d], l, S) \in Nat /\ RowShare(more[d], l, S) \in Nat
         /\ QuantityOver(more, l, S) = QuantityOver(rows, l, S)
              - RowShare(rows[d], l, S) + RowShare(more[d], l, S)
  <1> DEFINE f == [e \in RowsIn(rows, S) |-> rows[e].quantity[l]]
             g == [e \in RowsIn(more, S) |-> more[e].quantity[l]]
  <1>1. IsFiniteSet(DOMAIN f)
    BY KeysAreFinite, FS_Subset DEF RowsIn
  <1>2. /\ \A e \in RowsIn(rows, S) : rows[e] \in DeliveryRow
        /\ \A e \in RowsIn(more, S) : more[e] \in DeliveryRow
        /\ RowsIn(rows, S) \ {d} = RowsIn(more, S) \ {d}
    BY DEF Rows, RowsIn
  <1>3. /\ \A e \in DOMAIN f : f[e] \in Nat
        /\ \A e \in DOMAIN g : g[e] \in Nat
        /\ DOMAIN f \ {d} = DOMAIN g \ {d}
        /\ \A e \in DOMAIN f \ {d} : g[e] = f[e]
    <2>1. /\ \A e \in DOMAIN f : f[e] \in Nat
          /\ \A e \in DOMAIN g : g[e] \in Nat
      BY <1>2 DEF DeliveryRow
    <2>2. /\ DOMAIN f \ {d} = DOMAIN g \ {d}
          /\ \A e \in DOMAIN f \ {d} : g[e] = f[e]
      BY <1>2 DEF RowsIn
    <2>3. QED
      BY <2>1, <2>2
  <1>4. QuantityOver(rows, l, S) = SumFunction(f) /\ QuantityOver(more, l, S) = SumFunction(g)
    BY DEF QuantityOver
  <1>5. RowShare(rows[d], l, S) = ValueAt(f, d) /\ RowShare(more[d], l, S) = ValueAt(g, d)
    BY DEF RowShare, ValueAt, RowsIn
  <1> HIDE DEF f, g
  <1>6. SumFunction(g) = SumFunction(f) - ValueAt(f, d) + ValueAt(g, d)
    BY <1>1, <1>3, SumMoves
  <1>7. ValueAt(f, d) \in Nat /\ ValueAt(g, d) \in Nat
    BY <1>3 DEF ValueAt
  <1>8. SumFunction(f) \in Nat /\ SumFunction(g) \in Nat
    BY <1>4, QuantityOverPart
  <1>9. QED
    BY <1>4, <1>5, <1>6, <1>7, <1>8

\* The table of deliveries has rows before and after a step.
LEMMA TypeOfRows == TypeOK => delivery \in Rows /\ (TypeOK' => delivery' \in Rows)
  BY DEF TypeOK, Rows

-----------------------------------------------------------------------------
(* What is prepared was made.                                              *)

\* The outputs that can serve a line at some time.
MadeFor(l) == {i \in DOMAIN output : /\ output[i].order = OrderOf[l]
                                     /\ output[i].line \in {l, None}}

Prepared == Active \ {"draft"}

PreparedInv == TypeOK /\ \A l \in Lines : QuantityIn(l, Prepared) <= QuantityOf(MadeFor(l))

\* The invariant implies the property.
LEMMA PreparedIsMade == PreparedInv => PreparedIsProduced
  BY DEF PreparedInv, PreparedIsProduced, MadeFor, Prepared

\* What a line is served from counts as made for it.
LEMMA ProducedIsMade ==
  ASSUME TypeOK, NEW l \in Lines
  PROVE  /\ Produced(l) \in Nat /\ QuantityOf(MadeFor(l)) \in Nat
         /\ Produced(l) <= QuantityOf(MadeFor(l))
  <1> DEFINE f == [i \in MadeFor(l) |-> output[i].quantity]
             g == [i \in OutputsFor(l) |-> output[i].quantity]
  <1>1. OutputsFor(l) \subseteq MadeFor(l) /\ MadeFor(l) \subseteq DOMAIN output
    BY DEF OutputsFor, MadeFor
  <1>2. IsFiniteSet(DOMAIN f)
    <2>1. DOMAIN output = 1..Len(output) /\ Len(output) \in Nat
      BY DEF TypeOK
    <2>2. IsFiniteSet(DOMAIN output)
      BY <2>1, FS_Interval
    <2>3. QED
      BY <1>1, <2>2, FS_Subset
  <1>3. \A i \in DOMAIN output : output[i].quantity \in Nat
    <2>1. \A i \in DOMAIN output : output[i] \in OutputRow
      BY DEF TypeOK
    <2>2. QED
      BY <2>1 DEF OutputRow
  <1>4. /\ \A i \in DOMAIN f : f[i] \in Nat
        /\ DOMAIN g \subseteq DOMAIN f /\ \A i \in DOMAIN g : g[i] = f[i]
    BY <1>1, <1>3
  <1>5. QuantityOf(MadeFor(l)) = SumFunction(f) /\ Produced(l) = SumFunction(g)
    BY DEF Produced, QuantityOf
  <1> HIDE DEF f, g
  <1>6. QED
    BY <1>2, <1>4, <1>5, SumOfPart

\* What was made for a line is never less afterwards.
LEMMA MadeStays ==
  ASSUME TypeOK, TypeOK', Quiet, NEW l \in Lines
  PROVE  /\ QuantityOf(MadeFor(l)) \in Nat /\ QuantityOf(MadeFor(l))' \in Nat
         /\ QuantityOf(MadeFor(l)) <= QuantityOf(MadeFor(l))'
  <1> DEFINE f == [i \in MadeFor(l)' |-> output'[i].quantity]
             g == [i \in MadeFor(l) |-> output[i].quantity]
  <1>1. /\ MadeFor(l) \subseteq MadeFor(l)' /\ MadeFor(l)' \subseteq DOMAIN output'
        /\ \A i \in MadeFor(l) : output'[i].quantity = output[i].quantity
    BY DEF MadeFor, Quiet
  <1>2. IsFiniteSet(DOMAIN f)
    <2>1. DOMAIN output' = 1..Len(output') /\ Len(output') \in Nat
      BY DEF TypeOK
    <2>2. IsFiniteSet(DOMAIN output')
      BY <2>1, FS_Interval
    <2>3. QED
      BY <1>1, <2>2, FS_Subset
  <1>3. \A i \in DOMAIN output' : output'[i].quantity \in Nat
    <2>1. \A i \in DOMAIN output' : output'[i] \in OutputRow
      BY DEF TypeOK
    <2>2. QED
      BY <2>1 DEF OutputRow
  <1>4. /\ \A i \in DOMAIN f : f[i] \in Nat
        /\ DOMAIN g \subseteq DOMAIN f /\ \A i \in DOMAIN g : g[i] = f[i]
    BY <1>1, <1>3
  <1>5. QuantityOf(MadeFor(l))' = SumFunction(f) /\ QuantityOf(MadeFor(l)) = SumFunction(g)
    BY DEF QuantityOf
  <1> HIDE DEF f, g
  <1>6. QED
    BY <1>2, <1>4, <1>5, SumOfPart

\* Only what was made for a line gets prepared.
LEMMA StepKeepsPrepared ==
  ASSUME PreparedInv, [Next]_vars
  PROVE  PreparedInv'
  <1>0. TypeOK /\ TypeOK' /\ delivery \in Rows /\ delivery' \in Rows
    BY StepKeepsTypes, TypeOfRows DEF PreparedInv
  <1> USE <1>0
  <1>1. SUFFICES ASSUME NEW l \in Lines
                 PROVE  QuantityIn(l, Prepared)' <= QuantityOf(MadeFor(l))'
    BY DEF PreparedInv
  <1> DEFINE P == QuantityOver(delivery, l, Prepared)
             P2 == QuantityOver(delivery', l, Prepared)
             M == QuantityOf(MadeFor(l))
  <1>2. /\ QuantityIn(l, Prepared) = P /\ QuantityIn(l, Prepared)' = P2
        /\ P \in Nat /\ P2 \in Nat /\ M \in Nat /\ P <= M
    BY QuantityInIsOver, QuantityOverPart, ProducedIsMade DEF PreparedInv
  <1>3. ASSUME UNCHANGED output
        PROVE  M' = M
    BY <1>3 DEF QuantityOf, MadeFor
  <1>4. CASE Create
    <2>1. PICK d \in Deliveries, row \in DeliveryRow :
            /\ delivery[d] = None /\ row.status = "draft" /\ delivery'[d] = row
            /\ \A e \in Deliveries \ {d} : delivery'[e] = delivery[e]
            /\ UNCHANGED <<order, fitting, output, return, issue, stock, other>>
      BY <1>4, CreateAddsRow
    <2>2. RowShare(delivery[d], l, Prepared) = 0 /\ RowShare(delivery'[d], l, Prepared) = 0
      BY <2>1 DEF RowShare, Prepared
    <2>3. P2 = P - RowShare(delivery[d], l, Prepared) + RowShare(delivery'[d], l, Prepared)
      BY <2>1, QuantityOverMoves
    <2> HIDE DEF P, P2, M
    <2>4. QED
      BY <1>2, <1>3, <2>1, <2>2, <2>3 DEF M
  <1>5. ASSUME NEW d \in Deliveries,
               NEW s \in (InFlight \ {"draft"}) \union {"failed", "cancelled"}, Movement(d, s)
        PROVE  P2 <= M'
    <2> DEFINE q == delivery[d].quantity[l]
    <2>1. /\ delivery[d] # None /\ delivery[d].status \in InFlight
          /\ s \in InFlight /\ delivery[d].status = "draft" => Validated(d)
          /\ delivery'[d] # None /\ delivery'[d].status = s
          /\ delivery'[d].quantity = delivery[d].quantity
          /\ \A e \in Deliveries \ {d} : delivery'[e] = delivery[e]
          /\ UNCHANGED output
      BY <1>5, StatusChanges DEF Movement, Active
    <2>2. q \in Nat
      BY <2>1 DEF TypeOK, DeliveryRow
    <2>3. P2 = P - RowShare(delivery[d], l, Prepared) + RowShare(delivery'[d], l, Prepared)
      BY <2>1, QuantityOverMoves
    <2>4. RowShare(delivery'[d], l, Prepared) = IF s \in Prepared THEN q ELSE 0
      BY <2>1 DEF RowShare
    <2>5. CASE delivery[d].status # "draft"
      <3>1. RowShare(delivery[d], l, Prepared) = q
        BY <2>1, <2>5 DEF RowShare, Prepared, Active
      <3> HIDE DEF P, P2, M, q
      <3>2. P2 <= P
        BY <1>2, <2>2, <2>3, <2>4, <3>1
      <3>3. QED
        BY <1>2, <1>3, <2>1, <3>2 DEF M
    <2>6. CASE delivery[d].status = "draft" /\ s \notin InFlight
      <3>1. RowShare(delivery[d], l, Prepared) = 0 /\ s \notin Prepared
        BY <2>6 DEF RowShare, Prepared, Active, Terminal
      <3> HIDE DEF P, P2, M, q
      <3>2. P2 = P
        BY <1>2, <2>3, <2>4, <3>1
      <3>3. QED
        BY <1>2, <1>3, <2>1, <3>2 DEF M
    <2>7. CASE delivery[d].status = "draft" /\ s \in InFlight
      <3>1. RowShare(delivery[d], l, Prepared) = 0
        BY <2>7 DEF RowShare, Prepared
      <3>2. CASE q = 0
        <4> HIDE DEF P, P2, M, q
        <4>1. P2 = P
          BY <1>2, <2>3, <2>4, <3>1, <3>2
        <4>2. QED
          BY <1>2, <1>3, <2>1, <4>1 DEF M
      <3>3. CASE q > 0
        <4> DEFINE A == QuantityOver(delivery, l, Active)
                   A2 == QuantityOver(delivery', l, Active)
        <4>1. A <= Produced(l)
          BY <2>1, <2>7, <3>3, QuantityInIsOver DEF Validated, Allocated
        <4>2. A2 = A - RowShare(delivery[d], l, Active) + RowShare(delivery'[d], l, Active)
          BY <2>1, QuantityOverMoves
        <4>3. RowShare(delivery[d], l, Active) = q /\ RowShare(delivery'[d], l, Active) = q
          BY <2>1, <2>7 DEF RowShare, Active
        <4>4. Prepared \subseteq Active
          BY DEF Prepared
        <4>5. P2 <= A2 /\ A2 \in Nat /\ A \in Nat
          BY <4>4, QuantityOverPart
        <4>6. Produced(l) <= M /\ Produced(l) \in Nat
          BY ProducedIsMade
        <4> HIDE DEF P, P2, M, q, A, A2
        <4>7. P2 <= M
          BY <1>2, <2>2, <4>1, <4>2, <4>3, <4>5, <4>6
        <4>8. QED
          BY <1>3, <2>1, <4>7 DEF M
      <3>4. QED
        BY <2>2, <3>2, <3>3
    <2>8. QED
      BY <2>5, <2>6, <2>7
  <1>6. ASSUME NEW d \in Deliveries, Completion(d)
        PROVE  P2 <= M'
    <2>1. delivery[d] # None /\ delivery[d].status \in {"shipped", "ready_for_pickup"}
      BY <1>6 DEF Completion, Complete
    <2>2. PICK s \in Terminal : SetStatus(d, s)
      BY <1>6, CompletionKeepsBooks
    <2>3. /\ delivery'[d] # None /\ delivery'[d].status = s
          /\ delivery'[d].quantity = delivery[d].quantity
          /\ \A e \in Deliveries \ {d} : delivery'[e] = delivery[e]
          /\ UNCHANGED output
      BY <2>1, <2>2, StatusChanges DEF Active
    <2>4. RowShare(delivery[d], l, Prepared) = RowShare(delivery'[d], l, Prepared)
      BY <2>1, <2>3 DEF RowShare, Prepared, Active, InFlight, Terminal
    <2>5. /\ P2 = P - RowShare(delivery[d], l, Prepared) + RowShare(delivery'[d], l, Prepared)
          /\ RowShare(delivery[d], l, Prepared) \in Nat
      BY <2>3, QuantityOverMoves
    <2> HIDE DEF P, P2, M
    <2>6. QED
      BY <1>2, <1>3, <2>3, <2>4, <2>5 DEF M
  <1>7. CASE Return
    <2>1. UNCHANGED <<delivery, output>>
      BY <1>7, ReturnAddsRow
    <2>2. P2 = P /\ M' = M
      BY <1>3, <2>1
    <2>3. QED
      BY <1>2, <2>2
  <1>8. CASE Quiet
    <2>1. M <= M' /\ M' \in Nat
      BY <1>8, MadeStays
    <2>2. P2 = P
      BY <1>8 DEF Quiet
    <2>3. QED
      BY <1>2, <2>1, <2>2
  <1>9. P2 <= M'
    BY <1>2, <1>4, <1>5, <1>6, <1>7, <1>8, StepsOnDeliveries
  <1>10. QED
    BY <1>2, <1>9

\* Nothing is prepared at first.
LEMMA NothingPrepared == Init => PreparedInv
  <1>1. SUFFICES ASSUME Init, NEW l \in Lines
                 PROVE  QuantityIn(l, Prepared) <= QuantityOf(MadeFor(l))
    BY InitTypes DEF PreparedInv
  <1> DEFINE f == [d \in DeliveredBy(Prepared) |-> delivery[d].quantity[l]]
  <1>2. DOMAIN f = {}
    BY <1>1 DEF Init, DeliveredBy
  <1>3. QuantityIn(l, Prepared) = SumFunction(f)
    BY DEF QuantityIn
  <1> HIDE DEF f
  <1>4. SumFunction(f) = 0
    BY <1>2, FS_EmptySet, SumOfZeros
  <1>5. QuantityOf(MadeFor(l)) \in Nat
    BY <1>1, InitTypes, ProducedIsMade
  <1>6. QED
    BY <1>3, <1>4, <1>5

\* Deliveries that were prepared never exceed what was made for their line.
THEOREM OnlyProducedIsPrepared == Spec => []PreparedIsProduced
  <1>1. PreparedInv /\ [Next]_vars => PreparedInv'
    BY StepKeepsPrepared
  <1>2. QED
    BY NothingPrepared, <1>1, PreparedIsMade, PTL DEF Spec

-----------------------------------------------------------------------------
(* What the customer holds.                                                *)

Exchanged == {k \in Recorded : return[k].resolution = "exchange"}

\* What is left of a delivery with the customer, and of all of them.
Rest(d, l) == delivery[d].quantity[l] - ReturnedOf(d, l)
RestWith(l) == SumFunction([d \in DeliveredBy(Terminal) |-> Rest(d, l)])

\* What goes back was delivered, and only what is replaced is promised again.
HoldOf(l) ==
    /\ Allocated(l) <= Ordered[l] + ExchangeAllowance(l)
    /\ \A d \in DeliveredBy(Terminal) : Rest(d, l) >= 0
    /\ Delivered(l) = Returned(l) + RestWith(l)

HoldInv ==
    /\ ReturnInv
    /\ \A d \in Deliveries : delivery[d] # None => delivery[d].quantity \in LineQuantities
    /\ \A l \in Lines : HoldOf(l)

\* What returns take back is a natural quantity, and exchanges are returns.
LEMMA TakenBackIsNatural ==
  ASSUME TypeOK, NEW l \in Lines, NEW S \in SUBSET Recorded
  PROVE  /\ TakenBack(S, l) \in Nat /\ Returned(l) \in Nat
         /\ TakenBack(S, l) <= Returned(l)
  <1> DEFINE f == [k \in Recorded |-> return[k].quantity[l]]
             g == [k \in S |-> return[k].quantity[l]]
  <1>1. IsFiniteSet(DOMAIN f)
    BY KeysAreFinite, FS_Subset DEF Recorded
  <1>2. /\ \A k \in DOMAIN f : f[k] \in Nat
        /\ DOMAIN g \subseteq DOMAIN f /\ \A k \in DOMAIN g : g[k] = f[k]
    <2>1. \A k \in Recorded : return[k] \in ReturnRow
      BY DEF TypeOK, Recorded
    <2>2. QED
      BY <2>1 DEF ReturnRow
  <1>3. Returned(l) = SumFunction(f) /\ TakenBack(S, l) = SumFunction(g)
    BY DEF Returned, TakenBack
  <1> HIDE DEF f, g
  <1>4. QED
    BY <1>1, <1>2, <1>3, SumOfPart

\* The counts of a state.
LEMMA CountsAreNatural ==
  ASSUME TypeOK, NEW l \in Lines
  PROVE  /\ Allocated(l) \in Nat /\ Delivered(l) \in Nat /\ Returned(l) \in Nat
         /\ ExchangeAllowance(l) \in Nat /\ Ordered[l] \in Nat
         /\ \A d : ReturnedOf(d, l) \in Nat
         /\ Delivered(l) <= Allocated(l) /\ ExchangeAllowance(l) <= Returned(l)
  <1>1. delivery \in Rows /\ Terminal \subseteq Active
    BY TypeOfRows DEF Active
  <1>2. /\ Allocated(l) = QuantityOver(delivery, l, Active)
        /\ Delivered(l) = QuantityOver(delivery, l, Terminal)
    BY QuantityInIsOver DEF Allocated, Delivered
  <1>3. /\ Allocated(l) \in Nat /\ Delivered(l) \in Nat
        /\ Delivered(l) <= Allocated(l)
    BY <1>1, <1>2, QuantityOverPart
  <1>4. ExchangeAllowance(l) = TakenBack(Exchanged, l)
    BY DEF ExchangeAllowance, Exchanged
  <1>5. Exchanged \subseteq Recorded /\ \A d : ReturnsOf(d) \subseteq Recorded
    BY DEF Exchanged, ReturnsOf
  <1>6. /\ ExchangeAllowance(l) \in Nat /\ Returned(l) \in Nat
        /\ ExchangeAllowance(l) <= Returned(l)
    BY <1>4, <1>5, TakenBackIsNatural
  <1>7. \A d : ReturnedOf(d, l) \in Nat
    BY <1>5, TakenBackIsNatural DEF ReturnedOf
  <1>8. Ordered[l] \in Nat
    BY LinesOfOrders
  <1>9. QED
    BY <1>3, <1>6, <1>7, <1>8

\* What is left with the customer is a natural quantity, and covers what is left
\* of each delivery.
LEMMA RestIsNatural ==
  ASSUME HoldInv, NEW l \in Lines
  PROVE  /\ RestWith(l) \in Nat
         /\ \A d \in DeliveredBy(Terminal) : Rest(d, l) \in Nat /\ Rest(d, l) <= RestWith(l)
  <1> DEFINE f == [d \in DeliveredBy(Terminal) |-> Rest(d, l)]
  <1>1. IsFiniteSet(DOMAIN f)
    BY KeysAreFinite, FS_Subset DEF DeliveredBy
  <1>2. \A d \in DeliveredBy(Terminal) : Rest(d, l) \in Nat
    <2>1. TypeOK
      BY DEF HoldInv, ReturnInv
    <2>2. ASSUME NEW d \in DeliveredBy(Terminal)
          PROVE  Rest(d, l) \in Nat
      <3>1. delivery[d].quantity[l] \in Nat
        BY <2>1 DEF TypeOK, DeliveredBy, DeliveryRow
      <3>2. ReturnedOf(d, l) \in Nat
        BY <2>1, CountsAreNatural
      <3>3. Rest(d, l) >= 0
        BY DEF HoldInv, HoldOf
      <3>4. QED
        BY <3>1, <3>2, <3>3 DEF Rest
    <2>3. QED
      BY <2>2
  <1>3. DOMAIN f = DeliveredBy(Terminal) /\ \A d \in DOMAIN f : f[d] = Rest(d, l) /\ f[d] \in Nat
    BY <1>2
  <1>4. RestWith(l) = SumFunction(f)
    BY DEF RestWith
  <1> HIDE DEF f
  <1>5. SumFunction(f) \in Nat /\ \A d \in DOMAIN f : f[d] <= SumFunction(f)
    BY <1>1, <1>3, SumIsNat
  <1>6. QED
    BY <1>2, <1>3, <1>4, <1>5

\* The counts of each line keep their order.
LEMMA CountsAreBalanced ==
  ASSUME HoldInv, NEW l \in Lines
  PROVE  /\ Allocated(l) <= Ordered[l] + ExchangeAllowance(l)
         /\ Delivered(l) <= Allocated(l) /\ Returned(l) <= Delivered(l)
         /\ ExchangeAllowance(l) <= Returned(l)
         /\ Delivered(l) - Returned(l) \in 0..Ordered[l]
  <1>1. TypeOK
    BY DEF HoldInv, ReturnInv
  <1>2. /\ Allocated(l) \in Nat /\ Delivered(l) \in Nat /\ Returned(l) \in Nat
        /\ ExchangeAllowance(l) \in Nat /\ Ordered[l] \in Nat
        /\ Delivered(l) <= Allocated(l) /\ ExchangeAllowance(l) <= Returned(l)
    BY <1>1, CountsAreNatural
  <1>3. /\ Allocated(l) <= Ordered[l] + ExchangeAllowance(l)
        /\ Delivered(l) = Returned(l) + RestWith(l)
    BY DEF HoldInv, HoldOf
  <1>4. RestWith(l) \in Nat
    BY RestIsNatural
  <1>5. QED
    BY <1>2, <1>3, <1>4

\* The counts of returns, over the table of returns.
LEMMA CountsOfReturns ==
  ASSUME NEW l
  PROVE  /\ Returned(l) = TakenBy(return, Recorded, l)
         /\ Returned(l)' = TakenBy(return', Recorded', l)
         /\ ExchangeAllowance(l) = TakenBy(return, Exchanged, l)
         /\ ExchangeAllowance(l)' = TakenBy(return', Exchanged', l)
         /\ \A d : ReturnedOf(d, l) = TakenBy(return, ReturnsOf(d), l)
         /\ \A d : ReturnedOf(d, l)' = TakenBy(return', ReturnsOf(d)', l)
  BY DEF Returned, ExchangeAllowance, Exchanged, ReturnedOf, TakenBack, TakenBy

\* What a return adds to the counts of a line.
LEMMA ReturnCounts ==
  ASSUME TypeOK, NEW k, NEW row, Adds(k, row), NEW l \in Lines
  PROVE  /\ Returned(l)' = Returned(l) + row.quantity[l]
         /\ row.resolution = "exchange" =>
               ExchangeAllowance(l)' = ExchangeAllowance(l) + row.quantity[l]
         /\ row.resolution # "exchange" => ExchangeAllowance(l)' = ExchangeAllowance(l)
         /\ ReturnedOf(row.delivery, l)' = ReturnedOf(row.delivery, l) + row.quantity[l]
         /\ \A d : d # row.delivery => ReturnedOf(d, l)' = ReturnedOf(d, l)
  <1>1. /\ Recorded' = Recorded \union {k} /\ k \notin Recorded
        /\ \A d : ReturnsOf(d) \subseteq Recorded
        /\ \A d : ReturnsOf(d)' = IF row.delivery = d THEN ReturnsOf(d) \union {k}
                                  ELSE ReturnsOf(d)
    BY ReturnsGrow
  <1>2. /\ Exchanged \subseteq Recorded
        /\ row.resolution = "exchange" => Exchanged' = Exchanged \union {k}
        /\ row.resolution # "exchange" => Exchanged' = Exchanged
    BY <1>1 DEF Exchanged, Adds, Recorded
  <1>c. /\ Returned(l) = TakenBy(return, Recorded, l)
        /\ Returned(l)' = TakenBy(return', Recorded', l)
        /\ ExchangeAllowance(l) = TakenBy(return, Exchanged, l)
        /\ ExchangeAllowance(l)' = TakenBy(return', Exchanged', l)
        /\ ReturnedOf(row.delivery, l) = TakenBy(return, ReturnsOf(row.delivery), l)
        /\ ReturnedOf(row.delivery, l)' = TakenBy(return', ReturnsOf(row.delivery)', l)
    BY CountsOfReturns
  <1>t. \A S \in SUBSET Recorded :
           /\ TakenBy(return', S, l) = TakenBy(return, S, l)
           /\ TakenBy(return', S \union {k}, l) = TakenBy(return, S, l) + row.quantity[l]
    BY TakenBackGrows
  <1>3. Returned(l)' = Returned(l) + row.quantity[l]
    BY <1>1, <1>c, <1>t
  <1>4. row.resolution = "exchange" =>
              ExchangeAllowance(l)' = ExchangeAllowance(l) + row.quantity[l]
    BY <1>2, <1>c, <1>t
  <1>5. row.resolution # "exchange" => ExchangeAllowance(l)' = ExchangeAllowance(l)
    BY <1>2, <1>c, <1>t
  <1>6. ReturnedOf(row.delivery, l)' = ReturnedOf(row.delivery, l) + row.quantity[l]
    BY <1>1, <1>c, <1>t
  <1>7. ASSUME NEW d, d # row.delivery
        PROVE  ReturnedOf(d, l)' = ReturnedOf(d, l)
    <2>1. ReturnsOf(d)' = ReturnsOf(d) /\ ReturnsOf(d) \subseteq Recorded
      BY <1>1, <1>7
    <2>2. TakenBy(return', ReturnsOf(d), l) = TakenBy(return, ReturnsOf(d), l)
      BY <2>1, TakenBackGrows
    <2>3. QED
      BY <2>1, <2>2, CountsOfReturns
  <1>8. QED
    BY <1>3, <1>4, <1>5, <1>6, <1>7

\* Without a return, what came back stays.
LEMMA ReturnsStay ==
  ASSUME UNCHANGED return, NEW l
  PROVE  /\ Returned(l)' = Returned(l) /\ ExchangeAllowance(l)' = ExchangeAllowance(l)
         /\ \A d : ReturnedOf(d, l)' = ReturnedOf(d, l)
  BY DEF Returned, ExchangeAllowance, ReturnedOf, ReturnsOf, TakenBack, Recorded

\* What deliveries add up to changes by what one delivery adds.
LEMMA CountsMove ==
  ASSUME TypeOK, TypeOK', NEW d \in Deliveries,
         \A e \in Deliveries \ {d} : delivery'[e] = delivery[e], NEW l \in Lines
  PROVE  /\ Allocated(l)' = Allocated(l) - RowShare(delivery[d], l, Active)
                              + RowShare(delivery'[d], l, Active)
         /\ Delivered(l)' = Delivered(l) - RowShare(delivery[d], l, Terminal)
                              + RowShare(delivery'[d], l, Terminal)
         /\ Allocated(l)' \in Nat /\ Delivered(l)' \in Nat
         /\ Delivered(l)' <= Allocated(l)'
  <1>1. delivery \in Rows /\ delivery' \in Rows /\ Terminal \subseteq Active
    BY TypeOfRows DEF Active
  <1>2. /\ Allocated(l) = QuantityOver(delivery, l, Active)
        /\ Allocated(l)' = QuantityOver(delivery', l, Active)
        /\ Delivered(l) = QuantityOver(delivery, l, Terminal)
        /\ Delivered(l)' = QuantityOver(delivery', l, Terminal)
    BY QuantityInIsOver DEF Allocated, Delivered
  <1>3. /\ QuantityOver(delivery', l, Active) = QuantityOver(delivery, l, Active)
             - RowShare(delivery[d], l, Active) + RowShare(delivery'[d], l, Active)
        /\ QuantityOver(delivery', l, Terminal) = QuantityOver(delivery, l, Terminal)
             - RowShare(delivery[d], l, Terminal) + RowShare(delivery'[d], l, Terminal)
    BY <1>1, QuantityOverMoves
  <1>4. /\ QuantityOver(delivery', l, Active) \in Nat
        /\ QuantityOver(delivery', l, Terminal) \in Nat
        /\ QuantityOver(delivery', l, Terminal) <= QuantityOver(delivery', l, Active)
    BY <1>1, QuantityOverPart
  <1>5. QED
    BY <1>2, <1>3, <1>4

-----------------------------------------------------------------------------
(* Deliveries and returns, seen as counts of order lines.                  *)

\* How the counts may change in a step.
Promises(q) == \A l \in Lines :
    /\ Allocated(l)' = Allocated(l) + q[l]
    /\ Allocated(l) + q[l] <= Ordered[l] + ExchangeAllowance(l)
    /\ Delivered(l)' = Delivered(l) /\ Returned(l)' = Returned(l)
    /\ ExchangeAllowance(l)' = ExchangeAllowance(l)

Withdraws(q) == \A l \in Lines :
    /\ Allocated(l)' = Allocated(l) - q[l]
    /\ Delivered(l) + q[l] <= Allocated(l)
    /\ Delivered(l)' = Delivered(l) /\ Returned(l)' = Returned(l)
    /\ ExchangeAllowance(l)' = ExchangeAllowance(l)

HandsOver(q) == \A l \in Lines :
    /\ Delivered(l)' = Delivered(l) + q[l]
    /\ Delivered(l) + q[l] <= Allocated(l)
    /\ Allocated(l)' = Allocated(l) /\ Returned(l)' = Returned(l)
    /\ ExchangeAllowance(l)' = ExchangeAllowance(l)

TakesBack(q, exchange) == \A l \in Lines :
    /\ Returned(l)' = Returned(l) + q[l]
    /\ Returned(l) + q[l] <= Delivered(l)
    /\ ExchangeAllowance(l)' = ExchangeAllowance(l) + (IF exchange THEN q[l] ELSE 0)
    /\ Allocated(l)' = Allocated(l) /\ Delivered(l)' = Delivered(l)

CountsStay == \A l \in Lines :
    /\ Allocated(l)' = Allocated(l) /\ Delivered(l)' = Delivered(l)
    /\ Returned(l)' = Returned(l) /\ ExchangeAllowance(l)' = ExchangeAllowance(l)

\* What one delivery leaves with the customer.
RestShare(d, l) == IF d \in DeliveredBy(Terminal) THEN Rest(d, l) ELSE 0

\* What is left with the customer changes by what one delivery leaves there.
LEMMA RestMoves ==
  ASSUME HoldInv, TypeOK', NEW d \in Deliveries, NEW l \in Lines,
         \A e \in Deliveries \ {d} : /\ delivery'[e] = delivery[e]
                                     /\ ReturnedOf(e, l)' = ReturnedOf(e, l),
         ReturnedOf(d, l)' \in Nat
  PROVE  /\ RestWith(l)' = RestWith(l) - RestShare(d, l) + RestShare(d, l)'
         /\ RestShare(d, l) \in Int /\ RestShare(d, l)' \in Int
  <1> DEFINE f == [e \in DeliveredBy(Terminal) |-> Rest(e, l)]
             g == [e \in DeliveredBy(Terminal)' |-> Rest(e, l)']
  <1>0. TypeOK
    BY DEF HoldInv, ReturnInv
  <1>1. IsFiniteSet(DOMAIN f)
    BY KeysAreFinite, FS_Subset DEF DeliveredBy
  <1>2. /\ DeliveredBy(Terminal) \ {d} = DeliveredBy(Terminal)' \ {d}
        /\ DeliveredBy(Terminal) \subseteq Deliveries
        /\ DeliveredBy(Terminal)' \subseteq Deliveries
    BY DEF DeliveredBy
  <1>3. \A e \in DeliveredBy(Terminal) : Rest(e, l) \in Int
    BY RestIsNatural
  <1>4. \A e \in DeliveredBy(Terminal)' : Rest(e, l)' \in Int
    <2>1. \A e \in DeliveredBy(Terminal)' : delivery'[e].quantity[l] \in Nat
      BY DEF TypeOK, DeliveredBy, DeliveryRow
    <2>2. \A e \in Deliveries : ReturnedOf(e, l)' \in Nat
      BY <1>0, CountsAreNatural
    <2>3. QED
      BY <1>2, <2>1, <2>2 DEF Rest
  <1>5. \A e \in DeliveredBy(Terminal) \ {d} : Rest(e, l)' = Rest(e, l)
    BY <1>2 DEF Rest
  <1>6. /\ DOMAIN f \ {d} = DOMAIN g \ {d}
        /\ \A e \in DOMAIN f : f[e] \in Int
        /\ \A e \in DOMAIN g : g[e] \in Int
        /\ \A e \in DOMAIN f \ {d} : g[e] = f[e]
    BY <1>2, <1>3, <1>4, <1>5
  <1>7. RestWith(l) = SumFunction(f) /\ RestWith(l)' = SumFunction(g)
    BY DEF RestWith
  <1>8. RestShare(d, l) = ValueAt(f, d) /\ RestShare(d, l)' = ValueAt(g, d)
    BY DEF RestShare, ValueAt
  <1> HIDE DEF f, g
  <1>9. /\ SumFunction(g) = SumFunction(f) - ValueAt(f, d) + ValueAt(g, d)
        /\ ValueAt(f, d) \in Int /\ ValueAt(g, d) \in Int
    BY <1>1, <1>6, SumMoves
  <1>10. QED
    BY <1>7, <1>8, <1>9

\* A delivery that does not reach the customer leaves nothing there.
LEMMA RestStays ==
  ASSUME HoldInv, TypeOK', NEW d \in Deliveries, UNCHANGED return,
         \A e \in Deliveries \ {d} : delivery'[e] = delivery[e],
         d \notin DeliveredBy(Terminal), d \notin DeliveredBy(Terminal)',
         NEW l \in Lines
  PROVE  /\ RestWith(l)' = RestWith(l)
         /\ \A e \in DeliveredBy(Terminal)' : Rest(e, l)' >= 0
  <1>1. \A e : ReturnedOf(e, l)' = ReturnedOf(e, l) /\ ReturnedOf(e, l) \in Nat
    BY ReturnsStay, CountsAreNatural DEF HoldInv, ReturnInv
  <1>2. RestShare(d, l) = 0 /\ RestShare(d, l)' = 0
    BY DEF RestShare
  <1>3. RestWith(l)' = RestWith(l) - RestShare(d, l) + RestShare(d, l)'
    BY <1>1, RestMoves
  <1>4. RestWith(l) \in Nat
    BY RestIsNatural
  <1>5. ASSUME NEW e \in DeliveredBy(Terminal)'
        PROVE  Rest(e, l)' >= 0
    <2>1. e \in DeliveredBy(Terminal) /\ delivery'[e] = delivery[e]
      BY <1>5 DEF DeliveredBy
    <2>2. Rest(e, l)' = Rest(e, l)
      BY <1>1, <2>1 DEF Rest
    <2>3. QED
      BY <2>1, <2>2 DEF HoldInv, HoldOf
  <1>6. QED
    BY <1>2, <1>3, <1>4, <1>5

\* What the invariant says of a line, as numbers.
LEMMA HoldTypes ==
  ASSUME HoldInv, NEW l \in Lines
  PROVE  /\ TypeOK
         /\ Allocated(l) \in Nat /\ Delivered(l) \in Nat /\ Returned(l) \in Nat
         /\ ExchangeAllowance(l) \in Nat /\ Ordered[l] \in Nat
         /\ RestWith(l) \in Nat
         /\ Allocated(l) <= Ordered[l] + ExchangeAllowance(l)
         /\ Delivered(l) <= Allocated(l)
         /\ Delivered(l) = Returned(l) + RestWith(l)
         /\ \A d \in DeliveredBy(Terminal) : Rest(d, l) >= 0
  BY CountsAreNatural, RestIsNatural DEF HoldInv, HoldOf, ReturnInv

\* A delivery that is created is promised.
LEMMA CreatePromises ==
  ASSUME HoldInv, TypeOK', Create
  PROVE  /\ \A l \in Lines : HoldOf(l)'
         /\ \E q \in LineQuantities : Promises(q)
         /\ \A d \in Deliveries : delivery'[d] # None => delivery'[d].quantity \in LineQuantities
  <1>0. TypeOK
    BY DEF HoldInv, ReturnInv
  <1>1. PICK d \in Deliveries, row \in DeliveryRow :
            /\ delivery[d] = None
            /\ row.status = "draft" /\ row.quantity \in LineQuantities
            /\ \A l \in Lines : row.quantity[l] > 0 =>
                  Allocated(l) + row.quantity[l] <= Ordered[l] + ExchangeAllowance(l)
            /\ delivery'[d] = row /\ row # None
            /\ \A e \in Deliveries \ {d} : delivery'[e] = delivery[e]
            /\ UNCHANGED <<order, fitting, output, return, issue, stock, other>>
    BY <1>0, CreateAddsRow
  <1> DEFINE q == row.quantity
  <1>2. "draft" \in Active /\ "draft" \notin Terminal
    BY DEF Active, InFlight, Terminal
  <1>3. ASSUME NEW l \in Lines
        PROVE  /\ HoldOf(l)'
               /\ Allocated(l)' = Allocated(l) + q[l]
               /\ Allocated(l) + q[l] <= Ordered[l] + ExchangeAllowance(l)
               /\ Delivered(l)' = Delivered(l) /\ Returned(l)' = Returned(l)
               /\ ExchangeAllowance(l)' = ExchangeAllowance(l)
    <2>1. q[l] \in Nat
      BY DEF DeliveryRow
    <2>2. /\ RowShare(delivery[d], l, Active) = 0 /\ RowShare(delivery'[d], l, Active) = q[l]
          /\ RowShare(delivery[d], l, Terminal) = 0 /\ RowShare(delivery'[d], l, Terminal) = 0
      BY <1>1, <1>2 DEF RowShare
    <2>3. /\ Allocated(l)' = Allocated(l) - RowShare(delivery[d], l, Active)
                               + RowShare(delivery'[d], l, Active)
          /\ Delivered(l)' = Delivered(l) - RowShare(delivery[d], l, Terminal)
                               + RowShare(delivery'[d], l, Terminal)
      BY <1>0, <1>1, CountsMove
    <2>4. Returned(l)' = Returned(l) /\ ExchangeAllowance(l)' = ExchangeAllowance(l)
      BY <1>1, ReturnsStay
    <2>5. d \notin DeliveredBy(Terminal) /\ d \notin DeliveredBy(Terminal)'
      BY <1>1, <1>2 DEF DeliveredBy
    <2>6. /\ RestWith(l)' = RestWith(l)
          /\ \A e \in DeliveredBy(Terminal)' : Rest(e, l)' >= 0
      BY <1>1, <2>5, RestStays
    <2>7. /\ Allocated(l) \in Nat /\ Delivered(l) \in Nat /\ Ordered[l] \in Nat
          /\ ExchangeAllowance(l) \in Nat
          /\ Allocated(l) <= Ordered[l] + ExchangeAllowance(l)
          /\ Delivered(l) = Returned(l) + RestWith(l)
      BY HoldTypes
    <2>8. q[l] > 0 => Allocated(l) + q[l] <= Ordered[l] + ExchangeAllowance(l)
      BY <1>1
    <2> HIDE DEF q
    <2>9. /\ Allocated(l)' = Allocated(l) + q[l] /\ Delivered(l)' = Delivered(l)
          /\ Allocated(l) + q[l] <= Ordered[l] + ExchangeAllowance(l)
      BY <2>1, <2>2, <2>3, <2>7, <2>8
    <2>10. HoldOf(l)'
      BY <2>4, <2>6, <2>7, <2>9 DEF HoldOf
    <2>11. QED
      BY <2>4, <2>9, <2>10
  <1>4. Promises(q)
    BY <1>3 DEF Promises
  <1>5. \A e \in Deliveries : delivery'[e] # None => delivery'[e].quantity \in LineQuantities
    BY <1>1 DEF HoldInv
  <1>6. QED
    BY <1>1, <1>3, <1>4, <1>5

\* A delivery that fails or is cancelled is withdrawn; other steps of one in
\* flight count for nothing.
LEMMA MovementWithdraws ==
  ASSUME HoldInv, TypeOK', NEW d \in Deliveries,
         NEW s \in (InFlight \ {"draft"}) \union {"failed", "cancelled"}, Movement(d, s)
  PROVE  /\ \A l \in Lines : HoldOf(l)'
         /\ CountsStay \/ \E q \in LineQuantities : Withdraws(q)
         /\ \A e \in Deliveries : delivery'[e] # None => delivery'[e].quantity \in LineQuantities
  <1>0. TypeOK
    BY DEF HoldInv, ReturnInv
  <1>1. /\ delivery[d] # None /\ delivery[d].status \in InFlight
        /\ delivery'[d] # None /\ delivery'[d].status = s
        /\ delivery'[d].quantity = delivery[d].quantity
        /\ \A e \in Deliveries \ {d} : delivery'[e] = delivery[e]
        /\ UNCHANGED return
    BY <1>0, StatusChanges DEF Movement, Active
  <1> DEFINE q == delivery[d].quantity
             gone == s \in {"failed", "cancelled"}
  <1>2. /\ delivery[d].status \in Active /\ delivery[d].status \notin Terminal
        /\ s \notin Terminal /\ (gone <=> s \notin Active)
    BY <1>1 DEF Active, InFlight, Terminal
  <1>3. q \in LineQuantities
    BY <1>1 DEF HoldInv
  <1>4. ASSUME NEW l \in Lines
        PROVE  /\ HoldOf(l)'
               /\ Allocated(l)' = Allocated(l) - (IF gone THEN q[l] ELSE 0)
               /\ gone => Delivered(l) + q[l] <= Allocated(l)
               /\ Delivered(l)' = Delivered(l) /\ Returned(l)' = Returned(l)
               /\ ExchangeAllowance(l)' = ExchangeAllowance(l)
    <2>1. q[l] \in Nat
      BY <1>3, LineQuantitiesAreNatural
    <2>2. /\ RowShare(delivery[d], l, Active) = q[l]
          /\ RowShare(delivery'[d], l, Active) = IF gone THEN 0 ELSE q[l]
          /\ RowShare(delivery[d], l, Terminal) = 0 /\ RowShare(delivery'[d], l, Terminal) = 0
      BY <1>1, <1>2 DEF RowShare
    <2>3. /\ Allocated(l)' = Allocated(l) - RowShare(delivery[d], l, Active)
                               + RowShare(delivery'[d], l, Active)
          /\ Delivered(l)' = Delivered(l) - RowShare(delivery[d], l, Terminal)
                               + RowShare(delivery'[d], l, Terminal)
          /\ Allocated(l)' \in Nat /\ Delivered(l)' <= Allocated(l)'
      BY <1>0, <1>1, CountsMove
    <2>4. Returned(l)' = Returned(l) /\ ExchangeAllowance(l)' = ExchangeAllowance(l)
      BY <1>1, ReturnsStay
    <2>5. d \notin DeliveredBy(Terminal) /\ d \notin DeliveredBy(Terminal)'
      BY <1>1, <1>2 DEF DeliveredBy
    <2>6. /\ RestWith(l)' = RestWith(l)
          /\ \A e \in DeliveredBy(Terminal)' : Rest(e, l)' >= 0
      BY <1>1, <2>5, RestStays
    <2>7. /\ Allocated(l) \in Nat /\ Delivered(l) \in Nat /\ Ordered[l] \in Nat
          /\ ExchangeAllowance(l) \in Nat
          /\ Allocated(l) <= Ordered[l] + ExchangeAllowance(l)
          /\ Delivered(l) = Returned(l) + RestWith(l)
      BY HoldTypes
    <2> HIDE DEF q, gone
    <2>8. /\ Allocated(l)' = Allocated(l) - (IF gone THEN q[l] ELSE 0)
          /\ Delivered(l)' = Delivered(l)
          /\ Allocated(l)' <= Allocated(l)
      BY <2>1, <2>2, <2>3, <2>7
    <2>9. gone => Delivered(l) + q[l] <= Allocated(l)
      BY <2>1, <2>3, <2>7, <2>8
    <2>10. Allocated(l)' <= Ordered[l] + ExchangeAllowance(l)
      BY <2>3, <2>7, <2>8
    <2>11. HoldOf(l)'
      BY <2>4, <2>6, <2>7, <2>8, <2>10 DEF HoldOf
    <2>12. QED
      BY <2>4, <2>8, <2>9, <2>11
  <1>5. CASE gone
    <2>1. Withdraws(q)
      BY <1>4, <1>5 DEF Withdraws
    <2>2. QED
      BY <1>1, <1>3, <1>4, <2>1 DEF HoldInv
  <1>6. CASE ~gone
    <2>1. \A l \in Lines : Allocated(l) \in Nat
      BY HoldTypes
    <2>2. CountsStay
      BY <1>4, <1>6, <2>1 DEF CountsStay
    <2>3. QED
      BY <1>1, <1>4, <2>2 DEF HoldInv
  <1>7. QED
    BY <1>5, <1>6

\* A delivery that is completed is handed over.
LEMMA CompletionHandsOver ==
  ASSUME HoldInv, TypeOK', NEW d \in Deliveries, Completion(d)
  PROVE  /\ \A l \in Lines : HoldOf(l)'
         /\ \E q \in LineQuantities : HandsOver(q)
         /\ \A e \in Deliveries : delivery'[e] # None => delivery'[e].quantity \in LineQuantities
  <1>0. TypeOK
    BY DEF HoldInv, ReturnInv
  <1>1. PICK s \in Terminal : SetStatus(d, s)
    BY <1>0, CompletionKeepsBooks
  <1>2. delivery[d] # None /\ delivery[d].status \in InFlight
    BY <1>0, CompletionKeepsBooks
  <1>3. /\ delivery'[d] # None /\ delivery'[d].status = s
        /\ delivery'[d].quantity = delivery[d].quantity
        /\ \A e \in Deliveries \ {d} : delivery'[e] = delivery[e]
        /\ UNCHANGED return
    BY <1>0, <1>1, <1>2, StatusChanges DEF Active
  <1> DEFINE q == delivery[d].quantity
  <1>4. /\ delivery[d].status \in Active /\ delivery[d].status \notin Terminal
        /\ s \in Active
    BY <1>2 DEF Active, InFlight, Terminal
  <1>5. q \in LineQuantities
    BY <1>2 DEF HoldInv
  <1>6. ReturnsOf(d) = {}
    <2>1. \A k \in Recorded : return[k].delivery # d
      BY <1>4 DEF HoldInv, ReturnInv, ReturnsOfDelivered
    <2>2. QED
      BY <2>1 DEF ReturnsOf
  <1>7. ASSUME NEW l \in Lines
        PROVE  /\ HoldOf(l)'
               /\ Delivered(l)' = Delivered(l) + q[l]
               /\ Delivered(l) + q[l] <= Allocated(l)
               /\ Allocated(l)' = Allocated(l) /\ Returned(l)' = Returned(l)
               /\ ExchangeAllowance(l)' = ExchangeAllowance(l)
    <2>1. q[l] \in Nat
      BY <1>5, LineQuantitiesAreNatural
    <2>2. /\ RowShare(delivery[d], l, Active) = q[l] /\ RowShare(delivery'[d], l, Active) = q[l]
          /\ RowShare(delivery[d], l, Terminal) = 0
          /\ RowShare(delivery'[d], l, Terminal) = q[l]
      BY <1>2, <1>3, <1>4 DEF RowShare
    <2>3. /\ Allocated(l)' = Allocated(l) - RowShare(delivery[d], l, Active)
                               + RowShare(delivery'[d], l, Active)
          /\ Delivered(l)' = Delivered(l) - RowShare(delivery[d], l, Terminal)
                               + RowShare(delivery'[d], l, Terminal)
          /\ Allocated(l)' \in Nat /\ Delivered(l)' <= Allocated(l)'
      BY <1>0, <1>3, CountsMove
    <2>4. /\ Returned(l)' = Returned(l) /\ ExchangeAllowance(l)' = ExchangeAllowance(l)
          /\ \A e : ReturnedOf(e, l)' = ReturnedOf(e, l)
      BY <1>3, ReturnsStay
    <2>5. ReturnedOf(d, l) = 0
      <3> DEFINE f == [k \in ReturnsOf(d) |-> return[k].quantity[l]]
      <3>1. DOMAIN f = {} /\ ReturnedOf(d, l) = SumFunction(f)
        BY <1>6 DEF ReturnedOf, TakenBack
      <3> HIDE DEF f
      <3>2. QED
        BY <3>1, FS_EmptySet, SumOfZeros
    <2>6. d \notin DeliveredBy(Terminal) /\ d \in DeliveredBy(Terminal)'
      BY <1>2, <1>3, <1>4 DEF DeliveredBy
    <2>7. RestShare(d, l) = 0 /\ RestShare(d, l)' = q[l] /\ Rest(d, l)' = q[l]
      BY <1>3, <2>1, <2>4, <2>5, <2>6 DEF RestShare, Rest
    <2>8. RestWith(l)' = RestWith(l) - RestShare(d, l) + RestShare(d, l)'
      BY <1>3, <2>4, <2>5, RestMoves
    <2>9. /\ Allocated(l) \in Nat /\ Delivered(l) \in Nat /\ Returned(l) \in Nat
          /\ RestWith(l) \in Nat
          /\ Allocated(l) <= Ordered[l] + ExchangeAllowance(l)
          /\ Delivered(l) = Returned(l) + RestWith(l)
      BY HoldTypes
    <2>10. \A e \in DeliveredBy(Terminal)' : Rest(e, l)' >= 0
      <3>1. ASSUME NEW e \in DeliveredBy(Terminal)', e # d
            PROVE  Rest(e, l)' >= 0
        <4>1. e \in DeliveredBy(Terminal) /\ delivery'[e] = delivery[e]
          BY <1>3, <3>1 DEF DeliveredBy
        <4>2. Rest(e, l)' = Rest(e, l)
          BY <2>4, <4>1 DEF Rest
        <4>3. QED
          BY <4>1, <4>2, HoldTypes
      <3>2. Rest(d, l)' >= 0
        BY <2>1, <2>7
      <3>3. QED
        BY <3>1, <3>2
    <2> HIDE DEF q
    <2>11. /\ Allocated(l)' = Allocated(l) /\ Delivered(l)' = Delivered(l) + q[l]
           /\ RestWith(l)' = RestWith(l) + q[l]
      BY <2>1, <2>2, <2>3, <2>7, <2>8, <2>9
    <2>12. Delivered(l) + q[l] <= Allocated(l)
      BY <2>3, <2>11
    <2>13. Delivered(l)' = Returned(l)' + RestWith(l)'
      BY <2>1, <2>4, <2>9, <2>11
    <2>14. HoldOf(l)'
      BY <2>4, <2>9, <2>10, <2>11, <2>13 DEF HoldOf
    <2>15. QED
      BY <2>4, <2>11, <2>12, <2>14
  <1>8. HandsOver(q)
    BY <1>7 DEF HandsOver
  <1>9. QED
    BY <1>3, <1>5, <1>7, <1>8 DEF HoldInv

\* A return is taken back, and what it replaces may be promised again.
LEMMA ReturnTakesBack ==
  ASSUME HoldInv, TypeOK', Return
  PROVE  /\ \A l \in Lines : HoldOf(l)'
         /\ \E q \in LineQuantities, exchange \in BOOLEAN : TakesBack(q, exchange)
         /\ \A e \in Deliveries : delivery'[e] # None => delivery'[e].quantity \in LineQuantities
  <1>0. TypeOK
    BY DEF HoldInv, ReturnInv
  <1>1. PICK k \in ReturnKeys, row \in ReturnRow :
            /\ return[k] = None /\ row # None
            /\ delivery[row.delivery] # None
            /\ delivery[row.delivery].status \in Terminal
            /\ row.quantity \in LineQuantities
            /\ \A l \in Lines : ReturnedOf(row.delivery, l) + row.quantity[l]
                                  <= delivery[row.delivery].quantity[l]
            /\ return'[k] = row
            /\ \A j \in ReturnKeys \ {k} : return'[j] = return[j]
            /\ UNCHANGED <<order, fitting, output, delivery, issue, other>>
    BY <1>0, ReturnAddsRow
  <1>2. Adds(k, row)
    BY <1>1 DEF Adds
  <1> DEFINE q == row.quantity
             d == row.delivery
             exchange == row.resolution = "exchange"
  <1>3. d \in Deliveries /\ q \in [Lines -> Nat]
    BY DEF ReturnRow
  <1>4. DeliveredBy(Terminal)' = DeliveredBy(Terminal) /\ d \in DeliveredBy(Terminal)
    BY <1>1, <1>3 DEF DeliveredBy
  <1>5. ASSUME NEW l \in Lines
        PROVE  /\ HoldOf(l)'
               /\ Returned(l)' = Returned(l) + q[l]
               /\ Returned(l) + q[l] <= Delivered(l)
               /\ ExchangeAllowance(l)' = ExchangeAllowance(l) + (IF exchange THEN q[l] ELSE 0)
               /\ Allocated(l)' = Allocated(l) /\ Delivered(l)' = Delivered(l)
    <2>1. q[l] \in Nat
      BY <1>3
    <2>2. /\ Returned(l)' = Returned(l) + q[l]
          /\ exchange => ExchangeAllowance(l)' = ExchangeAllowance(l) + q[l]
          /\ ~exchange => ExchangeAllowance(l)' = ExchangeAllowance(l)
          /\ ReturnedOf(d, l)' = ReturnedOf(d, l) + q[l]
          /\ \A e : e # d => ReturnedOf(e, l)' = ReturnedOf(e, l)
      BY <1>0, <1>2, ReturnCounts
    <2>3. Allocated(l)' = Allocated(l) /\ Delivered(l)' = Delivered(l)
      BY <1>1 DEF Allocated, Delivered, QuantityIn, DeliveredBy
    <2>4. /\ Allocated(l) \in Nat /\ Delivered(l) \in Nat /\ Returned(l) \in Nat
          /\ ExchangeAllowance(l) \in Nat /\ Ordered[l] \in Nat
          /\ RestWith(l) \in Nat
          /\ Allocated(l) <= Ordered[l] + ExchangeAllowance(l)
          /\ Delivered(l) = Returned(l) + RestWith(l)
          /\ \A e \in DeliveredBy(Terminal) : Rest(e, l) >= 0
      BY HoldTypes
    <2>5. /\ ReturnedOf(d, l) \in Nat /\ delivery[d].quantity[l] \in Nat
          /\ ReturnedOf(d, l) + q[l] <= delivery[d].quantity[l]
      BY <1>0, <1>1, <1>3, CountsAreNatural DEF TypeOK, DeliveryRow
    <2>6. Rest(d, l) \in Nat /\ Rest(d, l) <= RestWith(l)
      BY <1>4, RestIsNatural
    <2>7. /\ Rest(d, l) = delivery[d].quantity[l] - ReturnedOf(d, l)
          /\ Rest(d, l)' = delivery[d].quantity[l] - ReturnedOf(d, l)'
      BY <1>1 DEF Rest
    <2>8. RestShare(d, l) = Rest(d, l) /\ RestShare(d, l)' = Rest(d, l)'
      BY <1>4 DEF RestShare
    <2>9. RestWith(l)' = RestWith(l) - RestShare(d, l) + RestShare(d, l)'
      <3>1. ReturnedOf(d, l)' \in Nat
        BY <2>1, <2>2, <2>5
      <3>2. \A e \in Deliveries \ {d} : /\ delivery'[e] = delivery[e]
                                        /\ ReturnedOf(e, l)' = ReturnedOf(e, l)
        BY <1>1, <2>2
      <3> HIDE DEF d
      <3>3. QED
        BY <1>3, <3>1, <3>2, RestMoves
    <2>10. \A e \in DeliveredBy(Terminal)' : Rest(e, l)' >= 0
      <3>1. ASSUME NEW e \in DeliveredBy(Terminal)', e # d
            PROVE  Rest(e, l)' >= 0
        <4>1. Rest(e, l)' = Rest(e, l)
          BY <1>1, <2>2, <3>1 DEF Rest
        <4>2. QED
          BY <1>4, <2>4, <4>1
      <3>2. Rest(d, l)' >= 0
        <4> HIDE DEF d, q
        <4>1. QED
          BY <2>1, <2>2, <2>5, <2>7
      <3>3. QED
        BY <3>1, <3>2
    <2> HIDE DEF q, d, exchange
    <2>11. RestWith(l)' = RestWith(l) - q[l] /\ q[l] <= RestWith(l)
      BY <2>1, <2>2, <2>4, <2>5, <2>6, <2>7, <2>8, <2>9
    <2>12. Returned(l) + q[l] <= Delivered(l) /\ Delivered(l)' = Returned(l)' + RestWith(l)'
      BY <2>1, <2>2, <2>3, <2>4, <2>11
    <2>13. /\ ExchangeAllowance(l)' = ExchangeAllowance(l) + (IF exchange THEN q[l] ELSE 0)
           /\ Allocated(l)' <= Ordered[l] + ExchangeAllowance(l)'
      BY <2>1, <2>2, <2>3, <2>4
    <2>14. HoldOf(l)'
      BY <2>10, <2>12, <2>13 DEF HoldOf
    <2>15. QED
      BY <2>2, <2>3, <2>12, <2>13, <2>14
  <1>6. TakesBack(q, exchange)
    BY <1>5 DEF TakesBack
  <1>7. exchange \in BOOLEAN
    OBVIOUS
  <1> HIDE DEF exchange
  <1>8. \E exc \in BOOLEAN : TakesBack(q, exc)
    BY <1>6, <1>7
  <1>9. QED
    BY <1>1, <1>5, <1>8 DEF HoldInv

\* A step that changes no delivery and no return leaves the counts alone.
LEMMA QuietCounts ==
  ASSUME HoldInv, TypeOK', Quiet
  PROVE  /\ \A l \in Lines : HoldOf(l)'
         /\ CountsStay
         /\ \A e \in Deliveries : delivery'[e] # None => delivery'[e].quantity \in LineQuantities
  <1>1. /\ UNCHANGED <<delivery, return>>
        /\ DeliveredBy(Terminal)' = DeliveredBy(Terminal)
    BY DEF Quiet, DeliveredBy
  <1>2. ASSUME NEW l \in Lines
        PROVE  /\ HoldOf(l)
               /\ Allocated(l)' = Allocated(l) /\ Delivered(l)' = Delivered(l)
               /\ Returned(l)' = Returned(l) /\ ExchangeAllowance(l)' = ExchangeAllowance(l)
               /\ RestWith(l)' = RestWith(l)
               /\ \A d : Rest(d, l)' = Rest(d, l)
    <2>1. Allocated(l)' = Allocated(l) /\ Delivered(l)' = Delivered(l)
      BY <1>1 DEF Allocated, Delivered, QuantityIn, DeliveredBy
    <2>2. /\ Returned(l)' = Returned(l) /\ ExchangeAllowance(l)' = ExchangeAllowance(l)
          /\ \A d : ReturnedOf(d, l)' = ReturnedOf(d, l)
      BY <1>1, ReturnsStay
    <2>3. \A d : Rest(d, l)' = Rest(d, l)
      BY <1>1, <2>2 DEF Rest
    <2>4. RestWith(l)' = RestWith(l)
      BY <1>1, <2>3 DEF RestWith
    <2>5. HoldOf(l)
      BY DEF HoldInv
    <2>6. QED
      BY <2>1, <2>2, <2>3, <2>4, <2>5
  <1>3. \A l \in Lines : HoldOf(l)'
    BY <1>1, <1>2 DEF HoldOf
  <1>4. CountsStay
    BY <1>2 DEF CountsStay
  <1>5. QED
    BY <1>1, <1>3, <1>4 DEF HoldInv

\* How a step may change the counts.
CountsChange ==
    \/ \E q \in LineQuantities :
          \/ Promises(q) \/ Withdraws(q) \/ HandsOver(q)
          \/ \E exchange \in BOOLEAN : TakesBack(q, exchange)
    \/ CountsStay

\* Every step keeps the invariant and changes the counts in one of these ways.
LEMMA StepKeepsHold ==
  ASSUME HoldInv, [Next]_vars
  PROVE  HoldInv' /\ CountsChange
  <1>1. TypeOK /\ ReturnInv /\ TypeOK' /\ ReturnInv'
    BY StepKeepsTypes, StepKeepsReturns DEF HoldInv, ReturnInv
  <1>2. SUFFICES
          /\ \A l \in Lines : HoldOf(l)'
          /\ \A e \in Deliveries : delivery'[e] # None => delivery'[e].quantity \in LineQuantities
          /\ CountsChange
    BY <1>1 DEF HoldInv
  <1>3. CASE Create
    BY <1>1, <1>3, CreatePromises DEF CountsChange
  <1>4. ASSUME NEW d \in Deliveries,
               NEW s \in (InFlight \ {"draft"}) \union {"failed", "cancelled"}, Movement(d, s)
        PROVE  /\ \A l \in Lines : HoldOf(l)'
               /\ \A e \in Deliveries :
                     delivery'[e] # None => delivery'[e].quantity \in LineQuantities
               /\ CountsChange
    BY <1>1, <1>4, MovementWithdraws DEF CountsChange
  <1>5. ASSUME NEW d \in Deliveries, Completion(d)
        PROVE  /\ \A l \in Lines : HoldOf(l)'
               /\ \A e \in Deliveries :
                     delivery'[e] # None => delivery'[e].quantity \in LineQuantities
               /\ CountsChange
    BY <1>1, <1>5, CompletionHandsOver DEF CountsChange
  <1>6. CASE Return
    BY <1>1, <1>6, ReturnTakesBack DEF CountsChange
  <1>7. CASE Quiet
    BY <1>1, <1>7, QuietCounts DEF CountsChange
  <1>8. QED
    BY <1>1, <1>3, <1>4, <1>5, <1>6, <1>7, StepsOnDeliveries

\* At first nothing is promised, handed over or taken back.
LEMMA NothingHeld ==
  ASSUME Init
  PROVE  /\ HoldInv
         /\ \A l \in Lines : /\ Allocated(l) = 0 /\ Delivered(l) = 0
                             /\ Returned(l) = 0 /\ ExchangeAllowance(l) = 0
  <1>1. /\ \A S : DeliveredBy(S) = {}
        /\ Recorded = {} /\ Exchanged = {}
    BY DEF Init, DeliveredBy, Recorded, Exchanged
  <1>2. ASSUME NEW l \in Lines
        PROVE  /\ Allocated(l) = 0 /\ Delivered(l) = 0 /\ RestWith(l) = 0
               /\ Returned(l) = 0 /\ ExchangeAllowance(l) = 0
    <2> DEFINE f == [d \in DeliveredBy(Active) |-> delivery[d].quantity[l]]
               g == [d \in DeliveredBy(Terminal) |-> delivery[d].quantity[l]]
               r == [d \in DeliveredBy(Terminal) |-> Rest(d, l)]
               t == [k \in Recorded |-> return[k].quantity[l]]
               x == [k \in Exchanged |-> return[k].quantity[l]]
    <2>1. /\ DOMAIN f = {} /\ DOMAIN g = {} /\ DOMAIN r = {}
          /\ DOMAIN t = {} /\ DOMAIN x = {}
      BY <1>1
    <2>2. /\ Allocated(l) = SumFunction(f) /\ Delivered(l) = SumFunction(g)
          /\ RestWith(l) = SumFunction(r) /\ Returned(l) = SumFunction(t)
          /\ ExchangeAllowance(l) = SumFunction(x)
      BY DEF Allocated, Delivered, QuantityIn, RestWith, Returned, ExchangeAllowance,
             Exchanged, TakenBack
    <2> HIDE DEF f, g, r, t, x
    <2>3. QED
      BY <2>1, <2>2, FS_EmptySet, SumOfZeros
  <1>3. \A l \in Lines : HoldOf(l)
    BY <1>1, <1>2, LinesOfOrders DEF HoldOf
  <1>4. \A d \in Deliveries : delivery[d] = None
    BY DEF Init
  <1>5. QED
    BY <1>2, <1>3, <1>4, NothingReturned DEF HoldInv

\* The first state is one of OrderFulfilment.
LEMMA CountsStartEmpty == Init => HoldInv /\ Fulfilment!Init
  BY NothingHeld DEF Fulfilment!Init

\* Every step is a step of OrderFulfilment, or changes none of its counts.
LEMMA CountsChangeAsPromised ==
  ASSUME HoldInv, CountsChange
  PROVE  [Fulfilment!Next]_(Fulfilment!counts)
  <1>1. ASSUME NEW l \in Lines
        PROVE  ExchangeAllowance(l) \in Nat
    BY HoldTypes
  <1>2. ASSUME NEW q \in LineQuantities, Promises(q)
        PROVE  Fulfilment!Promise(q)
    BY <1>2 DEF Promises, Fulfilment!Promise, Fulfilment!Within, Fulfilment!Plus
  <1>3. ASSUME NEW q \in LineQuantities, Withdraws(q)
        PROVE  Fulfilment!Withdraw(q)
    BY <1>3 DEF Withdraws, Fulfilment!Withdraw, Fulfilment!Within, Fulfilment!Plus,
                Fulfilment!Minus
  <1>4. ASSUME NEW q \in LineQuantities, HandsOver(q)
        PROVE  Fulfilment!HandOver(q)
    BY <1>4 DEF HandsOver, Fulfilment!HandOver, Fulfilment!Within, Fulfilment!Plus
  <1>5. ASSUME NEW q \in LineQuantities, NEW exchange \in BOOLEAN, TakesBack(q, exchange)
        PROVE  Fulfilment!TakeBack(q, exchange)
    <2>1. CASE exchange
      BY <1>5, <2>1 DEF TakesBack, Fulfilment!TakeBack, Fulfilment!Within, Fulfilment!Plus
    <2>2. CASE ~exchange
      BY <1>1, <1>5, <2>2 DEF TakesBack, Fulfilment!TakeBack, Fulfilment!Within,
                              Fulfilment!Plus
    <2>3. QED
      BY <2>1, <2>2
  <1>6. ASSUME CountsStay
        PROVE  UNCHANGED Fulfilment!counts
    BY <1>6 DEF CountsStay, Fulfilment!counts
  <1>7. LineQuantities = Fulfilment!Amounts
    BY DEF LineQuantities, Fulfilment!Amounts
  <1>8. QED
    BY <1>2, <1>3, <1>4, <1>5, <1>6, <1>7 DEF CountsChange, Fulfilment!Next

\* Deliveries and returns keep what OrderFulfilment promises: every step maps to
\* one of its steps, or changes none of the four counts.
THEOREM FulfilmentImplemented == Spec => ImplementsFulfilment
  <1>1. HoldInv /\ [Next]_vars => HoldInv' /\ [Fulfilment!Next]_(Fulfilment!counts)
    BY StepKeepsHold, CountsChangeAsPromised
  <1>2. QED
    BY CountsStartEmpty, <1>1, PTL DEF Spec, ImplementsFulfilment, Fulfilment!Spec

\* Of no line more is promised than was ordered or is to be replaced, more handed
\* over than promised, or more taken back than handed over.
THEOREM CountsKeepOrder == Spec => []Fulfilment!Balanced
  <1>1. HoldInv => Fulfilment!Balanced
    BY CountsAreBalanced DEF Fulfilment!Balanced, Fulfilment!Within, Fulfilment!Plus
  <1>2. HoldInv /\ [Next]_vars => HoldInv'
    BY StepKeepsHold
  <1>3. QED
    BY CountsStartEmpty, <1>1, <1>2, PTL DEF Spec

\* "Concurrent deliveries/returns cannot over-deliver or over-return an order
\* line" (delivery/README.md:11): what the customer holds of a line is between
\* nothing and what was ordered, through any number of deliveries and exchanges.
THEOREM NeverOverDelivered == Spec => []Fulfilment!CustomerHoldsWhatWasOrdered
  <1>1. HoldInv => Fulfilment!CustomerHoldsWhatWasOrdered
    BY CountsAreBalanced DEF Fulfilment!CustomerHoldsWhatWasOrdered
  <1>2. HoldInv /\ [Next]_vars => HoldInv'
    BY StepKeepsHold
  <1>3. QED
    BY CountsStartEmpty, <1>1, <1>2, PTL DEF Spec

=============================================================================
