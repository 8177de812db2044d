----------------------------- MODULE SumTheorems -----------------------------
(***************************************************************************)
(* Facts about SumFunctionOnSet of the community module Functions: the sum *)
(* of the values of a function over a finite set.  The library's theorems  *)
(* on induction take a predicate; here induction goes over a set of        *)
(* natural numbers instead, whose complement has no least element.         *)
(***************************************************************************)
EXTENDS Integers, Functions, FiniteSetTheorems, WellFoundedInduction, TLAPS

\* A set of natural numbers with 0 and every successor holds them all.
LEMMA NatSetInduction ==
  ASSUME NEW S, 0 \in S, \A n \in Nat : n \in S => n + 1 \in S
  PROVE  Nat \subseteq S
  <1> DEFINE R == OpToRel(<, Nat)
  <1>1. SUFFICES ASSUME Nat \ S # {} PROVE FALSE
    OBVIOUS
  <1>2. IsWellFoundedOn(R, Nat)
    BY NatLessThanWellFounded
  <1>3. \A k, m \in Nat : k < m => <<k, m>> \in R
    BY DEF OpToRel
  <1> HIDE DEF R
  <1>4. PICK m \in Nat \ S : \A k \in Nat \ S : ~ (<<k, m>> \in R)
    BY <1>1, <1>2, WFMin, Zenon
  <1>5. m # 0 /\ m - 1 \in Nat
    BY <1>4
  <1>6. m - 1 \in S
    <2>1. m - 1 < m /\ m \in Nat
      BY <1>4
    <2>2. <<m - 1, m>> \in R
      BY <1>3, <1>5, <2>1
    <2>3. QED
      BY <1>4, <1>5, <2>2
  <1>7. m - 1 + 1 = m
    BY <1>4
  <1>8. QED
    BY <1>4, <1>5, <1>6, <1>7

\* A set of numbers up to a bound has a greatest one.
LEMMA GreatestElement ==
  ASSUME NEW n \in Nat, NEW S, S \subseteq 1..n, S # {}
  PROVE  \E j \in S : \A k \in S : k <= j
  <1> DEFINE R == OpToRel(<, Nat)
             T == {m \in Nat : \E k \in S : m = n - k}
  <1>1. IsWellFoundedOn(R, Nat)
    BY NatLessThanWellFounded
  <1>2. \A k, m \in Nat : k < m => <<k, m>> \in R
    BY DEF OpToRel
  <1>3. \A k \in S : k \in Int /\ n - k \in T
    OBVIOUS
  <1>4. T # {} /\ T \subseteq Nat
    BY <1>3
  <1> HIDE DEF R, T
  <1>5. PICK m \in T : \A x \in T : ~ (<<x, m>> \in R)
    BY <1>1, <1>4, WFMin, Zenon
  <1>6. PICK j \in S : m = n - j
    BY <1>5 DEF T
  <1>7. ASSUME NEW k \in S
        PROVE  k <= j
    <2>1. ~ (n - k < n - j)
      BY <1>2, <1>3, <1>4, <1>5, <1>6
    <2>2. QED
      BY <1>3, <2>1
  <1>8. QED
    BY <1>7

-----------------------------------------------------------------------------
(* The function of subsets that the sum is defined by.                     *)

ChosenOf(T) == CHOOSE x \in T : TRUE

NextSum(f, V, T) == IF T = {} THEN 0 ELSE f[ChosenOf(T)] + V[T \ {ChosenOf(T)}]

\* V sums f over every subset of S.
SumsOver(V, f, S) == V = [T \in SUBSET S |-> NextSum(f, V, T)]

\* CHOOSE takes an element of a set that has one.
LEMMA ChosenIsElement ==
  ASSUME NEW T, T # {}
  PROVE  ChosenOf(T) \in T
  BY DEF ChosenOf

\* SumFunctionOnSet is the value at S of a chosen function of subsets.
LEMMA SumIsChosen ==
  ASSUME NEW f, NEW S
  PROVE  SumFunctionOnSet(f, S) = (CHOOSE V : SumsOver(V, f, S))[S]
  BY DEF SumFunctionOnSet, FoldFunctionOnSet, MapThenFoldSet, SumsOver, NextSum, ChosenOf

\* A set without one of its elements is finite and smaller by one.
LEMMA SubsetsAreSmaller ==
  ASSUME NEW T, IsFiniteSet(T), NEW x \in T
  PROVE  /\ IsFiniteSet(T \ {x})
         /\ Cardinality(T \ {x}) \in Nat /\ Cardinality(T) \in Nat
         /\ Cardinality(T) = Cardinality(T \ {x}) + 1
  <1>1. IsFiniteSet(T \ {x}) /\ Cardinality(T \ {x}) = Cardinality(T) - 1
    BY FS_RemoveElement
  <1>2. Cardinality(T \ {x}) \in Nat /\ Cardinality(T) \in Nat
    BY <1>1, FS_CardinalityType
  <1>3. QED
    BY <1>1, <1>2

\* There is such a function.
LEMMA SumsExist ==
  ASSUME NEW S, IsFiniteSet(S), NEW f, \A x \in S : f[x] \in Int
  PROVE  \E V \in [SUBSET S -> Int] : SumsOver(V, f, S)
  <1> DEFINE UpTo(V, n) == \A T \in SUBSET S : Cardinality(T) <= n =>
                              V[T] = NextSum(f, V, T)
             N == {n \in Nat : \E V \in [SUBSET S -> Int] : UpTo(V, n)}
  <1>0. \A T \in SUBSET S : IsFiniteSet(T) /\ Cardinality(T) \in Nat
    BY FS_Subset, FS_CardinalityType
  <1>1. 0 \in N
    <2> DEFINE V == [T \in SUBSET S |-> 0]
    <2>1. \A T \in SUBSET S : Cardinality(T) <= 0 => T = {}
      BY <1>0, FS_EmptySet
    <2>2. UpTo(V, 0)
      BY <2>1 DEF NextSum
    <2>3. V \in [SUBSET S -> Int]
      OBVIOUS
    <2>4. QED
      BY <2>2, <2>3
  <1>2. ASSUME NEW n \in Nat, n \in N
        PROVE  n + 1 \in N
    <2>1. PICK V \in [SUBSET S -> Int] : UpTo(V, n)
      BY <1>2
    <2> DEFINE W == [T \in SUBSET S |-> NextSum(f, V, T)]
    <2>2. W \in [SUBSET S -> Int]
      <3> SUFFICES ASSUME NEW T \in SUBSET S PROVE NextSum(f, V, T) \in Int
        OBVIOUS
      <3>1. CASE T = {}
        BY <3>1 DEF NextSum
      <3>2. CASE T # {}
        BY <3>2, ChosenIsElement DEF NextSum
      <3>3. QED
        BY <3>1, <3>2
    <2>3. ASSUME NEW T \in SUBSET S, Cardinality(T) <= n + 1
          PROVE  W[T] = NextSum(f, W, T)
      <3>1. CASE T = {}
        BY <3>1 DEF NextSum
      <3>2. CASE T # {}
        <4> DEFINE U == T \ {ChosenOf(T)}
        <4>1. U \in SUBSET S /\ Cardinality(U) <= n
          BY <1>0, <2>3, <3>2, ChosenIsElement, SubsetsAreSmaller
        <4>2. V[U] = W[U]
          BY <2>1, <4>1
        <4>3. QED
          BY <3>2, <4>2 DEF NextSum
      <3>3. QED
        BY <3>1, <3>2
    <2>4. UpTo(W, n + 1)
      BY <2>3
    <2> HIDE DEF W
    <2>5. QED
      BY <2>2, <2>4
  <1>3. Nat \subseteq N
    <2> HIDE DEF N
    <2> QED BY <1>1, <1>2, NatSetInduction
  <1>4. PICK V \in [SUBSET S -> Int] : UpTo(V, Cardinality(S))
    BY <1>0, <1>3
  <1>5. \A T \in SUBSET S : V[T] = NextSum(f, V, T)
    BY <1>0, <1>4, FS_Subset
  <1>6. QED
    BY <1>4, <1>5 DEF SumsOver

\* Two of them agree where their functions do.
LEMMA SumsAgree ==
  ASSUME NEW S, NEW T, NEW f, NEW g, NEW V, NEW W, IsFiniteSet(T), T \subseteq S,
         \A x \in T : f[x] = g[x], SumsOver(V, f, S), SumsOver(W, g, T)
  PROVE  \A U \in SUBSET T : V[U] = W[U]
  <1> DEFINE N == {n \in Nat : \A U \in SUBSET T : Cardinality(U) = n => V[U] = W[U]}
  <1>0. \A U \in SUBSET T : IsFiniteSet(U) /\ Cardinality(U) \in Nat
    BY FS_Subset, FS_CardinalityType
  <1>1. \A U \in SUBSET T : /\ V[U] = NextSum(f, V, U) /\ W[U] = NextSum(g, W, U)
    BY DEF SumsOver
  <1>2. 0 \in N
    BY <1>0, <1>1, FS_EmptySet DEF NextSum
  <1>3. ASSUME NEW n \in Nat, n \in N
        PROVE  n + 1 \in N
    <2> SUFFICES ASSUME NEW U \in SUBSET T, Cardinality(U) = n + 1
                 PROVE  V[U] = W[U]
      OBVIOUS
    <2>1. U # {}
      BY FS_EmptySet
    <2>2. ChosenOf(U) \in U /\ U \ {ChosenOf(U)} \in SUBSET T
      BY <2>1, ChosenIsElement
    <2>3. Cardinality(U \ {ChosenOf(U)}) = n
      BY <1>0, <2>2, SubsetsAreSmaller
    <2>4. V[U \ {ChosenOf(U)}] = W[U \ {ChosenOf(U)}]
      BY <1>3, <2>2, <2>3
    <2>5. QED
      BY <1>1, <2>1, <2>2, <2>4 DEF NextSum
  <1>4. Nat \subseteq N
    <2> HIDE DEF N
    <2> QED BY <1>2, <1>3, NatSetInduction
  <1>5. QED
    BY <1>0, <1>4

\* Sums of integers are integers.
LEMMA SumsAreIntegers ==
  ASSUME NEW S, IsFiniteSet(S), NEW f, \A x \in S : f[x] \in Int,
         NEW V, SumsOver(V, f, S)
  PROVE  \A T \in SUBSET S : V[T] \in Int
  <1>1. PICK W \in [SUBSET S -> Int] : SumsOver(W, f, S)
    BY SumsExist
  <1>2. QED
    BY <1>1, SumsAgree

\* Any element may be taken first.
LEMMA SumsTakeAny ==
  ASSUME NEW S, IsFiniteSet(S), NEW f, \A x \in S : f[x] \in Int,
         NEW V, SumsOver(V, f, S), NEW T \in SUBSET S, NEW x \in T
  PROVE  V[T] = f[x] + V[T \ {x}]
  <1>1. \A U \in SUBSET S : V[U] \in Int
    BY SumsAreIntegers
  <1> DEFINE N == {n \in Nat : \A U \in SUBSET S : Cardinality(U) = n =>
                      \A y \in U : V[U] = f[y] + V[U \ {y}]}
  <1>0. \A U \in SUBSET S : IsFiniteSet(U) /\ Cardinality(U) \in Nat
    BY FS_Subset, FS_CardinalityType
  <1>2. \A U \in SUBSET S : V[U] = NextSum(f, V, U)
    BY DEF SumsOver
  <1>3. 0 \in N
    BY <1>0, FS_EmptySet
  <1>4. ASSUME NEW n \in Nat, n \in N
        PROVE  n + 1 \in N
    <2> SUFFICES ASSUME NEW U \in SUBSET S, Cardinality(U) = n + 1, NEW y \in U
                 PROVE  V[U] = f[y] + V[U \ {y}]
      OBVIOUS
    <2> DEFINE c == ChosenOf(U)
    <2>1. c \in U /\ V[U] = f[c] + V[U \ {c}]
      BY <1>2, ChosenIsElement DEF NextSum
    <2>2. CASE y = c
      BY <2>1, <2>2
    <2>3. CASE y # c
      <3>1. Cardinality(U \ {c}) = n /\ Cardinality(U \ {y}) = n
        BY <1>0, <2>1, SubsetsAreSmaller
      <3>2. /\ V[U \ {c}] = f[y] + V[(U \ {c}) \ {y}]
            /\ V[U \ {y}] = f[c] + V[(U \ {y}) \ {c}]
        BY <1>4, <2>1, <2>3, <3>1
      <3>3. (U \ {c}) \ {y} = (U \ {y}) \ {c}
        OBVIOUS
      <3>4. /\ f[y] \in Int /\ f[c] \in Int /\ V[(U \ {c}) \ {y}] \in Int
        BY <1>1, <2>1
      <3> DEFINE v == V[(U \ {c}) \ {y}]
      <3>5. /\ V[U] = f[c] + (f[y] + v)
            /\ V[U \ {y}] = f[c] + v
        BY <2>1, <3>2, <3>3
      <3> HIDE DEF c, v
      <3>6. v \in Int
        BY <3>4 DEF v
      <3>7. QED
        BY <3>4, <3>5, <3>6
    <2>4. QED
      BY <2>2, <2>3
  <1>5. Nat \subseteq N
    <2> HIDE DEF N
    <2> QED BY <1>3, <1>4, NatSetInduction
  <1>6. QED
    BY <1>0, <1>5

-----------------------------------------------------------------------------
(* Sums over a set.                                                        *)

\* SumFunctionOnSet is the value at S of a function that sums over every subset.
LEMMA SumIsOne ==
  ASSUME NEW S, IsFiniteSet(S), NEW f, \A x \in S : f[x] \in Int
  PROVE  \E V : SumsOver(V, f, S) /\ SumFunctionOnSet(f, S) = V[S]
  <1>1. \E V : SumsOver(V, f, S)
    BY SumsExist
  <1>2. SumsOver(CHOOSE V : SumsOver(V, f, S), f, S)
    BY <1>1
  <1>3. QED
    BY <1>2, SumIsChosen

\* A sum of integers is an integer.
LEMMA SumType ==
  ASSUME NEW S, IsFiniteSet(S), NEW f, \A x \in S : f[x] \in Int
  PROVE  SumFunctionOnSet(f, S) \in Int
  <1>1. PICK V : SumsOver(V, f, S) /\ SumFunctionOnSet(f, S) = V[S]
    BY SumIsOne
  <1>2. QED
    BY <1>1, SumsAreIntegers

\* The sum over no element is 0.
LEMMA SumOfNone ==
  ASSUME NEW f
  PROVE  SumFunctionOnSet(f, {}) = 0
  <1>1. PICK V : SumsOver(V, f, {}) /\ SumFunctionOnSet(f, {}) = V[{}]
    BY SumIsOne, FS_EmptySet
  <1>2. QED
    BY <1>1 DEF SumsOver, NextSum

\* A sum is the value of any one element and the sum over the others.
LEMMA SumWithout ==
  ASSUME NEW S, IsFiniteSet(S), NEW f, \A x \in S : f[x] \in Int, NEW x \in S
  PROVE  SumFunctionOnSet(f, S) = f[x] + SumFunctionOnSet(f, S \ {x})
  <1>1. IsFiniteSet(S \ {x})
    BY FS_RemoveElement
  <1>2. PICK V : SumsOver(V, f, S) /\ SumFunctionOnSet(f, S) = V[S]
    BY SumIsOne
  <1>3. PICK W : /\ SumsOver(W, f, S \ {x})
                 /\ SumFunctionOnSet(f, S \ {x}) = W[S \ {x}]
    BY <1>1, SumIsOne
  <1>4. V[S \ {x}] = W[S \ {x}]
    BY <1>1, <1>2, <1>3, SumsAgree
  <1>5. V[S] = f[x] + V[S \ {x}]
    BY <1>2, SumsTakeAny
  <1>6. QED
    BY <1>2, <1>3, <1>4, <1>5

\* Functions that agree on a set have the same sum over it.
LEMMA SumAgrees ==
  ASSUME NEW S, IsFiniteSet(S), NEW f, NEW g, \A x \in S : f[x] \in Int,
         \A x \in S : f[x] = g[x]
  PROVE  SumFunctionOnSet(f, S) = SumFunctionOnSet(g, S)
  <1>1. PICK V : SumsOver(V, f, S) /\ SumFunctionOnSet(f, S) = V[S]
    BY SumIsOne
  <1>2. PICK W : SumsOver(W, g, S) /\ SumFunctionOnSet(g, S) = W[S]
    BY SumIsOne
  <1>3. QED
    BY <1>1, <1>2, SumsAgree

-----------------------------------------------------------------------------
(* What the proofs of the models cite.                                     *)

\* What is added to a sum: nothing, or the value of an element of the set.
Share(f, S, x) == IF x \in S THEN f[x] ELSE 0

\* The sum with one element set apart, in the set or not.
LEMMA SumApart ==
  ASSUME NEW S, IsFiniteSet(S), NEW f, \A y \in S : f[y] \in Int, NEW x
  PROVE  /\ IsFiniteSet(S \ {x})
         /\ Share(f, S, x) \in Int
         /\ SumFunctionOnSet(f, S \ {x}) \in Int
         /\ SumFunctionOnSet(f, S) = SumFunctionOnSet(f, S \ {x}) + Share(f, S, x)
  <1>1. IsFiniteSet(S \ {x})
    BY FS_RemoveElement
  <1>2. SumFunctionOnSet(f, S \ {x}) \in Int
    BY <1>1, SumType
  <1>3. CASE x \in S
    BY <1>1, <1>2, <1>3, SumWithout DEF Share
  <1>4. CASE x \notin S
    <2>1. S \ {x} = S
      BY <1>4
    <2>2. SumFunctionOnSet(f, S \ {x}) = SumFunctionOnSet(f, S)
      BY <2>1, Zenon
    <2>3. Share(f, S, x) = 0
      BY <1>4 DEF Share
    <2> DEFINE a == SumFunctionOnSet(f, S \ {x})
               b == SumFunctionOnSet(f, S)
    <2>4. a \in Int /\ a = b
      BY <1>2, <2>2
    <2> HIDE DEF a, b
    <2>5. b = a + Share(f, S, x) /\ Share(f, S, x) \in Int
      BY <2>3, <2>4
    <2>6. QED
      BY <1>1, <1>2, <2>5 DEF a, b
  <1>5. QED
    BY <1>3, <1>4

\* Two functions that differ at one point have sums that differ by its values.
LEMMA SumChanges ==
  ASSUME NEW S, IsFiniteSet(S), NEW T, NEW x, S \ {x} = T \ {x},
         NEW f, NEW g, \A y \in S : f[y] \in Int, \A y \in T : g[y] \in Int,
         \A y \in S \ {x} : g[y] = f[y]
  PROVE  /\ IsFiniteSet(T)
         /\ SumFunctionOnSet(f, S) \in Int
         /\ SumFunctionOnSet(g, T) \in Int
         /\ Share(f, S, x) \in Int /\ Share(g, T, x) \in Int
         /\ SumFunctionOnSet(g, T)
               = SumFunctionOnSet(f, S) - Share(f, S, x) + Share(g, T, x)
  <1>1. IsFiniteSet(T)
    <2>1. IsFiniteSet(S \union {x})
      BY FS_AddElement
    <2>2. T \subseteq S \union {x}
      OBVIOUS
    <2>3. QED
      BY <2>1, <2>2, FS_Subset
  <1> DEFINE a == SumFunctionOnSet(f, S \ {x})
             b == SumFunctionOnSet(g, T \ {x})
             c == Share(f, S, x)
             d == Share(g, T, x)
  <1>2. /\ IsFiniteSet(S \ {x}) /\ a \in Int /\ c \in Int
        /\ SumFunctionOnSet(f, S) = a + c
    BY SumApart
  <1>3. b \in Int /\ d \in Int /\ SumFunctionOnSet(g, T) = b + d
    BY <1>1, SumApart
  <1>4. SumFunctionOnSet(f, S \ {x}) = SumFunctionOnSet(g, S \ {x})
    BY <1>2, SumAgrees
  <1>5. a = b
    BY <1>4
  <1> HIDE DEF a, b, c, d
  <1>6. QED
    BY <1>1, <1>2, <1>3, <1>5 DEF c, d

\* A sum of values that are not negative is not negative.
LEMMA SumIsNatural ==
  ASSUME NEW S, IsFiniteSet(S), NEW f, \A x \in S : f[x] \in Nat
  PROVE  SumFunctionOnSet(f, S) \in Nat
  <1>1. PICK V : SumsOver(V, f, S) /\ SumFunctionOnSet(f, S) = V[S]
    BY SumIsOne
  <1> DEFINE N == {n \in Nat : \A T \in SUBSET S :
                                 Cardinality(T) = n => V[T] \in Nat}
  <1>2. \A T \in SUBSET S : IsFiniteSet(T) /\ Cardinality(T) \in Nat
    BY FS_Subset, FS_CardinalityType
  <1>3. \A T \in SUBSET S : V[T] = NextSum(f, V, T)
    BY <1>1 DEF SumsOver
  <1>4. 0 \in N
    BY <1>2, <1>3, FS_EmptySet DEF NextSum
  <1>5. ASSUME NEW n \in Nat, n \in N
        PROVE  n + 1 \in N
    <2> SUFFICES ASSUME NEW T \in SUBSET S, Cardinality(T) = n + 1
                 PROVE  V[T] \in Nat
      OBVIOUS
    <2>1. T # {}
      BY FS_EmptySet
    <2>2. ChosenOf(T) \in T /\ T \ {ChosenOf(T)} \in SUBSET S
      BY <2>1, ChosenIsElement
    <2>3. Cardinality(T \ {ChosenOf(T)}) = n
      BY <1>2, <2>2, SubsetsAreSmaller
    <2>4. V[T \ {ChosenOf(T)}] \in Nat /\ f[ChosenOf(T)] \in Nat
      BY <1>5, <2>2, <2>3
    <2>5. V[T] = f[ChosenOf(T)] + V[T \ {ChosenOf(T)}]
      BY <1>3, <2>1 DEF NextSum
    <2>6. QED
      BY <2>4, <2>5
  <1>6. Nat \subseteq N
    <2> HIDE DEF N
    <2> QED BY <1>4, <1>5, NatSetInduction
  <1>7. QED
    BY <1>1, <1>2, <1>6

\* One of the values is at most the sum, when none is negative.
LEMMA SumBoundsEach ==
  ASSUME NEW S, IsFiniteSet(S), NEW f, \A y \in S : f[y] \in Nat, NEW x \in S
  PROVE  f[x] <= SumFunctionOnSet(f, S)
  <1>1. IsFiniteSet(S \ {x})
    BY FS_RemoveElement
  <1>2. SumFunctionOnSet(f, S \ {x}) \in Nat
    BY <1>1, SumIsNatural
  <1>3. SumFunctionOnSet(f, S) = f[x] + SumFunctionOnSet(f, S \ {x})
    BY SumWithout
  <1>4. QED
    BY <1>2, <1>3

\* A sum splits into the sums over a part of the set and over the rest.
LEMMA SumSplits ==
  ASSUME NEW S, IsFiniteSet(S), NEW f, \A x \in S : f[x] \in Int, NEW T \in SUBSET S
  PROVE  /\ SumFunctionOnSet(f, T) \in Int /\ SumFunctionOnSet(f, S \ T) \in Int
         /\ SumFunctionOnSet(f, S)
              = SumFunctionOnSet(f, T) + SumFunctionOnSet(f, S \ T)
  <1> DEFINE a(U) == SumFunctionOnSet(f, U)
             N == {n \in Nat : \A U \in SUBSET S :
                                  Cardinality(U) = n => a(S) = a(U) + a(S \ U)}
  <1>1. \A U \in SUBSET S : IsFiniteSet(U) /\ Cardinality(U) \in Nat
    BY FS_Subset, FS_CardinalityType
  <1>2. \A U \in SUBSET S : a(U) \in Int
    BY <1>1, SumType
  <1>3. \A U \in SUBSET S : \A x \in U : a(U) = f[x] + a(U \ {x})
    BY <1>1, SumWithout
  <1>4. a({}) = 0
    BY SumOfNone
  <1> HIDE DEF a
  <1>5. 0 \in N
    <2> SUFFICES ASSUME NEW U \in SUBSET S, Cardinality(U) = 0
                 PROVE  a(S) = a(U) + a(S \ U)
      OBVIOUS
    <2>1. U = {} /\ S \ {} = S
      BY <1>1, FS_EmptySet
    <2>2. a(U) = 0 /\ a(S \ U) = a(S)
      BY <1>4, <2>1
    <2>3. QED
      BY <1>2, <2>2
  <1>6. ASSUME NEW n \in Nat, n \in N
        PROVE  n + 1 \in N
    <2> SUFFICES ASSUME NEW U \in SUBSET S, Cardinality(U) = n + 1
                 PROVE  a(S) = a(U) + a(S \ U)
      OBVIOUS
    <2>1. U # {}
      BY FS_EmptySet
    <2>2. PICK x \in U : TRUE
      BY <2>1
    <2> DEFINE R == U \ {x}
    <2>3. R \in SUBSET S /\ Cardinality(R) = n
      BY <1>1, SubsetsAreSmaller
    <2>4. a(S) = a(R) + a(S \ R)
      BY <1>6, <2>3
    <2>5. x \in S \ R /\ (S \ R) \ {x} = S \ U
      OBVIOUS
    <2>6. a(S \ R) = f[x] + a(S \ U)
      BY <1>3, <2>5
    <2>7. a(U) = f[x] + a(R)
      BY <1>3
    <2>8. a(R) \in Int /\ a(S \ U) \in Int /\ f[x] \in Int
      BY <1>2, <2>3
    <2> HIDE DEF R
    <2>9. QED
      BY <2>4, <2>6, <2>7, <2>8
  <1>7. Nat \subseteq N
    <2> HIDE DEF N
    <2> QED BY <1>5, <1>6, NatSetInduction
  <1>8. a(S) = a(T) + a(S \ T)
    BY <1>1, <1>7
  <1>9. QED
    BY <1>2, <1>8 DEF a

-----------------------------------------------------------------------------
(* The same of SumFunction, the sum of a function over its domain.         *)

ValueAt(f, x) == IF x \in DOMAIN f THEN f[x] ELSE 0

\* Two functions that differ at one point, where either may be undefined.
LEMMA SumMoves ==
  ASSUME NEW f, NEW g, IsFiniteSet(DOMAIN f),
         NEW x, DOMAIN f \ {x} = DOMAIN g \ {x},
         \A y \in DOMAIN f : f[y] \in Int, \A y \in DOMAIN g : g[y] \in Int,
         \A y \in DOMAIN f \ {x} : g[y] = f[y]
  PROVE  /\ IsFiniteSet(DOMAIN g)
         /\ SumFunction(f) \in Int /\ SumFunction(g) \in Int
         /\ ValueAt(f, x) \in Int /\ ValueAt(g, x) \in Int
         /\ SumFunction(g) = SumFunction(f) - ValueAt(f, x) + ValueAt(g, x)
  BY SumChanges DEF SumFunction, ValueAt, Share

\* A sum of natural numbers is one, and no less than any of them.
LEMMA SumIsNat ==
  ASSUME NEW f, IsFiniteSet(DOMAIN f), \A y \in DOMAIN f : f[y] \in Nat
  PROVE  /\ SumFunction(f) \in Nat
         /\ \A y \in DOMAIN f : f[y] <= SumFunction(f)
  BY SumIsNatural, SumBoundsEach DEF SumFunction

\* A part of a sum of natural numbers is no greater.
LEMMA SumOfPart ==
  ASSUME NEW f, IsFiniteSet(DOMAIN f), \A y \in DOMAIN f : f[y] \in Nat,
         NEW g, DOMAIN g \subseteq DOMAIN f, \A y \in DOMAIN g : g[y] = f[y]
  PROVE  /\ SumFunction(g) \in Nat /\ SumFunction(f) \in Nat
         /\ SumFunction(g) <= SumFunction(f)
  <1> DEFINE S == DOMAIN f
             T == DOMAIN g
             a == SumFunctionOnSet(f, T)
             b == SumFunctionOnSet(f, S \ T)
  <1>1. IsFiniteSet(T) /\ IsFiniteSet(S \ T)
    BY FS_Subset
  <1>2. a \in Nat /\ b \in Nat
    BY <1>1, SumIsNatural
  <1>3. SumFunction(f) = a + b
    BY SumSplits DEF SumFunction
  <1>4. SumFunction(g) = a
    BY <1>1, SumAgrees DEF SumFunction
  <1> HIDE DEF a, b
  <1>5. QED
    BY <1>2, <1>3, <1>4

\* Two parts that make up a sum.
LEMMA SumOfParts ==
  ASSUME NEW f, IsFiniteSet(DOMAIN f), \A y \in DOMAIN f : f[y] \in Int,
         NEW T \in SUBSET DOMAIN f
  PROVE  SumFunction(f) = SumFunction([y \in DOMAIN f \ T |-> f[y]])
                            + SumFunction([y \in T |-> f[y]])
  <1> DEFINE S == DOMAIN f
             g == [y \in S \ T |-> f[y]]
             h == [y \in T |-> f[y]]
  <1>1. IsFiniteSet(T) /\ IsFiniteSet(S \ T)
    BY FS_Subset
  <1>2. /\ SumFunctionOnSet(f, T) \in Int /\ SumFunctionOnSet(f, S \ T) \in Int
        /\ SumFunction(f) = SumFunctionOnSet(f, T) + SumFunctionOnSet(f, S \ T)
    BY SumSplits DEF SumFunction
  <1>3. /\ DOMAIN h = T /\ \A y \in T : f[y] = h[y]
        /\ DOMAIN g = S \ T /\ \A y \in S \ T : f[y] = g[y]
        /\ \A y \in S : f[y] \in Int
    OBVIOUS
  <1> HIDE DEF g, h
  <1>4. SumFunction(h) = SumFunctionOnSet(f, T)
    BY <1>1, <1>3, SumAgrees DEF SumFunction
  <1>5. SumFunction(g) = SumFunctionOnSet(f, S \ T)
    BY <1>1, <1>3, SumAgrees DEF SumFunction
  <1>6. QED
    BY <1>2, <1>4, <1>5 DEF g, h

\* A sum of zeros is zero.
LEMMA SumOfZeros ==
  ASSUME NEW f, IsFiniteSet(DOMAIN f), \A y \in DOMAIN f : f[y] = 0
  PROVE  SumFunction(f) = 0
  <1> DEFINE S == DOMAIN f
             N == {n \in Nat : \A T \in SUBSET S :
                                  Cardinality(T) = n => SumFunctionOnSet(f, T) = 0}
  <1>1. \A T \in SUBSET S : /\ IsFiniteSet(T) /\ Cardinality(T) \in Nat
                            /\ \A x \in T : f[x] \in Int
    BY FS_Subset, FS_CardinalityType
  <1>2. 0 \in N
    <2>1. \A T \in SUBSET S : Cardinality(T) = 0 => T = {}
      BY <1>1, FS_EmptySet
    <2>2. QED
      BY <2>1, SumOfNone
  <1>3. ASSUME NEW n \in Nat, n \in N
        PROVE  n + 1 \in N
    <2>1. ASSUME NEW T \in SUBSET S, Cardinality(T) = n + 1
          PROVE  SumFunctionOnSet(f, T) = 0
      <3>1. T # {}
        BY <2>1, FS_EmptySet
      <3>2. PICK x \in T : TRUE
        BY <3>1
      <3>3. /\ Cardinality(T) = Cardinality(T \ {x}) + 1
            /\ Cardinality(T \ {x}) \in Nat
        BY <1>1, SubsetsAreSmaller
      <3>4. Cardinality(T \ {x}) = n
        BY <2>1, <3>3
      <3>5. SumFunctionOnSet(f, T \ {x}) = 0
        BY <1>3, <3>4
      <3>6. SumFunctionOnSet(f, T) = f[x] + SumFunctionOnSet(f, T \ {x})
        BY <1>1, SumWithout
      <3>7. QED
        BY <3>5, <3>6
    <2>2. QED
      BY <2>1
  <1>4. Nat \subseteq N
    BY <1>2, <1>3, NatSetInduction
  <1>5. QED
    BY <1>1, <1>4 DEF SumFunction

\* A sum of natural numbers that gets another one.
LEMMA SumGrows ==
  ASSUME NEW f, IsFiniteSet(DOMAIN f), \A y \in DOMAIN f : f[y] \in Nat,
         NEW x, x \notin DOMAIN f,
         NEW g, DOMAIN g = DOMAIN f \union {x}, g[x] \in Nat,
         \A y \in DOMAIN f : g[y] = f[y]
  PROVE  /\ SumFunction(f) \in Nat /\ SumFunction(g) \in Nat
         /\ SumFunction(g) = SumFunction(f) + g[x]
  <1>1. /\ DOMAIN f \ {x} = DOMAIN g \ {x}
        /\ \A y \in DOMAIN f : f[y] \in Int
        /\ \A y \in DOMAIN g : g[y] \in Int
        /\ \A y \in DOMAIN f \ {x} : g[y] = f[y]
    OBVIOUS
  <1>2. /\ SumFunction(f) \in Int
        /\ SumFunction(g) = SumFunction(f) - ValueAt(f, x) + ValueAt(g, x)
    BY <1>1, SumMoves
  <1>3. ValueAt(f, x) = 0 /\ ValueAt(g, x) = g[x]
    BY DEF ValueAt
  <1>4. SumFunction(f) \in Nat
    BY SumIsNat
  <1>5. SumFunction(g) = SumFunction(f) + g[x]
    BY <1>2, <1>3, <1>4
  <1>6. QED
    BY <1>4, <1>5

=============================================================================
