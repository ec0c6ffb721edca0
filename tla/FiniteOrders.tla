----------------------------- MODULE FiniteOrders -----------------------------
(***************************************************************************)
(* Facts about finite sets of numbers and finite sets in a total order,    *)
(* and about folds over lists, which the proofs about queues, lists and    *)
(* categories share.                                                       *)
(***************************************************************************)
EXTENDS Integers, FiniteSets, FiniteSetsExt, FiniteSetTheorems, WellFoundedInduction, TLAPS

-----------------------------------------------------------------------------
(* Finite sets of numbers.                                                 *)

(* A finite set of numbers that is not empty has a greatest element: what  *)
(* MAX(position) in store.ts relies on.                                    *)
LEMMA FiniteHasMax ==
  ASSUME NEW S \in SUBSET Int, IsFiniteSet(S), S # {}
  PROVE  \E m \in S : \A x \in S : x <= m
<1> DEFINE HasMax(T) == \E m \in T : \A x \in T : x <= m
           R == StrictSubsetOrdering(S)
           Bad == {T \in FiniteSubsetsOf(S) : T # {} /\ ~HasMax(T)}
<1>1. SUFFICES ASSUME Bad # {} PROVE FALSE
  <2>1. S \in FiniteSubsetsOf(S)
    BY DEF FiniteSubsetsOf
  <2> QED  BY <2>1
<1>2. IsWellFoundedOn(R, FiniteSubsetsOf(S))
  BY FS_StrictSubsetOrderingWellFounded
<1>3. \E T \in Bad : \A U \in Bad : ~ (<<U, T>> \in R)
  <2>1. Bad \subseteq FiniteSubsetsOf(S)
    OBVIOUS
  <2> HIDE DEF Bad, R
  <2> QED  BY <1>1, <1>2, <2>1, WFMin
<1>4. PICK T \in Bad : \A U \in Bad : ~ (<<U, T>> \in R)
  BY <1>3
<1>5. PICK x \in T : TRUE
  OBVIOUS
<1> DEFINE U == T \ {x}
<1>6. T \in SUBSET S /\ IsFiniteSet(T) /\ IsFiniteSet(U)
  BY FS_RemoveElement DEF FiniteSubsetsOf
<1>7. CASE U = {}
  <2>1. T = {x}
    BY <1>5, <1>7
  <2> QED  BY <2>1, <1>5, <1>6
<1>8. CASE U # {}
  <2>1. <<U, T>> \in R
    BY <1>5, <1>6 DEF StrictSubsetOrdering
  <2>2. U \in FiniteSubsetsOf(S)
    BY <1>6 DEF FiniteSubsetsOf
  <2>3. HasMax(U)
    BY <2>1, <2>2, <1>4, <1>8
  <2>4. PICK m \in U : \A y \in U : y <= m
    BY <2>3
  <2>5. m \in Int /\ x \in Int /\ T \in SUBSET Int
    BY <2>4, <1>5, <1>6
  <2>6. CASE x <= m
    BY <2>4, <2>5, <2>6, <1>4
  <2>7. CASE m < x
    <3>1. \A y \in T : y <= x
      BY <2>4, <2>5, <2>7
    <3> QED  BY <3>1, <1>5, <1>4
  <2> QED  BY <2>5, <2>6, <2>7
<1> QED  BY <1>7, <1>8

(* And a least one: the head of a queue. *)
LEMMA FiniteHasMin ==
  ASSUME NEW S \in SUBSET Int, IsFiniteSet(S), S # {}
  PROVE  \E m \in S : \A x \in S : m <= x
<1> DEFINE f == [x \in S |-> -x]
           N == {f[x] : x \in S}
<1>1. N \in SUBSET Int /\ N # {}
  <2>1. \A x \in S : x \in Int /\ f[x] = -x /\ f[x] \in Int
    OBVIOUS
  <2> HIDE DEF f
  <2> QED  BY <2>1
<1>2. IsFiniteSet(N)
  <2>1. f \in Surjection(S, N)
    BY DEF Surjection
  <2> HIDE DEF f, N
  <2> QED  BY <2>1, FS_Surjection
<1>3. PICK m \in N : \A y \in N : y <= m
  <2> HIDE DEF N
  <2> QED  BY <1>1, <1>2, FiniteHasMax
<1>4. PICK x \in S : m = -x
  OBVIOUS
<1>5. \A y \in S : -y <= -x
  BY <1>3, <1>4
<1> QED  BY <1>4, <1>5

(* A finite set that gains an element has more of them. *)
LEMMA LargerSet ==
  ASSUME NEW B, IsFiniteSet(B), NEW A \in SUBSET B, NEW x \in B, x \notin A
  PROVE  /\ Cardinality(A) \in Nat
         /\ Cardinality(B) \in Nat
         /\ Cardinality(A) < Cardinality(B)
<1>1. IsFiniteSet(A) /\ Cardinality(A) <= Cardinality(B) /\ Cardinality(A) # Cardinality(B)
  BY FS_Subset
<1>2. Cardinality(A) \in Nat /\ Cardinality(B) \in Nat
  BY <1>1, FS_CardinalityType
<1> QED  BY <1>1, <1>2

-----------------------------------------------------------------------------
(***************************************************************************)
(* Counting those that come before, in a finite set in a total order.      *)
(***************************************************************************)

Preceding(S, R, u) == {v \in S : <<v, u>> \in R}
Standing(S, R) == [u \in S |-> Cardinality(Preceding(S, R, u))]

TotallyOrders(S, R) ==
    /\ \A u \in S : <<u, u>> \in R
    /\ \A u, v \in S : <<u, v>> \in R \/ <<v, u>> \in R
    /\ \A u, v \in S : <<u, v>> \in R /\ <<v, u>> \in R => u = v
    /\ \A u, v, w \in S : <<u, v>> \in R /\ <<v, w>> \in R => <<u, w>> \in R

\* The ranks in a totally ordered set of n are 1..n, each one once.
LEMMA StandingsAreDense ==
    ASSUME NEW S, IsFiniteSet(S), NEW R, TotallyOrders(S, R)
    PROVE  /\ \A u \in S : Standing(S, R)[u] \in 1..Cardinality(S)
           /\ \A u, v \in S : Standing(S, R)[u] = Standing(S, R)[v] => u = v
           /\ \A k \in 1..Cardinality(S) : \E u \in S : Standing(S, R)[u] = k
<1> DEFINE n == Cardinality(S)
           f == Standing(S, R)
<1>1. n \in Nat
  BY FS_CardinalityType
<1>2. \A u \in S : /\ f[u] = Cardinality(Preceding(S, R, u))
                   /\ Preceding(S, R, u) \in SUBSET S
                   /\ IsFiniteSet(Preceding(S, R, u))
                   /\ u \in Preceding(S, R, u)
                   /\ f[u] \in Nat /\ f[u] <= n
  <2> TAKE u \in S
  <2>1. f[u] = Cardinality(Preceding(S, R, u))
    BY DEF Standing
  <2>2. Preceding(S, R, u) \in SUBSET S /\ u \in Preceding(S, R, u)
    BY DEF Preceding, TotallyOrders
  <2>3. IsFiniteSet(Preceding(S, R, u)) /\ Cardinality(Preceding(S, R, u)) <= n
    BY <2>2, FS_Subset
  <2>4. Cardinality(Preceding(S, R, u)) \in Nat
    BY <2>3, FS_CardinalityType
  <2> QED BY <2>1, <2>2, <2>3, <2>4
<1>3. \A u \in S : f[u] \in 1..n
  <2> TAKE u \in S
  <2>1. f[u] # 0
    BY <1>2, FS_EmptySet
  <2> HIDE DEF f, n
  <2> QED BY <2>1, <1>1, <1>2
<1>4. \A u, v \in S : <<u, v>> \in R /\ u # v => f[u] # f[v]
  <2> SUFFICES ASSUME NEW u \in S, NEW v \in S, <<u, v>> \in R, u # v, f[u] = f[v]
               PROVE  FALSE
    OBVIOUS
  <2>1. Preceding(S, R, u) \in SUBSET Preceding(S, R, v)
    BY DEF Preceding, TotallyOrders
  <2>2. v \in Preceding(S, R, v) /\ v \notin Preceding(S, R, u)
    BY DEF Preceding, TotallyOrders
  <2>3. Cardinality(Preceding(S, R, v)) = Cardinality(Preceding(S, R, u))
    BY <1>2
  <2>4. Preceding(S, R, v) = Preceding(S, R, u)
    BY <2>1, <2>3, <1>2, FS_Subset
  <2> QED BY <2>2, <2>4
<1>5. \A u, v \in S : f[u] = f[v] => u = v
  BY <1>4 DEF TotallyOrders
<1>6. f \in Injection(S, 1..n)
  <2>1. f \in [S -> 1..n]
    BY <1>3 DEF Standing
  <2> QED BY <2>1, <1>5 DEF Injection, IsInjective
<1>7. IsFiniteSet(1..n) /\ Cardinality(1..n) = n
  <2> HIDE DEF n
  <2>1. /\ IsFiniteSet(1..n)
        /\ Cardinality(1..n) = IF 1 > n THEN 0 ELSE n - 1 + 1
    BY <1>1, FS_Interval
  <2> QED BY <2>1, <1>1
<1>8. f \in Surjection(S, 1..n)
  BY <1>6, <1>7, FS_Injection
<1>9. \A k \in 1..n : \E u \in S : f[u] = k
  BY <1>8, <1>3 DEF Surjection
<1> QED BY <1>3, <1>5, <1>9

(* Some numbers have a smallest: what holds of all is what has no first    *)
(* exception.                                                              *)
LEMMA SmallestOf ==
  ASSUME NEW S \in SUBSET Nat, S # {}
  PROVE  \E n \in S : \A k \in S : n <= k
<1> DEFINE R == OpToRel(<, Nat)
<1>1. IsWellFoundedOn(R, Nat)
  BY NatLessThanWellFounded
<1>2. \A x, y \in Nat : x < y => <<x, y>> \in R
  BY DEF OpToRel
<1> HIDE DEF R
<1>3. PICK n \in S : \A k \in S : <<k, n>> \notin R
  BY <1>1, WFMin
<1>4. \A k \in S : ~(k < n)
  BY <1>2, <1>3
<1>5. n \in Nat /\ \A k \in S : k \in Nat
  BY <1>3
<1> QED  BY <1>3, <1>4, <1>5

-----------------------------------------------------------------------------
(* A fold over a list goes from its first entry to its last.               *)

IsFold(f, n, V, base, g) ==
    f \in [SUBSET (1..n) -> V]
      /\ \A S \in SUBSET (1..n) : f[S] = IF S = {} THEN base ELSE g[<<f[S \ {Max(S)}], Max(S)>>]

LEMMA MaxOfSome ==
  ASSUME NEW n \in Nat, NEW S \in SUBSET (1..n), n \in S
  PROVE  Max(S) = n
<1>1. n \in S /\ \A y \in S : n >= y
  OBVIOUS
<1>2. \A x \in S : (\A y \in S : x >= y) => x = n
  <2>1. ASSUME NEW x \in S, \A y \in S : x >= y PROVE x = n
    <3>1. x >= n /\ x \in 1..n
      BY <2>1
    <3> QED  BY <3>1
  <2> QED  BY <2>1
<1> QED  BY <1>1, <1>2, Zenon DEF Max

(* The largest of some numbers up to n is one of them.                     *)
LEMMA MaxIsOne ==
  ASSUME NEW n \in Nat, NEW S \in SUBSET (1..n), S # {}
  PROVE  Max(S) \in S
<1>1. S \in SUBSET Int /\ IsFiniteSet(S)
  <2>1. IsFiniteSet(1..n) /\ S \in SUBSET (1..n)
    BY FS_Interval
  <2>2. IsFiniteSet(S)
    BY <2>1, FS_Subset
  <2> QED  BY <2>2
<1>2. PICK m \in S : \A x \in S : x <= m
  BY <1>1, FiniteHasMax
<1>3. \A y \in S : m >= y
  BY <1>1, <1>2
<1> QED  BY <1>3 DEF Max

LEMMA FoldsExist ==
  ASSUME NEW n \in Nat, NEW V, NEW base \in V, NEW g \in [V \X (1..n) -> V]
  PROVE  \A m \in 0..n : \E f : IsFold(f, m, V, base, g)
<1> DEFINE Bad == {m \in 0..n : ~\E f : IsFold(f, m, V, base, g)}
<1>1. SUFFICES ASSUME Bad # {} PROVE FALSE
  OBVIOUS
<1>2. Bad \in SUBSET Nat
  OBVIOUS
<1>3. PICK m \in Bad : \A k \in Bad : m <= k
  BY <1>1, <1>2, SmallestOf
<1>4. CASE m = 0
  <2> DEFINE f == [S \in SUBSET (1..0) |-> base]
  <2>1. f \in [SUBSET (1..0) -> V] /\ \A S \in SUBSET (1..0) : S = {} /\ f[S] = base
    OBVIOUS
  <2>2. IsFold(f, 0, V, base, g)
    BY <2>1 DEF IsFold
  <2> QED  BY <1>3, <1>4, <2>2
<1>5. CASE m # 0
  <2>1. m \in 1..n /\ m - 1 \in 0..n /\ m - 1 \notin Bad
    BY <1>3, <1>5
  <2>2. PICK e : IsFold(e, m - 1, V, base, g)
    BY <2>1
  <2>3. e \in [SUBSET (1..(m - 1)) -> V]
    BY <2>2 DEF IsFold
  <2> DEFINE f == [S \in SUBSET (1..m) |-> IF m \in S THEN g[<<e[S \ {m}], m>>] ELSE e[S]]
  <2>4. ASSUME NEW S \in SUBSET (1..m)
        PROVE  S \ {m} \in SUBSET (1..(m - 1)) /\ (m \notin S => S \in SUBSET (1..(m - 1)))
    BY <2>1
  <2>5. ASSUME NEW S \in SUBSET (1..m) PROVE f[S] \in V
    <3>1. e[S \ {m}] \in V /\ (m \notin S => e[S] \in V)
      BY <2>3, <2>4
    <3> QED  BY <3>1, <2>1
  <2>6. \A S \in SUBSET (1..(m - 1)) : S \in SUBSET (1..m) /\ m \notin S
    BY <2>1
  <2>7. \A S \in SUBSET (1..(m - 1)) : f[S] = e[S]
    BY <2>6
  <2>8. ASSUME NEW S \in SUBSET (1..m)
        PROVE  f[S] = IF S = {} THEN base ELSE g[<<f[S \ {Max(S)}], Max(S)>>]
    <3>1. CASE m \in S
      <4>1. Max(S) = m
        BY <2>1, <3>1, MaxOfSome
      <4>2. f[S] = g[<<e[S \ {m}], m>>] /\ f[S \ {m}] = e[S \ {m}]
        BY <3>1, <2>4, <2>7
      <4> QED  BY <3>1, <4>1, <4>2
    <3>2. CASE m \notin S
      <4>1. S \in SUBSET (1..(m - 1)) /\ S \ {Max(S)} \in SUBSET (1..(m - 1))
        BY <3>2, <2>4
      <4>2. f[S] = e[S] /\ f[S \ {Max(S)}] = e[S \ {Max(S)}]
        BY <2>7, <4>1
      <4> HIDE DEF f
      <4>3. e[S] = IF S = {} THEN base ELSE g[<<e[S \ {Max(S)}], Max(S)>>]
        BY <2>2, <4>1 DEF IsFold
      <4> QED  BY <4>2, <4>3
    <3> QED  BY <3>1, <3>2
  <2>9. f \in [SUBSET (1..m) -> V]
    BY <2>5
  <2> HIDE DEF f
  <2>10. IsFold(f, m, V, base, g)
    BY <2>8, <2>9 DEF IsFold
  <2> QED  BY <1>3, <2>10
<1> QED  BY <1>4, <1>5

(* What a fold has after k entries.                                        *)
LEMMA FoldSteps ==
  ASSUME NEW n \in Nat, NEW V, NEW base \in V, NEW g \in [V \X (1..n) -> V],
         NEW f, IsFold(f, n, V, base, g)
  PROVE  /\ f[{}] = base
         /\ \A k \in 1..n : f[1..(k - 1)] \in V /\ f[1..k] = g[<<f[1..(k - 1)], k>>]
<1>1. f[{}] = base
  BY DEF IsFold
<1>2. ASSUME NEW k \in 1..n
      PROVE  f[1..(k - 1)] \in V /\ f[1..k] = g[<<f[1..(k - 1)], k>>]
  <2>1. 1..k \in SUBSET (1..n) /\ 1..(k - 1) \in SUBSET (1..n) /\ k \in 1..k /\ k \in Nat
    OBVIOUS
  <2>2. (1..k) \ {k} = 1..(k - 1) /\ 1..k # {}
    OBVIOUS
  <2>3. Max(1..k) = k
    BY <2>1, MaxOfSome
  <2>4. f[1..k] = g[<<f[(1..k) \ {Max(1..k)}], Max(1..k)>>] /\ f[1..(k - 1)] \in V
    BY <2>1, <2>2 DEF IsFold
  <2> QED  BY <2>2, <2>3, <2>4
<1> QED  BY <1>1, <1>2
=============================================================================
