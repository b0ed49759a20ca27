------------------------- MODULE ShortestPathProofs -------------------------
(***************************************************************************)
(* What the recursive definition of Ball computes, for every graph: the    *)
(* equation it satisfies, and that balls grow, stay inside the graph, grow *)
(* with the graph, and stop growing after as many hops as there are        *)
(* vertices.                                                               *)
(***************************************************************************)
EXTENDS ShortestPaths, FiniteSetTheorems, WellFoundedInduction, TLAPS

\* A set of naturals that is not empty has a least member.
LEMMA LeastNumber ==
  ASSUME NEW T, T \subseteq Nat, T # {}
  PROVE  \E n \in T : \A m \in T : n <= m
  <1> DEFINE R == {ss \in Nat \X Nat : ss[1] < ss[2]}
  <1>1. OpToRel(<, Nat) = R
    BY DEF OpToRel
  <1>2. IsWellFoundedOn(R, Nat)
    BY <1>1, NatLessThanWellFounded
  <1> HIDE DEF R
  <1>3. PICK n \in T : \A m \in T : ~(<<m, n>> \in R)
    BY <1>2, WFMin
  <1>4. ASSUME NEW m \in T PROVE n <= m
    <2>1. m \in Nat /\ n \in Nat /\ ~(<<m, n>> \in R)
      BY <1>3
    <2>2. m < n => <<m, n>> \in R
      BY <2>1 DEF R
    <2> QED BY <2>1, <2>2
  <1> QED BY <1>3, <1>4

\* Induction, for a set in the place of a predicate.
LEMMA SetInduction ==
  ASSUME NEW T, 0 \in T, \A n \in Nat : n \in T => n + 1 \in T
  PROVE  Nat \subseteq T
  <1> DEFINE U == Nat \ T
  <1> SUFFICES ASSUME U # {} PROVE FALSE
    OBVIOUS
  <1>1. PICK n \in U : \A m \in U : n <= m
    BY LeastNumber
  <1>2. n # 0
    OBVIOUS
  <1>3. n - 1 \in Nat /\ n - 1 \notin U
    BY <1>1, <1>2
  <1> QED BY <1>3, <1>1

-----------------------------------------------------------------------------
\* h is what Ball(g, S) should be, up to n hops.
Grows(g, S, h, n) == h[0] = S /\ \A d \in 1..n : h[d] = Widen(g, h[d - 1])

LEMMA GrowsExists ==
  ASSUME NEW g, NEW S
  PROVE  \A n \in Nat : \E h : Grows(g, S, h, n)
  <1> DEFINE T == {n \in Nat : \E h : Grows(g, S, h, n)}
  <1>1. 0 \in T
    <2>1. Grows(g, S, [d \in {0} |-> S], 0)
      BY DEF Grows
    <2> QED BY <2>1
  <1>2. ASSUME NEW n \in Nat, n \in T PROVE n + 1 \in T
    <2>1. PICK h : Grows(g, S, h, n)
      BY <1>2
    <2> DEFINE hh == [d \in 0..(n + 1) |-> IF d <= n THEN h[d] ELSE Widen(g, h[n])]
    <2>2. hh[0] = S
      BY <2>1 DEF Grows
    <2>3. ASSUME NEW d \in 1..(n + 1) PROVE hh[d] = Widen(g, hh[d - 1])
      <3>1. hh[d - 1] = h[d - 1]
        OBVIOUS
      <3>2. CASE d <= n
        BY <3>1, <3>2, <2>1 DEF Grows
      <3>3. CASE d = n + 1
        BY <3>1, <3>3
      <3> QED BY <3>2, <3>3
    <2> HIDE DEF hh
    <2>4. Grows(g, S, hh, n + 1)
      BY <2>2, <2>3 DEF Grows
    <2> QED BY <2>4
  <1> HIDE DEF T
  <1>3. Nat \subseteq T
    BY <1>1, <1>2, SetInduction
  <1> QED BY <1>3 DEF T

LEMMA GrowsUnique ==
  ASSUME NEW g, NEW S, NEW h, NEW hh, NEW n \in Nat, NEW m \in Nat,
         Grows(g, S, h, n), Grows(g, S, hh, m)
  PROVE  \A d \in Nat : d <= n /\ d <= m => h[d] = hh[d]
  <1> DEFINE T == {d \in Nat : d <= n /\ d <= m => h[d] = hh[d]}
  <1>1. 0 \in T
    BY DEF Grows
  <1>2. ASSUME NEW d \in Nat, d \in T PROVE d + 1 \in T
    <2> SUFFICES ASSUME d + 1 <= n, d + 1 <= m PROVE h[d + 1] = hh[d + 1]
      OBVIOUS
    <2>1. d + 1 \in 1..n /\ d + 1 \in 1..m /\ (d + 1) - 1 = d
      OBVIOUS
    <2>2. h[d] = hh[d]
      BY <1>2
    <2> QED BY <2>1, <2>2 DEF Grows
  <1> HIDE DEF T
  <1>3. Nat \subseteq T
    BY <1>1, <1>2, SetInduction
  <1> QED BY <1>3 DEF T

\* Ball satisfies its recursion equation.
LEMMA BallEquation ==
  ASSUME NEW g, NEW S
  PROVE  /\ Ball(g, S)[0] = S
         /\ \A d \in Nat : Ball(g, S)[d + 1] = Widen(g, Ball(g, S)[d])
  <1> DEFINE Good(h, n) == Grows(g, S, h, n)
             pick(n) == CHOOSE h : Good(h, n)
             F == [d \in Nat |-> pick(d)[d]]
             Eq(f) == f = [d \in Nat |-> IF d = 0 THEN S ELSE Widen(g, f[d - 1])]
  <1>1. \A n \in Nat : Good(pick(n), n)
    BY GrowsExists
  <1>2. F[0] = S
    BY <1>1 DEF Grows
  <1>3. ASSUME NEW d \in Nat, d # 0 PROVE F[d] = Widen(g, F[d - 1])
    <2> DEFINE h == pick(d)
    <2>1. d - 1 \in Nat /\ d \in 1..d /\ d - 1 <= d
      BY <1>3
    <2>2. Good(h, d) /\ Good(pick(d - 1), d - 1)
      BY <1>1, <2>1
    <2> HIDE DEF pick, h
    <2>3. h[d - 1] = pick(d - 1)[d - 1]
      BY <2>1, <2>2, GrowsUnique
    <2>4. h[d] = Widen(g, h[d - 1])
      BY <2>1, <2>2 DEF Grows
    <2> QED BY <2>1, <2>3, <2>4 DEF h
  <1> HIDE DEF pick
  <1>4. Eq(F)
    <2> DEFINE G == [d \in Nat |-> IF d = 0 THEN S ELSE Widen(g, F[d - 1])]
    <2>1. \A d \in Nat : F[d] = G[d]
      BY <1>2, <1>3
    <2>2. F = G
      BY <2>1
    <2> QED BY <2>2
  <1>5. Ball(g, S) = CHOOSE f : Eq(f)
    BY DEF Ball
  <1> HIDE DEF F
  <1>6. Eq(Ball(g, S))
    BY <1>4, <1>5
  <1> DEFINE B == Ball(g, S)
  <1>7. B = [d \in Nat |-> IF d = 0 THEN S ELSE Widen(g, B[d - 1])]
    BY <1>6
  <1> HIDE DEF B
  <1>8. B[0] = S
    BY <1>7
  <1>9. ASSUME NEW d \in Nat PROVE B[d + 1] = Widen(g, B[d])
    <2>1. d + 1 \in Nat /\ d + 1 # 0 /\ (d + 1) - 1 = d
      OBVIOUS
    <2>2. B[d + 1] = Widen(g, B[(d + 1) - 1])
      BY <1>7, <2>1
    <2> QED BY <2>1, <2>2
  <1> QED BY <1>8, <1>9 DEF B

-----------------------------------------------------------------------------
\* A ball contains the smaller ones.
LEMMA BallGrows ==
  ASSUME NEW g, NEW S, NEW d \in Nat, NEW e \in Nat, d <= e
  PROVE  Ball(g, S)[d] \subseteq Ball(g, S)[e]
  <1> DEFINE B == Ball(g, S)
             T == {n \in Nat : B[d] \subseteq B[d + n]}
  <1>1. 0 \in T
    OBVIOUS
  <1>2. ASSUME NEW n \in Nat, n \in T PROVE n + 1 \in T
    <2>1. B[d + n] \subseteq B[(d + n) + 1]
      BY BallEquation DEF Widen
    <2>2. (d + n) + 1 = d + (n + 1)
      OBVIOUS
    <2> HIDE DEF B
    <2> QED BY <1>2, <2>1, <2>2
  <1> HIDE DEF T
  <1>3. Nat \subseteq T
    BY <1>1, <1>2, SetInduction
  <1>4. e - d \in Nat /\ d + (e - d) = e
    OBVIOUS
  <1>5. e - d \in T
    BY <1>3, <1>4
  <1> QED BY <1>4, <1>5 DEF T

\* What starts in a set that is closed under g stays there.
LEMMA BallClosed ==
  ASSUME NEW g, NEW S, NEW C, S \subseteq C, \A k \in C \cap DOMAIN g : g[k] \subseteq C
  PROVE  \A d \in Nat : Ball(g, S)[d] \subseteq C
  <1> DEFINE B == Ball(g, S)
             T == {d \in Nat : B[d] \subseteq C}
  <1>1. 0 \in T
    BY BallEquation
  <1>2. ASSUME NEW d \in Nat, d \in T PROVE d + 1 \in T
    <2>1. B[d + 1] = Widen(g, B[d])
      BY BallEquation
    <2> HIDE DEF B
    <2> QED BY <1>2, <2>1 DEF Widen
  <1> HIDE DEF T
  <1>3. Nat \subseteq T
    BY <1>1, <1>2, SetInduction
  <1> QED BY <1>3 DEF T

\* A larger graph and more to start from give larger balls.
LEMMA BallMonotone ==
  ASSUME NEW g, NEW h, NEW S, NEW R, S \subseteq R,
         DOMAIN g \subseteq DOMAIN h, \A k \in DOMAIN g : g[k] \subseteq h[k]
  PROVE  \A d \in Nat : Ball(g, S)[d] \subseteq Ball(h, R)[d]
  <1> DEFINE B == Ball(g, S)
             C == Ball(h, R)
             T == {d \in Nat : B[d] \subseteq C[d]}
  <1>1. 0 \in T
    BY BallEquation
  <1>2. ASSUME NEW d \in Nat, d \in T PROVE d + 1 \in T
    <2>1. B[d + 1] = Widen(g, B[d]) /\ C[d + 1] = Widen(h, C[d])
      BY BallEquation
    <2> HIDE DEF B, C
    <2> QED BY <1>2, <2>1 DEF Widen
  <1> HIDE DEF T
  <1>3. Nat \subseteq T
    BY <1>1, <1>2, SetInduction
  <1> QED BY <1>3 DEF T

\* A neighbor is one hop farther.
LEMMA BallNeighbor ==
  ASSUME NEW g, NEW S, NEW d \in Nat, NEW k \in DOMAIN g, k \in Ball(g, S)[d], NEW j \in g[k]
  PROVE  j \in Ball(g, S)[d + 1]
  BY BallEquation DEF Widen

\* From a point in the first ball it is one hop less.
LEMMA BallShift ==
  ASSUME NEW g, NEW S, NEW j, j \in Ball(g, S)[1]
  PROVE  \A d \in Nat : Ball(g, {j})[d] \subseteq Ball(g, S)[d + 1]
  <1> DEFINE A == Ball(g, {j})
             B == Ball(g, S)
             T == {d \in Nat : A[d] \subseteq B[d + 1]}
  <1>1. 0 \in T
    BY BallEquation
  <1>2. ASSUME NEW d \in Nat, d \in T PROVE d + 1 \in T
    <2>1. A[d + 1] = Widen(g, A[d]) /\ B[(d + 1) + 1] = Widen(g, B[d + 1])
      BY BallEquation
    <2> HIDE DEF A, B
    <2>2. Widen(g, A[d]) \subseteq Widen(g, B[d + 1])
      BY <1>2 DEF Widen
    <2> QED BY <2>1, <2>2
  <1> HIDE DEF T
  <1>3. Nat \subseteq T
    BY <1>1, <1>2, SetInduction
  <1> QED BY <1>3 DEF T

-----------------------------------------------------------------------------
\* g is a graph on the finite set V.
IsGraph(g, V) == IsFiniteSet(V) /\ DOMAIN g = V /\ \A k \in V : g[k] \subseteq V

\* The balls around S are subsets of the graph.
LEMMA BallInGraph ==
  ASSUME NEW V, NEW g, IsGraph(g, V), NEW S, S \subseteq V, NEW d \in Nat
  PROVE  /\ Ball(g, S)[d] \subseteq V
         /\ IsFiniteSet(Ball(g, S)[d])
         /\ Cardinality(Ball(g, S)[d]) \in Nat
         /\ Cardinality(Ball(g, S)[d]) <= Cardinality(V)
  <1>1. Ball(g, S)[d] \subseteq V
    BY BallClosed DEF IsGraph
  <1> QED BY <1>1, FS_Subset, FS_CardinalityType DEF IsGraph

\* Every hop adds a system until one adds none.
LEMMA BallCardinality ==
  ASSUME NEW V, NEW g, IsGraph(g, V), NEW S, S \subseteq V
  PROVE  \A d \in Nat : \/ Ball(g, S)[d + 1] = Ball(g, S)[d]
                        \/ d + 1 <= Cardinality(Ball(g, S)[d + 1])
  <1> DEFINE B == Ball(g, S)
             T == {d \in Nat : B[d + 1] = B[d] \/ d + 1 <= Cardinality(B[d + 1])}
  <1>1. ASSUME NEW d \in Nat, B[d + 1] # B[d]
        PROVE  Cardinality(B[d]) + 1 <= Cardinality(B[d + 1])
    <2>1. B[d] \subseteq B[d + 1]
      BY BallGrows
    <2>2. /\ IsFiniteSet(B[d]) /\ IsFiniteSet(B[d + 1])
          /\ Cardinality(B[d]) \in Nat /\ Cardinality(B[d + 1]) \in Nat
      BY BallInGraph
    <2> HIDE DEF B
    <2>3. Cardinality(B[d]) < Cardinality(B[d + 1])
      BY <1>1, <2>1, <2>2, FS_Subset
    <2> QED BY <2>2, <2>3
  <1>2. 0 \in T
    <2>1. Cardinality(B[0]) \in Nat /\ Cardinality(B[0 + 1]) \in Nat
      BY BallInGraph
    <2> QED BY <1>1, <2>1
  <1>3. ASSUME NEW d \in Nat, d \in T PROVE d + 1 \in T
    <2> SUFFICES ASSUME B[(d + 1) + 1] # B[d + 1]
                 PROVE  (d + 1) + 1 <= Cardinality(B[(d + 1) + 1])
      OBVIOUS
    <2>1. B[(d + 1) + 1] = Widen(g, B[d + 1]) /\ B[d + 1] = Widen(g, B[d])
      BY BallEquation
    <2>2. Cardinality(B[d + 1]) \in Nat /\ Cardinality(B[(d + 1) + 1]) \in Nat
      BY BallInGraph
    <2>3. Cardinality(B[d + 1]) + 1 <= Cardinality(B[(d + 1) + 1])
      BY <1>1
    <2> HIDE DEF B
    <2>4. B[d + 1] # B[d]
      BY <2>1
    <2>5. d + 1 <= Cardinality(B[d + 1])
      BY <1>3, <2>4
    <2> QED BY <2>2, <2>3, <2>5
  <1> HIDE DEF T
  <1>4. Nat \subseteq T
    BY <1>2, <1>3, SetInduction
  <1> QED BY <1>4 DEF T

\* Whatever can be reached is reached within as many hops as there are systems.
LEMMA ReachableIsAll ==
  ASSUME NEW V, NEW g, IsGraph(g, V), NEW S, S \subseteq V, NEW d \in Nat
  PROVE  Ball(g, S)[d] \subseteq Reachable(g, S)
  <1> DEFINE B == Ball(g, S)
             N == Cardinality(V)
  <1>1. N \in Nat
    BY FS_CardinalityType DEF IsGraph
  <1>2. B[N + 1] = B[N]
    <2>1. Cardinality(B[N + 1]) \in Nat /\ Cardinality(B[N + 1]) <= N
      BY <1>1, BallInGraph
    <2>2. B[N + 1] = B[N] \/ N + 1 <= Cardinality(B[N + 1])
      BY <1>1, BallCardinality
    <2> QED BY <1>1, <2>1, <2>2
  <1>3. B[N + 1] = Widen(g, B[N])
    BY <1>1, BallEquation
  <1>4. S \subseteq B[N]
    BY <1>1, BallGrows, BallEquation
  <1>5. \A k \in B[N] \cap DOMAIN g : g[k] \subseteq B[N]
    BY <1>2, <1>3 DEF Widen
  <1>6. B[d] \subseteq B[N]
    BY <1>4, <1>5, BallClosed
  <1> QED BY <1>6 DEF Reachable, IsGraph

\* Nothing else is in Reachable.
LEMMA ReachableInBall ==
  ASSUME NEW V, NEW g, IsGraph(g, V), NEW S, S \subseteq V
  PROVE  \E d \in Nat : Reachable(g, S) = Ball(g, S)[d]
  BY FS_CardinalityType DEF Reachable, IsGraph

\* Distance finds the least number of hops.
LEMMA DistanceIsLeast ==
  ASSUME NEW V, NEW g, IsGraph(g, V), NEW S, S \subseteq V, NEW d \in Nat, NEW k,
         k \in Ball(g, S)[d], \A e \in Nat : e < d => k \notin Ball(g, S)[e]
  PROVE  Distance(g, S, k) = d
  <1> DEFINE N == Cardinality(DOMAIN g)
             Least(n) == k \in Ball(g, S)[n] /\ \A e \in 0..(n - 1) : k \notin Ball(g, S)[e]
  <1>1. N \in Nat /\ N = Cardinality(V)
    BY FS_CardinalityType DEF IsGraph
  <1>2. d <= N
    <2>1. k \in Ball(g, S)[N]
      BY ReachableIsAll DEF Reachable
    <2> QED BY <1>1, <2>1
  <1>3. d \in 0..N /\ Least(d)
    BY <1>1, <1>2
  <1>4. ASSUME NEW n \in 0..N, Least(n) PROVE n = d
    <2>1. n \in Nat /\ ~(n < d)
      BY <1>1, <1>4
    <2>2. ~(d < n)
      BY <1>1, <1>4, <2>1
    <2> QED BY <2>1, <2>2
  <1>5. Distance(g, S, k) = CHOOSE n \in 0..N : Least(n)
    BY DEF Distance
  <1> HIDE DEF Least
  <1> QED BY <1>3, <1>4, <1>5
=============================================================================
