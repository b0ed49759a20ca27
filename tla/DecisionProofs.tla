--------------------------- MODULE DecisionProofs ---------------------------
(***************************************************************************)
(* The decision process computes shortest paths, keeps TopoDB current and  *)
(* installs routes on shortest paths and all of them, on every network,    *)
(* with LSPs that gain and lose neighbors and adjacencies that are written *)
(* again and again: Decision's TypeOK, SpfShortest, TopoCurrent,           *)
(* RoutesShortest and RoutesComplete.                                      *)
(*                                                                         *)
(* All links cost Metric, so computeSPF works its way through the network  *)
(* ring by ring.  AtLevel says what paths and tent hold while candidates   *)
(* d + 1 hops away are taken; it is stated about a graph g and a set L of  *)
(* interfaces, for which the invariant puts Graph and loaded.              *)
(***************************************************************************)
EXTENDS Decision, ShortestPathProofs

\* g is the graph of a network seen from Self; Phantom issues no LSP.
IsNetwork(g) == IsGraph(g, System) /\ g[Self] = {} /\ g[Phantom] = {}

\* t is a system d + 1 hops away, no nearer, and t.hop leads there in as many.
Exact(g, L, t, d) ==
  /\ t.id # Self
  /\ t.distance = Metric * (d + 1)
  /\ t.hop \in L
  /\ t.id \in Ball(g, {Peer[t.hop]})[d]
  /\ \A e \in Nat : e < d => t.id \notin Ball(g, Behind(L))[e]

\* P holds the nearest systems, T the candidates of this ring and the next, no
\* system of this ring is missing, and no neighbor of a system in P.
AtLevel(g, L, P, T, d) ==
  /\ \E t \in P : t.id = Self
  /\ \A t \in P : t.id \in {Self, Phantom} \/ \E e \in 0..d : Exact(g, L, t, e)
  /\ \A t \in T : t.id = Phantom \/ Exact(g, L, t, d) \/ Exact(g, L, t, d + 1)
  /\ Ball(g, Behind(L))[d] \ {Self} \subseteq Ids(P) \cup Ids(T)
  /\ \A t \in P : t.id \in System => g[t.id] \subseteq Ids(P) \cup Ids(T)

LEMMA BehindSystems ==
  ASSUME NEW L, L \subseteq Intf
  PROVE  Behind(L) \subseteq System
  BY DecisionAssumption DEF Behind

\* A next hop that leads to t is one of those behind L.
LEMMA ExactInBall ==
  ASSUME NEW g, IsNetwork(g), NEW L, L \subseteq Intf, NEW t, NEW d \in Nat, Exact(g, L, t, d)
  PROVE  t.id \in Ball(g, Behind(L))[d] /\ t.id \in System
  <1>1. {Peer[t.hop]} \subseteq Behind(L)
    BY DEF Exact, Behind
  <1>2. t.id \in Ball(g, Behind(L))[d]
    BY <1>1, BallMonotone DEF Exact
  <1> QED BY <1>2, BehindSystems, BallInGraph DEF IsNetwork

\* When only candidates of the next ring are left, this ring is complete.
LEMMA LevelUp ==
  ASSUME NEW g, IsNetwork(g), NEW L, L \subseteq Intf, NEW P, NEW T, NEW d \in Nat,
         AtLevel(g, L, P, T, d),
         \A t \in T : t.id = Phantom \/ Exact(g, L, t, d + 1)
  PROVE  AtLevel(g, L, P, T, d + 1)
  <1> DEFINE B == Ball(g, Behind(L))
  <1>1. ASSUME NEW k \in B[d + 1], k # Self
        PROVE  k \in Ids(P) \cup Ids(T)
    <2>1. B[d + 1] = Widen(g, B[d])
      BY BallEquation
    <2>2. CASE k \in B[d]
      BY <1>1, <2>2 DEF AtLevel
    <2>3. CASE k \notin B[d]
      <3>1. PICK j \in B[d] \cap DOMAIN g : k \in g[j]
        BY <1>1, <2>1, <2>3 DEF Widen
      <3>2. j # Self /\ j # Phantom /\ j \in System
        BY <3>1 DEF IsNetwork, IsGraph
      <3>3. j \notin Ids(T)
        <4>1. ASSUME NEW t \in T, t.id = j PROVE FALSE
          <5>1. t.id # Phantom
            BY <3>2, <4>1
          <5>2. Exact(g, L, t, d + 1)
            BY <5>1
          <5>3. d \in Nat /\ d < d + 1
            OBVIOUS
          <5> QED BY <3>1, <4>1, <5>2, <5>3 DEF Exact
        <4> QED BY <4>1 DEF Ids
      <3>4. j \in Ids(P)
        BY <3>1, <3>2, <3>3 DEF AtLevel
      <3> QED BY <3>1, <3>2, <3>4 DEF AtLevel, Ids
    <2> QED BY <2>2, <2>3
  <1>2. \A t \in P : t.id \in {Self, Phantom} \/ \E e \in 0..(d + 1) : Exact(g, L, t, e)
    <2>1. \A e \in 0..d : e \in 0..(d + 1)
      OBVIOUS
    <2> QED BY <2>1 DEF AtLevel
  <1> QED BY <1>1, <1>2 DEF AtLevel

LEMMA ToSetAppend ==
  ASSUME NEW X, NEW s \in Seq(X), NEW x \in X
  PROVE  ToSet(Append(s, x)) = ToSet(s) \cup {x}
  <1>1. DOMAIN Append(s, x) = 1..(Len(s) + 1) /\ DOMAIN s = 1..Len(s) /\ Len(s) \in Nat
    OBVIOUS
  <1>2. \A i \in 1..Len(s) : Append(s, x)[i] = s[i]
    OBVIOUS
  <1>3. Append(s, x)[Len(s) + 1] = x
    OBVIOUS
  <1> QED BY <1>1, <1>2, <1>3 DEF ToSet

\* A candidate of this ring moves to paths and its neighbors to tent; at most a
\* phantom in tent gets a smaller distance.
LEMMA LevelExtract ==
  ASSUME NEW g, IsNetwork(g), NEW L, L \subseteq Intf,
         NEW s \in Seq(Triples), NEW T, T \subseteq Triples, NEW d \in Nat,
         AtLevel(g, L, ToSet(s), T, d),
         NEW best \in T, Exact(g, L, best, d)
  PROVE  AtLevel(g, L, ToSet(Append(s, best)),
                 AddAdjToTent(best.distance, best.hop, g[best.id], T \ {best}, Append(s, best)), d)
  <1> DEFINE P == ToSet(s)
             Q == P \cup {best}
             new == g[best.id] \ Ids(Q)
             far == Metric * (d + 1 + 1)
             R == T \ {best}
             added == {Triple(k, far, best.hop) : k \in new \ Ids(R)}
             nearer(t) == IF t.id \in new /\ far < t.distance THEN [t EXCEPT !.distance = far] ELSE t
             M == {nearer(t) : t \in R}
             U == M \cup added
             B == Ball(g, Behind(L))
  <1>1. ToSet(Append(s, best)) = Q
    BY ToSetAppend
  <1>2. best.id \in System /\ g[best.id] \subseteq System
    BY ExactInBall DEF IsNetwork, IsGraph
  <1>3. best.distance + Metric = far
    BY DEF Exact, Metric
  <1>4. AddAdjToTent(best.distance, best.hop, g[best.id], T \ {best}, Append(s, best)) = U
    <2> HIDE DEF far
    <2> QED BY <1>1, <1>3 DEF AddAdjToTent
  <1>r. ASSUME NEW t \in R
        PROVE  nearer(t).id = t.id /\ (t.id = Phantom \/ nearer(t) = t)
    <2>1. t \in Triples
      OBVIOUS
    <2>2. nearer(t).id = t.id
      BY <2>1 DEF Triples
    <2>3. CASE t.id = Phantom
      BY <2>2, <2>3
    <2>4. CASE Exact(g, L, t, d) \/ Exact(g, L, t, d + 1)
      <3>1. ~(far < t.distance)
        BY <2>4 DEF Exact, Metric
      <3> QED BY <2>2, <3>1
    <2> QED BY <2>3, <2>4 DEF AtLevel
  <1>m. /\ \A u \in M : u.id = Phantom \/ u \in R
        /\ Ids(M) = Ids(R)
    <2> HIDE DEF nearer, R
    <2>1. \A u \in M : u.id = Phantom \/ u \in R
      BY <1>r
    <2>2. Ids(M) = Ids(R)
      BY <1>r DEF Ids
    <2> QED BY <2>1, <2>2
  <1>5. Self \in Ids(Q)
    BY DEF AtLevel, Ids
  <1>6. ASSUME NEW k \in new \ Ids(R)
        PROVE  Exact(g, L, Triple(k, far, best.hop), d + 1)
    <2>1. k # Self
      BY <1>5
    <2>2. k \notin B[d]
      BY <2>1 DEF AtLevel, Ids
    <2>3. \A e \in Nat : e < d + 1 => k \notin B[e]
      <3> SUFFICES ASSUME NEW e \in Nat, e < d + 1 PROVE k \notin B[e]
        OBVIOUS
      <3>1. e <= d
        OBVIOUS
      <3> QED BY <2>2, <3>1, BallGrows
    <2>4. k \in Ball(g, {Peer[best.hop]})[d + 1]
      BY <1>2, BallNeighbor DEF Exact, IsNetwork, IsGraph
    <2>5. best.hop \in L
      BY DEF Exact
    <2> HIDE DEF far
    <2> QED BY <2>1, <2>3, <2>4, <2>5 DEF Exact, Triple, far
  <1>7. Ids(Q) \cup Ids(U) = Ids(P) \cup Ids(T) \cup g[best.id]
    <2>1. Ids(added) = new \ Ids(R)
      <3> DEFINE K == new \ Ids(R)
      <3> HIDE DEF K, far
      <3>1. \A k : Triple(k, far, best.hop).id = k
        BY DEF Triple
      <3>2. Ids({Triple(k, far, best.hop) : k \in K}) = K
        BY <3>1 DEF Ids
      <3> QED BY <3>2 DEF K
    <2>3. Ids(Q) = Ids(P) \cup {best.id} /\ Ids(T) = Ids(R) \cup {best.id}
      BY DEF Ids
    <2>4. new = g[best.id] \ Ids(Q)
      OBVIOUS
    <2> HIDE DEF added, M, R, Q, new
    <2>2. Ids(U) = Ids(M) \cup Ids(added)
      BY DEF Ids
    <2> QED BY <1>m, <2>1, <2>2, <2>3, <2>4
  <1>8. AtLevel(g, L, Q, U, d)
    <2>1. \E t \in Q : t.id = Self
      BY DEF AtLevel
    <2>2. \A t \in Q : t.id \in {Self, Phantom} \/ \E e \in 0..d : Exact(g, L, t, e)
      BY DEF AtLevel
    <2>3. \A t \in U : t.id = Phantom \/ Exact(g, L, t, d) \/ Exact(g, L, t, d + 1)
      <3>1. ASSUME NEW t \in M PROVE t.id = Phantom \/ Exact(g, L, t, d) \/ Exact(g, L, t, d + 1)
        <4> HIDE DEF M
        <4> QED BY <1>m, <3>1 DEF AtLevel
      <3> HIDE DEF M, new, far, R
      <3>2. ASSUME NEW t \in added PROVE Exact(g, L, t, d + 1)
        BY <1>6, <3>2
      <3> QED BY <3>1, <3>2
    <2>4. B[d] \ {Self} \subseteq Ids(Q) \cup Ids(U)
      BY <1>7 DEF AtLevel
    <2>5. \A t \in Q : t.id \in System => g[t.id] \subseteq Ids(Q) \cup Ids(U)
      BY <1>7 DEF AtLevel
    <2> HIDE DEF Q, U
    <2> QED BY <2>1, <2>2, <2>3, <2>4, <2>5 DEF AtLevel
  <1> QED BY <1>1, <1>4, <1>8

\* With no candidate left, paths holds what can be reached.
LEMMA LevelDone ==
  ASSUME NEW g, IsNetwork(g), NEW L, L \subseteq Intf, NEW P, NEW d \in Nat,
         AtLevel(g, L, P, {}, d)
  PROVE  Ids(P) \ {Phantom, Self} = Reachable(g, Behind(L)) \ {Self, Phantom}
  <1> DEFINE B == Ball(g, Behind(L))
             C == Ids(P)
  <1>1. Self \in C
    BY DEF AtLevel, Ids
  <1>2. B[d] \subseteq C
    BY <1>1 DEF AtLevel, Ids
  <1>3. Behind(L) \subseteq C
    BY <1>2, BallEquation, BallGrows
  <1>4. \A k \in C \cap DOMAIN g : g[k] \subseteq C
    <2>1. \A t \in P : t.id \in System => g[t.id] \subseteq C
      BY DEF AtLevel, Ids
    <2> QED BY <2>1 DEF Ids, IsNetwork, IsGraph
  <1>5. Reachable(g, Behind(L)) \subseteq C
    <2>1. \A e \in Nat : B[e] \subseteq C
      BY <1>3, <1>4, BallClosed
    <2>2. \E e \in Nat : Reachable(g, Behind(L)) = B[e]
      BY BehindSystems, ReachableInBall DEF IsNetwork
    <2> QED BY <2>1, <2>2
  <1>7. ASSUME NEW t \in P, t.id \notin {Phantom, Self}
        PROVE  t.id \in Reachable(g, Behind(L))
    <2>1. PICK e \in 0..d : Exact(g, L, t, e)
      BY <1>7 DEF AtLevel
    <2>2. e \in Nat
      OBVIOUS
    <2> QED BY <2>1, <2>2, ExactInBall, BehindSystems, ReachableIsAll DEF IsNetwork
  <1> QED BY <1>5, <1>7 DEF Ids

\* An exact triple has the distance and a next hop that the reference asks for.
LEMMA ExactIsShortest ==
  ASSUME NEW g, IsNetwork(g), NEW L, L \subseteq Intf, NEW t, NEW d \in Nat, Exact(g, L, t, d)
  PROVE  /\ t.distance = Metric * (1 + Distance(g, Behind(L), t.id))
         /\ t.hop \in {i \in L : Peer[i] \in Nearest(g, Behind(L), t.id)}
         /\ t.id \in Reachable(g, Behind({t.hop})) \ {Self}
  <1>1. Distance(g, Behind(L), t.id) = d
    BY ExactInBall, BehindSystems, DistanceIsLeast DEF Exact, IsNetwork
  <1>2. Behind({t.hop}) = {Peer[t.hop]} /\ Behind({t.hop}) \subseteq System /\ Peer[t.hop] \in Behind(L)
    BY BehindSystems DEF Behind, Exact
  <1>3. t.id \in Reachable(g, Behind({t.hop}))
    BY <1>2, ReachableIsAll DEF Exact, IsNetwork
  <1>4. Peer[t.hop] \in Nearest(g, Behind(L), t.id)
    BY <1>1, <1>2 DEF Exact, Nearest
  <1>5. t.distance = Metric * (1 + d) /\ t.hop \in L /\ t.id # Self
    BY DEF Exact, Metric
  <1> QED BY <1>1, <1>3, <1>4, <1>5

-----------------------------------------------------------------------------
(* TypeOK                                                                  *)

\* Types, and that a run has a path to write.
TypeInv == TypeOK /\ (pc # "idle" => paths # <<>>)

LEMMA InitType == Init => TypeInv
  <1> SUFFICES ASSUME Init PROVE TypeInv
    OBVIOUS
  <1>1. DOMAIN lsps = {} /\ DOMAIN topo = {}
    BY DEF Init
  <1>2. paths \in Seq(Triples)
    BY DEF Init
  <1>3. adj \in [Intf -> AdjStates] /\ rewrites \in 0..MaxRewrites
    BY DecisionAssumption DEF Init, AdjStates
  <1> QED BY <1>1, <1>2, <1>3 DEF Init, TypeOK, TypeInv

LEMMA MetricNat == Metric \in Nat
  BY DEF Metric

LEMMA SeenType ==
  ASSUME NEW i \in Intf, TypeOK, NEW T \in Seen(i)
  PROVE  T \subseteq Triples
  <1>1. NeighborID(i) \in System /\ Phantom \in System
    BY DecisionAssumption DEF NeighborID
  <1>2. ASSUME NEW k \in System, NEW m \in {0, Metric} PROVE {Triple(k, m, i)} \subseteq Triples
    BY MetricNat DEF Triple, Triples
  <1> QED BY <1>1, <1>2 DEF Seen

LEMMA GetAdjacenciesType ==
  ASSUME TypeOK, NEW k
  PROVE  GetAdjacencies(k) \subseteq System
  BY DEF GetAdjacencies, TypeOK

LEMMA AddAdjToTentType ==
  ASSUME NEW d \in Nat, NEW hop \in Intf \cup {NoHop}, NEW S, S \subseteq System,
         NEW T, T \subseteq Triples, NEW s
  PROVE  AddAdjToTent(d, hop, S, T, s) \subseteq Triples
  <1> DEFINE new == S \ Ids(ToSet(s))
  <1>1. d + Metric \in Nat
    BY MetricNat
  <1>2. \A t \in T : t \in Triples /\ [t EXCEPT !.distance = d + Metric] \in Triples
    BY <1>1 DEF Triples
  <1>3. \A k \in new : Triple(k, d + Metric, hop) \in Triples
    BY <1>1 DEF Triple, Triples
  <1> HIDE DEF new
  <1>4. {IF t.id \in new /\ d + Metric < t.distance THEN [t EXCEPT !.distance = d + Metric] ELSE t
           : t \in T} \subseteq Triples
    BY <1>2
  <1>5. {Triple(k, d + Metric, hop) : k \in new \ Ids(T)} \subseteq Triples
    BY <1>3
  <1> QED BY <1>4, <1>5 DEF AddAdjToTent, new

LEMMA GraphIsNetwork == TypeOK => IsNetwork(Graph)
  <1> SUFFICES ASSUME TypeOK PROVE IsNetwork(Graph)
    OBVIOUS
  <1>1. DOMAIN Graph = System
    BY DEF Graph
  <1>2. \A k \in System : Graph[k] \subseteq System
    BY DEF Graph, TypeOK
  <1>3. Graph[Self] = {} /\ Graph[Phantom] = {}
    BY DecisionAssumption DEF Graph, TypeOK
  <1> QED BY <1>1, <1>2, <1>3, DecisionAssumption DEF IsNetwork, IsGraph

LEMMA ReachType ==
  ASSUME TypeOK, NEW I, I \subseteq Intf
  PROVE  Reach(I) \subseteq System \ {Self, Phantom}
  BY GraphIsNetwork, BehindSystems, ReachableInBall, BallInGraph DEF Reach, IsNetwork

LEMMA StepType == TypeInv /\ [Next]_vars => TypeInv'
  <1> SUFFICES ASSUME TypeOK, pc # "idle" => paths # <<>>, [Next]_vars PROVE TypeInv'
    BY DEF TypeInv
  <1>1. ASSUME NEW k \in System, NewLsp(k) PROVE TypeInv'
    <2>1. PICK S \in Advertised[k] : lsps' = Assign(lsps, k, S)
      BY <1>1 DEF NewLsp
    <2>2. S \subseteq System /\ k # Phantom
      BY <2>1, DecisionAssumption
    <2>3. DOMAIN lsps' = DOMAIN lsps \cup {k} /\ DOMAIN lsps' \subseteq System \ {Phantom}
      BY <2>1, <2>2 DEF TypeOK, Assign
    <2>4. ASSUME NEW j \in DOMAIN lsps' PROVE lsps'[j] \subseteq System
      BY <2>1, <2>2, <2>3 DEF TypeOK, Assign
    <2>5. pending' = pending + 1 /\ fresh' = FALSE /\ UNCHANGED <<adj, rewrites, runVars>>
      BY <1>1 DEF NewLsp
    <2>6. pending' \in Nat
      BY <2>5 DEF TypeOK
    <2>7. fresh' \in BOOLEAN
      BY <2>5
    <2>8. UNCHANGED <<adj, rewrites, runVars>>
      BY <2>5
    <2> QED BY <2>3, <2>4, <2>6, <2>7, <2>8 DEF TypeOK, TypeInv, runVars
  <1>2. ASSUME LocalLsp PROVE TypeInv'
    <2> DEFINE listed == {NeighborID(i) : i \in {j \in Intf : adj[j] # "NEW"}}
    <2>1. listed \subseteq System /\ Self \in System \ {Phantom}
      BY DecisionAssumption DEF NeighborID
    <2>2. lsps' = Assign(lsps, Self, listed)
      BY <1>2 DEF LocalLsp
    <2> HIDE DEF listed
    <2>3. DOMAIN lsps' = DOMAIN lsps \cup {Self} /\ DOMAIN lsps' \subseteq System \ {Phantom}
      BY <2>1, <2>2 DEF TypeOK, Assign
    <2>4. ASSUME NEW j \in DOMAIN lsps' PROVE lsps'[j] \subseteq System
      BY <2>1, <2>2, <2>3 DEF TypeOK, Assign
    <2>5. UNCHANGED <<adj, rewrites, pending, fresh, runVars>>
      BY <1>2 DEF LocalLsp
    <2> QED BY <2>3, <2>4, <2>5 DEF TypeOK, TypeInv, runVars
  <1>3. ASSUME NEW i \in Intf, AdjBegin(i) \/ AdjName(i) \/ AdjEnd(i) PROVE TypeInv'
    <2>1. adj' \in [Intf -> AdjStates]
      BY <1>3 DEF AdjBegin, AdjName, AdjEnd, AdjStates, TypeOK
    <2>2. rewrites' \in 0..MaxRewrites
      BY <1>3, DecisionAssumption DEF AdjBegin, AdjName, AdjEnd, TypeOK
    <2>3. UNCHANGED <<lsps, pending, fresh, runVars>>
      BY <1>3 DEF AdjBegin, AdjName, AdjEnd
    <2> QED BY <2>1, <2>2, <2>3 DEF TypeOK, TypeInv, runVars
  <1>4. ASSUME GiveUp PROVE TypeInv'
    BY <1>4 DEF GiveUp, TypeOK, TypeInv, runVars
  <1>5. ASSUME Start PROVE TypeInv'
    <2>1. Triple(Self, 0, NoHop) \in Triples
      BY DecisionAssumption DEF Triple, Triples
    <2>2. paths' \in Seq(Triples)
      BY <1>5, <2>1 DEF Start
    <2> QED BY <1>5, <2>2 DEF Start, TypeOK, TypeInv
  <1>6. ASSUME Load PROVE TypeInv'
    <2>1. tent' \subseteq Triples
      BY <1>6, SeenType DEF Load, TypeOK, TypeInv
    <2> QED BY <1>6, <2>1 DEF Load, TypeOK, TypeInv
  <1>7. ASSUME Loaded PROVE TypeInv'
    <2>1. Reach(loaded) \subseteq System \ {Self, Phantom}
      BY ReachType DEF TypeOK
    <2> HIDE DEF Reach
    <2> QED BY <1>7, <2>1 DEF Loaded, TypeOK, TypeInv
  <1>8. ASSUME Extract PROVE TypeInv'
    <2>1. PICK best \in tent :
            /\ paths' = Append(paths, best)
            /\ tent' = AddAdjToTent(best.distance, best.hop, GetAdjacencies(best.id),
                                    tent \ {best}, Append(paths, best))
      BY <1>8 DEF Extract
    <2>2. best \in Triples /\ tent \ {best} \subseteq Triples
      BY DEF TypeOK
    <2>3. tent' \subseteq Triples
      BY <2>1, <2>2, GetAdjacenciesType, AddAdjToTentType DEF Triples
    <2>4. paths' \in Seq(Triples)
      BY <2>1, <2>2 DEF TypeOK
    <2>5. paths' # <<>>
      BY <2>1, <2>2 DEF TypeOK
    <2> QED BY <1>8, <2>3, <2>4, <2>5 DEF Extract, TypeOK, TypeInv
  <1>9. ASSUME Write PROVE TypeInv'
    <2>0. paths \in Seq(Triples) /\ paths # <<>>
      BY <1>9 DEF Write, TypeOK
    <2>1. Head(paths) \in Triples /\ Tail(paths) \in Seq(Triples)
      BY <2>0
    <2>2. topo' = Assign(topo, Head(paths).id, Head(paths))
      BY <1>9 DEF Write, Record
    <2>3. Head(paths).id \in System
      BY <2>1 DEF Triples
    <2>4. DOMAIN topo' = DOMAIN topo \cup {Head(paths).id}
      BY <2>2 DEF Assign
    <2>5. ASSUME NEW k \in DOMAIN topo' PROVE topo'[k] \in Triples
      BY <2>1, <2>2, <2>4 DEF TypeOK, Assign
    <2>6. Len(paths) # 1 => Tail(paths) # <<>>
      <3>1. Len(Tail(paths)) = Len(paths) - 1
        BY <2>0
      <3> QED BY <3>1
    <2>7. /\ paths' = Tail(paths) /\ pc' = IF Len(paths) = 1 THEN "idle" ELSE "write"
          /\ UNCHANGED <<lsps, adj, rewrites, pending, next, tent, loaded, reached, fresh>>
      BY <1>9 DEF Write
    <2>8. torn' \subseteq Intf
      BY <1>9 DEF Write, TypeOK
    <2> QED BY <2>1, <2>3, <2>4, <2>5, <2>6, <2>7, <2>8 DEF TypeOK, TypeInv
  <1>10. ASSUME UNCHANGED vars PROVE TypeInv'
    BY <1>10 DEF vars, runVars, TypeOK, TypeInv
  <1> QED BY <1>1, <1>2, <1>3, <1>4, <1>5, <1>6, <1>7, <1>8, <1>9, <1>10 DEF Next

-----------------------------------------------------------------------------
(* The inductive invariant                                                 *)

\* While adjacencies are loaded, tent holds those seen UP, and phantoms.
LoadInv ==
  pc = "load" =>
    /\ next # 0
    /\ paths = <<Triple(Self, 0, NoHop)>>
    /\ \A t \in tent : t.id = Phantom \/ \E i \in loaded : t = Triple(Peer[i], Metric, i)
    /\ \A i \in loaded : Triple(Peer[i], Metric, i) \in tent

RunInv == pc = "run" => \E d \in Nat : AtLevel(Graph, loaded, ToSet(paths), tent, d)

\* t is as computeSPF leaves it.
Final(t) == t.id \in {Self, Phantom} \/ \E e \in Nat : Exact(Graph, loaded, t, e)

\* What this run found of k is in TopoDB, and its networks have routes unless the
\* gateway was being written.
Written(k) ==
  /\ k \in DOMAIN topo /\ topo[k].id = k
  /\ \E e \in Nat : Exact(Graph, loaded, topo[k], e)
  /\ k \in DOMAIN lsps /\ topo[k].hop \notin torn => Networks[k] \subseteq DOMAIN rib

\* What can be reached is yet to be written or is written.
WriteInv ==
  pc = "write" =>
    /\ \A t \in ToSet(paths) : Final(t)
    /\ \A k \in Reach(loaded) : k \in Ids(ToSet(paths)) \/ Written(k)

IdleInv == pc = "idle" /\ fresh => \A k \in Reach(loaded) : Written(k)

\* TopoDB holds what was reached, in a run that is not over yet perhaps less.
ReachedInv ==
  /\ DOMAIN topo \ {Phantom, Self} \subseteq reached
  /\ pc \in {"idle", "load"} => reached \subseteq DOMAIN topo
  /\ pc \in {"run", "write"} =>
       Reach(loaded) \subseteq reached /\ reached \subseteq DOMAIN topo \cup Reach(loaded)

DecisionInv == TypeInv /\ LoadInv /\ RunInv /\ WriteInv /\ IdleInv /\ ReachedInv

\* More LSPs and more interfaces reach more.
LEMMA ReachMonotone ==
  ASSUME NEW g, NEW h, IsNetwork(g), IsNetwork(h), \A k \in System : g[k] \subseteq h[k],
         NEW L, NEW M, L \subseteq M, M \subseteq Intf
  PROVE  Reachable(g, Behind(L)) \subseteq Reachable(h, Behind(M))
  <1>1. Behind(L) \subseteq Behind(M) /\ Behind(L) \subseteq System /\ Behind(M) \subseteq System
    BY BehindSystems DEF Behind
  <1>2. PICK d \in Nat : Reachable(g, Behind(L)) = Ball(g, Behind(L))[d]
    BY <1>1, ReachableInBall DEF IsNetwork
  <1>3. Ball(g, Behind(L))[d] \subseteq Ball(h, Behind(M))[d]
    BY <1>1, BallMonotone DEF IsNetwork, IsGraph
  <1>4. Ball(h, Behind(M))[d] \subseteq Reachable(h, Behind(M))
    BY <1>1, ReachableIsAll DEF IsNetwork
  <1> QED BY <1>2, <1>3, <1>4

LEMMA InitInv == Init => DecisionInv
  <1> SUFFICES ASSUME Init PROVE DecisionInv
    OBVIOUS
  <1>1. TypeInv
    BY InitType
  <1>2. LoadInv /\ RunInv /\ WriteInv /\ IdleInv
    BY DEF Init, LoadInv, RunInv, WriteInv, IdleInv
  <1>3. DOMAIN topo = {} /\ reached = {} /\ pc = "idle"
    BY DEF Init
  <1>4. ReachedInv
    BY <1>3 DEF ReachedInv
  <1> QED BY <1>1, <1>2, <1>4 DEF DecisionInv

-----------------------------------------------------------------------------
(* The steps of the other processes                                        *)

\* Between two runs an LSP may change in any way: what TopoDB holds is then no
\* longer fresh.
LEMMA NewLspInv ==
  ASSUME DecisionInv, TypeInv', NEW k \in System, NewLsp(k)
  PROVE  DecisionInv'
  <1>1. pc = "idle" /\ fresh' = FALSE /\ UNCHANGED runVars
    BY DEF NewLsp
  <1>2. LoadInv' /\ RunInv' /\ WriteInv' /\ IdleInv'
    BY <1>1 DEF runVars, LoadInv, RunInv, WriteInv, IdleInv
  <1>3. ReachedInv'
    BY <1>1 DEF runVars, DecisionInv, ReachedInv
  <1> QED BY <1>2, <1>3 DEF DecisionInv

LEMMA LocalLspInv ==
  ASSUME DecisionInv, TypeInv', LocalLsp
  PROVE  DecisionInv'
  <1>1. /\ pc = "idle" /\ DOMAIN lsps' = DOMAIN lsps \cup {Self}
        /\ \A k \in DOMAIN lsps : k # Self => lsps'[k] = lsps[k]
        /\ UNCHANGED <<fresh, pc, next, paths, tent, topo, rib, loaded, torn, reached>>
    BY DEF LocalLsp, Assign, runVars
  <1>2. Graph' = Graph
    BY <1>1 DEF Graph
  <1>3. \A I : Reach(I)' = Reach(I)
    BY <1>2 DEF Reach
  <1>4. LoadInv' /\ RunInv' /\ WriteInv'
    BY <1>1 DEF LoadInv, RunInv, WriteInv
  <1>5. IdleInv'
    <2> SUFFICES ASSUME fresh, NEW k \in Reach(loaded) PROVE Written(k)'
      BY <1>1, <1>3 DEF IdleInv
    <2>1. Written(k) /\ k # Self
      BY <1>1 DEF DecisionInv, IdleInv, Reach
    <2> QED BY <1>1, <1>2, <2>1 DEF Written
  <1>6. ReachedInv'
    BY <1>1 DEF DecisionInv, ReachedInv
  <1> QED BY <1>4, <1>5, <1>6 DEF DecisionInv

\* The invariant does not speak of adjacencies: they may be written at any time.
LEMMA AdjInv ==
  ASSUME DecisionInv, TypeInv', UNCHANGED <<lsps, fresh, runVars>>
  PROVE  DecisionInv'
  <1>0. UNCHANGED <<lsps, fresh, pc, next, paths, tent, topo, rib, loaded, torn, reached>>
    BY DEF runVars
  <1>1. Graph' = Graph
    BY <1>0 DEF Graph
  <1>2. \A I : Reach(I)' = Reach(I)
    BY <1>1 DEF Reach
  <1>3. \A k : Written(k)' = Written(k) /\ Final(k)' = Final(k)
    BY <1>0, <1>1 DEF Written, Final
  <1>4. LoadInv' /\ RunInv'
    BY <1>0, <1>1 DEF DecisionInv, LoadInv, RunInv
  <1>5. WriteInv' /\ IdleInv'
    BY <1>0, <1>2, <1>3 DEF DecisionInv, WriteInv, IdleInv
  <1>6. ReachedInv'
    BY <1>0, <1>2 DEF DecisionInv, ReachedInv
  <1> QED BY <1>4, <1>5, <1>6 DEF DecisionInv

-----------------------------------------------------------------------------
(* The steps of computeSPF                                                 *)

LEMMA StartInv ==
  ASSUME DecisionInv, TypeInv', Start
  PROVE  DecisionInv'
  <1>1. /\ paths' = <<Triple(Self, 0, NoHop)>> /\ tent' = {} /\ loaded' = {}
        /\ next' = 1 /\ pc = "idle" /\ pc' = "load"
        /\ UNCHANGED <<topo, reached>>
    BY DEF Start
  <1>2. LoadInv' /\ RunInv' /\ WriteInv' /\ IdleInv'
    BY <1>1 DEF LoadInv, RunInv, WriteInv, IdleInv
  <1>3. ReachedInv'
    BY <1>1 DEF DecisionInv, ReachedInv
  <1> QED BY <1>2, <1>3 DEF DecisionInv

LEMMA LoadStepInv ==
  ASSUME DecisionInv, TypeInv', Load
  PROVE  DecisionInv'
  <1>1. PICK T \in Seen(next) : tent' = tent \cup T
    BY DEF Load
  <1>2. /\ pc = "load" /\ next \in Intf /\ next' = next + 1
        /\ loaded' = IF adj[next] \in {"named", "UP"} THEN loaded \cup {next} ELSE loaded
        /\ UNCHANGED <<adj, pc, paths, topo, reached>>
    BY DEF Load
  <1>5. LoadInv'
    <2>1. next' # 0 /\ paths' = <<Triple(Self, 0, NoHop)>>
      BY <1>2 DEF DecisionInv, LoadInv, TypeInv, TypeOK
    <2> DEFINE whole == adj[next] \in {"named", "UP"}
               peer == Triple(Peer[next], Metric, next)
    <2>2. /\ \A t \in T : t.id = Phantom \/ (whole /\ t = peer)
          /\ whole => peer \in T
      <3>1. CASE whole
        <4>1. Seen(next) = {{peer}}
          BY <3>1 DEF Seen, NeighborID
        <4> QED BY <3>1, <4>1
      <3>2. CASE ~whole
        <4>1. \A m : Triple(Phantom, m, next).id = Phantom
          BY DEF Triple
        <4>2. NeighborID(next) = Phantom
          BY <3>2 DEF NeighborID
        <4>3. T = {} \/ \E m : T = {Triple(Phantom, m, next)}
          BY <4>2 DEF Seen
        <4> QED BY <3>2, <4>1, <4>3
      <3> QED BY <3>1, <3>2
    <2>3. \A t \in tent' : t.id = Phantom \/ \E i \in loaded' : t = Triple(Peer[i], Metric, i)
      BY <1>1, <1>2, <2>2 DEF DecisionInv, LoadInv
    <2>4. \A i \in loaded' : Triple(Peer[i], Metric, i) \in tent'
      BY <1>1, <1>2, <2>2 DEF DecisionInv, LoadInv
    <2> QED BY <2>1, <2>3, <2>4 DEF LoadInv
  <1>6. RunInv' /\ WriteInv' /\ IdleInv'
    BY <1>2 DEF RunInv, WriteInv, IdleInv
  <1>7. ReachedInv'
    BY <1>2 DEF DecisionInv, ReachedInv
  <1> QED BY <1>5, <1>6, <1>7 DEF DecisionInv

\* All interfaces are loaded: the first ring is complete.
LEMMA LoadedInv ==
  ASSUME DecisionInv, TypeInv', Loaded
  PROVE  DecisionInv'
  <1>1. /\ pc = "load" /\ pc' = "run" /\ reached' = reached \cup Reach(loaded)
        /\ UNCHANGED <<lsps, paths, tent, topo, loaded>>
    BY DEF Loaded
  <1>2. Graph' = Graph /\ IsNetwork(Graph) /\ loaded \subseteq Intf
    BY <1>1, GraphIsNetwork DEF Graph, DecisionInv, TypeInv, TypeOK
  <1>3. \A I : Reach(I)' = Reach(I)
    BY <1>2 DEF Reach
  <1> DEFINE s == Triple(Self, 0, NoHop)
             P == {s}
  <1>4. ToSet(paths) = P /\ s.id = Self
    <2>1. paths = <<s>>
      BY <1>1 DEF DecisionInv, LoadInv
    <2> HIDE DEF s
    <2>2. ToSet(<<s>>) = {s}
      BY DEF ToSet
    <2> QED BY <2>1, <2>2 DEF s, Triple
  <1>5. AtLevel(Graph, loaded, P, tent, 0)
    <2>1. \A t \in P : t.id = Self
      BY <1>4
    <2>2. ASSUME NEW i \in loaded PROVE Exact(Graph, loaded, Triple(Peer[i], Metric, i), 0)
      <3>1. Peer[i] \in Ball(Graph, {Peer[i]})[0]
        BY BallEquation
      <3>2. Peer[i] # Self
        BY <1>2, DecisionAssumption
      <3>3. \A e \in Nat : ~(e < 0)
        OBVIOUS
      <3> QED BY <3>1, <3>2, <3>3 DEF Exact, Triple, Metric
    <2>3. \A t \in tent : t.id = Phantom \/ Exact(Graph, loaded, t, 0)
      BY <1>1, <2>2 DEF DecisionInv, LoadInv
    <2>4. Ball(Graph, Behind(loaded))[0] \subseteq Ids(tent)
      <3>1. Ball(Graph, Behind(loaded))[0] = Behind(loaded)
        BY BallEquation
      <3>2. ASSUME NEW i \in loaded PROVE Peer[i] \in Ids(tent)
        <4>1. Triple(Peer[i], Metric, i) \in tent
          BY <1>1 DEF DecisionInv, LoadInv
        <4>2. Triple(Peer[i], Metric, i).id = Peer[i]
          BY DEF Triple
        <4> QED BY <4>1, <4>2 DEF Ids
      <3> QED BY <3>1, <3>2 DEF Behind
    <2>5. Graph[Self] = {}
      BY <1>2 DEF IsNetwork
    <2> HIDE DEF P
    <2>6. \E t \in P : t.id = Self
      BY <1>4 DEF P
    <2> QED BY <2>1, <2>3, <2>4, <2>5, <2>6 DEF AtLevel
  <1>6. RunInv'
    <2> HIDE DEF P
    <2>1. 0 \in Nat
      OBVIOUS
    <2> QED BY <1>1, <1>2, <1>4, <1>5, <2>1 DEF RunInv
  <1>7. LoadInv' /\ WriteInv' /\ IdleInv'
    BY <1>1 DEF LoadInv, WriteInv, IdleInv
  <1>8. ReachedInv'
    BY <1>1, <1>3 DEF DecisionInv, ReachedInv
  <1> QED BY <1>6, <1>7, <1>8 DEF DecisionInv

LEMMA ExtractInv ==
  ASSUME DecisionInv, TypeInv', Extract
  PROVE  DecisionInv'
  <1>1. PICK best \in tent :
          /\ \A t \in tent : best.distance <= t.distance
          /\ paths' = Append(paths, best)
          /\ tent' = AddAdjToTent(best.distance, best.hop, GetAdjacencies(best.id),
                                  tent \ {best}, Append(paths, best))
    BY DEF Extract
  <1>2. /\ pc = "run"
        /\ UNCHANGED <<lsps, pc, topo, loaded, reached>>
    BY DEF Extract
  <1>3. Graph' = Graph /\ IsNetwork(Graph) /\ loaded \subseteq Intf
    BY <1>2, GraphIsNetwork DEF Graph, DecisionInv, TypeInv, TypeOK
  <1>4. \A I : Reach(I)' = Reach(I)
    BY <1>3 DEF Reach
  <1>5. paths \in Seq(Triples) /\ tent \subseteq Triples /\ best \in Triples
    BY DEF DecisionInv, TypeInv, TypeOK
  <1>6. PICK d \in Nat : AtLevel(Graph, loaded, ToSet(paths), tent, d)
    BY <1>2 DEF DecisionInv, RunInv
  <1>7. \E e \in Nat : AtLevel(Graph, loaded, ToSet(paths'), tent', e)
    <2>1. CASE best.id = Phantom
      \* A phantom has no LSP and so no neighbors.
      <3>1. GetAdjacencies(best.id) = {}
        BY <2>1, DecisionAssumption DEF GetAdjacencies, DecisionInv, TypeInv, TypeOK
      <3>2. tent' = tent \ {best}
        BY <1>1, <3>1 DEF AddAdjToTent
      <3>3. ToSet(paths') = ToSet(paths) \cup {best}
        BY <1>1, <1>5, ToSetAppend
      <3> DEFINE P == ToSet(paths)
                 Q == P \cup {best}
                 U == tent \ {best}
      <3>4. Ids(Q) \cup Ids(U) = Ids(P) \cup Ids(tent)
        BY DEF Ids
      <3>5. AtLevel(Graph, loaded, Q, U, d)
        <4>1. Graph[best.id] = {}
          BY <1>3, <2>1 DEF IsNetwork
        <4> QED BY <1>6, <2>1, <3>4, <4>1 DEF AtLevel
      <3> QED BY <3>2, <3>3, <3>5
    <2>2. CASE best.id # Phantom
      <3>1. PICK e \in Nat : AtLevel(Graph, loaded, ToSet(paths), tent, e)
                               /\ Exact(Graph, loaded, best, e)
        <4>1. CASE Exact(Graph, loaded, best, d)
          BY <1>6, <4>1
        <4>2. CASE ~Exact(Graph, loaded, best, d)
          <5>1. Exact(Graph, loaded, best, d + 1)
            BY <1>6, <2>2, <4>2 DEF AtLevel
          <5>2. ASSUME NEW t \in tent PROVE ~Exact(Graph, loaded, t, d)
            <6>1. best.distance = Metric * (d + 1 + 1) /\ best.distance <= t.distance
              BY <1>1, <5>1 DEF Exact
            <6> QED BY <6>1 DEF Exact, Metric
          <5>3. \A t \in tent : t.id = Phantom \/ Exact(Graph, loaded, t, d + 1)
            BY <1>6, <5>2 DEF AtLevel
          <5>4. AtLevel(Graph, loaded, ToSet(paths), tent, d + 1)
            BY <1>3, <1>6, <5>3, LevelUp
          <5> QED BY <5>1, <5>4
        <4> QED BY <4>1, <4>2
      <3>2. best.id \in System /\ best.id # Self
        BY <1>3, <3>1, ExactInBall DEF Exact
      <3>3. GetAdjacencies(best.id) = Graph[best.id]
        BY <3>2 DEF GetAdjacencies, Graph
      <3> QED BY <1>1, <1>3, <1>5, <3>1, <3>3, LevelExtract
    <2> QED BY <2>1, <2>2
  <1>8. RunInv'
    BY <1>3, <1>2, <1>7 DEF RunInv
  <1>9. LoadInv' /\ WriteInv' /\ IdleInv'
    BY <1>2 DEF LoadInv, WriteInv, IdleInv
  <1>10. ReachedInv'
    BY <1>2, <1>4 DEF DecisionInv, ReachedInv
  <1> QED BY <1>8, <1>9, <1>10 DEF DecisionInv

\* What a finished computation found is final and complete.
LEMMA RunDone ==
  ASSUME DecisionInv, pc = "run", tent = {}
  PROVE  /\ \A t \in ToSet(paths) : Final(t)
         /\ Ids(ToSet(paths)) \ {Phantom, Self} = Reach(loaded)
  <1>1. IsNetwork(Graph) /\ loaded \subseteq Intf
    BY GraphIsNetwork DEF DecisionInv, TypeInv, TypeOK
  <1>2. PICK d \in Nat : AtLevel(Graph, loaded, ToSet(paths), {}, d)
    BY DEF DecisionInv, RunInv
  <1>3. \A e \in 0..d : e \in Nat
    OBVIOUS
  <1>4. \A t \in ToSet(paths) : Final(t)
    BY <1>2, <1>3 DEF AtLevel, Final
  <1> QED BY <1>1, <1>2, <1>4, LevelDone DEF Reach

\* What an exact triple says in the terms of the properties.
LEMMA ExactHops ==
  ASSUME DecisionInv, NEW t, t.id # Phantom, NEW e \in Nat, Exact(Graph, loaded, t, e)
  PROVE  /\ t.distance = Metric * Hops(loaded, t.id) /\ t.hop \in BestHops(loaded, t.id)
         /\ t.id \in Reach(loaded)
  <1>1. IsNetwork(Graph) /\ loaded \subseteq Intf
    BY GraphIsNetwork DEF DecisionInv, TypeInv, TypeOK
  <1>2. t.hop \in loaded /\ t.id \in Reachable(Graph, Behind({t.hop})) \ {Self}
    BY <1>1, ExactIsShortest DEF Exact
  <1>3. Reachable(Graph, Behind({t.hop})) \subseteq Reachable(Graph, Behind(loaded))
    BY <1>1, <1>2, ReachMonotone
  <1>4. t.distance = Metric * Hops(loaded, t.id) /\ t.hop \in BestHops(loaded, t.id)
    BY <1>1, ExactIsShortest DEF Hops, BestHops
  <1> QED BY <1>2, <1>3, <1>4 DEF Reach

\* The paths that are yet to be written are final.
LEMMA PathsFinal ==
  ASSUME DecisionInv, Write
  PROVE  /\ paths # <<>> /\ Head(paths) \in ToSet(paths)
         /\ \A u \in ToSet(paths) : Final(u)
         /\ \A j \in Reach(loaded) : j \in Ids(ToSet(paths)) \/ Written(j)
  <1>1. /\ \A u \in ToSet(paths) : Final(u)
        /\ \A j \in Reach(loaded) : j \in Ids(ToSet(paths)) \/ Written(j)
    <2>1. CASE pc = "run" /\ tent = {}
      BY <2>1, RunDone
    <2>2. CASE pc = "write"
      BY <2>2 DEF DecisionInv, WriteInv
    <2> QED BY <2>1, <2>2 DEF Write
  <1>2. paths \in Seq(Triples) /\ paths # <<>>
    BY DEF Write, DecisionInv, TypeInv, TypeOK
  <1>3. 1 \in DOMAIN paths /\ Head(paths) = paths[1]
    BY <1>2
  <1> QED BY <1>1, <1>2, <1>3 DEF ToSet

LEMMA WriteStepInv ==
  ASSUME DecisionInv, TypeInv', Write
  PROVE  DecisionInv'
  <1> DEFINE t == Head(paths)
             k == t.id
  <1>1. /\ topo' = Assign(topo, k, t) /\ torn \subseteq torn'
        /\ paths' = Tail(paths) /\ pc' = IF Len(paths) = 1 THEN "idle" ELSE "write"
        /\ UNCHANGED <<lsps, loaded, reached>>
    BY DEF Write, Record
  <1>2. /\ \A u \in ToSet(paths) : Final(u)
        /\ \A j \in Reach(loaded) : j \in Ids(ToSet(paths)) \/ Written(j)
    BY PathsFinal
  <1>3. pc # "load" /\ pc' # "load" /\ pc' # "run" /\ paths \in Seq(Triples) /\ paths # <<>>
    BY <1>1 DEF Write, DecisionInv, TypeInv, TypeOK
  <1>4. Graph' = Graph /\ IsNetwork(Graph) /\ loaded \subseteq Intf
    BY <1>1, GraphIsNetwork DEF Graph, DecisionInv, TypeInv, TypeOK
  <1>5. \A I : Reach(I)' = Reach(I)
    BY <1>4 DEF Reach
  <1>6. /\ ToSet(paths) = {t} \cup ToSet(Tail(paths))
        /\ Len(paths) = 1 => ToSet(Tail(paths)) = {}
    <2>1. /\ Len(paths) \in Nat \ {0} /\ DOMAIN paths = 1..Len(paths)
          /\ DOMAIN Tail(paths) = 1..(Len(paths) - 1)
          /\ \A i \in 1..(Len(paths) - 1) : Tail(paths)[i] = paths[i + 1]
          /\ t = paths[1]
      BY <1>3
    <2>2. \A i \in 2..Len(paths) : i - 1 \in 1..(Len(paths) - 1) /\ paths[i] = Tail(paths)[i - 1]
      BY <2>1
    <2>3. \A i \in 1..(Len(paths) - 1) : i + 1 \in 1..Len(paths)
      BY <2>1
    <2>4. 1 \in 1..Len(paths) /\ \A i \in 1..Len(paths) : i = 1 \/ i \in 2..Len(paths)
      BY <2>1
    <2>5. Len(paths) = 1 => 1..(Len(paths) - 1) = {}
      BY <2>1
    <2> HIDE DEF t
    <2>6. \A x : x \in ToSet(paths) <=> \E i \in 1..Len(paths) : x = paths[i]
      BY <2>1 DEF ToSet
    <2>7. \A x : x \in ToSet(Tail(paths)) <=> \E i \in 1..(Len(paths) - 1) : x = Tail(paths)[i]
      BY <2>1 DEF ToSet
    <2>8. \A x \in ToSet(paths) : x \in {t} \cup ToSet(Tail(paths))
      BY <2>1, <2>2, <2>4, <2>6, <2>7
    <2>9. \A x \in {t} \cup ToSet(Tail(paths)) : x \in ToSet(paths)
      BY <2>1, <2>3, <2>4, <2>6, <2>7
    <2>10. Len(paths) = 1 => ToSet(Tail(paths)) = {}
      BY <2>5, <2>7
    <2> QED BY <2>8, <2>9, <2>10
  <1>7. DOMAIN rib \subseteq DOMAIN rib'
    BY DEF Write, InstallRoute
  <1>8. k # Self /\ k \in DOMAIN lsps /\ t.hop \in Intf \ torn' => Networks[k] \subseteq DOMAIN rib'
    <2> SUFFICES ASSUME k # Self, k \in DOMAIN lsps, t.hop \in Intf \ torn'
                 PROVE  Networks[k] \subseteq DOMAIN rib'
      OBVIOUS
    <2>1. PICK P \in Accepted(t) : rib' = InstallRoute(rib, t, P)
      BY DEF Write
    <2>2. torn' = torn \cup {i \in {t.hop} \cap Intf : adj[i] # "UP"}
      BY DEF Write
    <2> HIDE DEF t, k
    <2>3. t.hop # NoHop /\ adj[t.hop] = "UP"
      BY <2>2, DecisionAssumption
    <2>4. P = Networks[k]
      BY <2>1, <2>3 DEF Accepted, DirectlyConnectedPrefixes, k
    <2> QED BY <2>1, <2>4 DEF InstallRoute
  <1>9. /\ DOMAIN topo' = DOMAIN topo \cup {k} /\ topo'[k] = t
        /\ \A j \in DOMAIN topo : j # k => topo'[j] = topo[j]
    BY <1>1 DEF Assign
  <1>10. t \in ToSet(paths) /\ Final(t)
    BY <1>2, <1>6
  <1> HIDE DEF t, k
  <1>11. ASSUME NEW j \in Reach(loaded) PROVE j \in Ids(ToSet(paths')) \/ Written(j)'
    <2>1. j \in System /\ j # Self /\ j # Phantom
      BY ReachType DEF DecisionInv, TypeInv, TypeOK
    <2>2. CASE j = k
      <3>1. t.id = k
        BY DEF k
      <3>2. PICK e \in Nat : Exact(Graph, loaded, t, e)
        BY <1>10, <2>1, <2>2, <3>1 DEF Final
      <3>3. t.hop \in Intf
        BY <1>4, <3>2 DEF Exact
      <3> QED BY <1>1, <1>4, <1>8, <1>9, <2>1, <2>2, <3>1, <3>2, <3>3 DEF Written
    <2>3. CASE j # k /\ j \in Ids(ToSet(paths))
      BY <1>1, <1>6, <2>3 DEF Ids, k
    <2>4. CASE j # k /\ Written(j)
      BY <1>1, <1>4, <1>7, <1>9, <2>4 DEF Written
    <2> QED BY <1>2, <2>2, <2>3, <2>4
  <1>12. LoadInv' /\ RunInv'
    BY <1>3 DEF LoadInv, RunInv
  <1>13. WriteInv'
    <2>1. \A u \in ToSet(paths') : Final(u)'
      BY <1>1, <1>2, <1>4, <1>6 DEF Final
    <2> QED BY <1>1, <1>5, <1>11, <2>1 DEF WriteInv
  <1>14. ASSUME pc' = "idle" PROVE \A j \in Reach(loaded) : Written(j)'
    <2>1. ToSet(paths') = {}
      BY <1>1, <1>6, <1>14
    <2> QED BY <1>11, <2>1 DEF Ids
  <1>15. IdleInv'
    BY <1>1, <1>5, <1>14 DEF IdleInv
  <1>16. ReachedInv'
    <2>1. Reach(loaded) \subseteq reached /\ reached \subseteq DOMAIN topo \cup Reach(loaded)
      BY DEF Write, DecisionInv, ReachedInv
    <2>2. k \notin {Phantom, Self} => k \in Reach(loaded)
      BY <1>10, ExactHops DEF Final, k
    <2>3. DOMAIN topo' \ {Phantom, Self} \subseteq reached'
      BY <1>1, <1>9, <2>1, <2>2 DEF DecisionInv, ReachedInv
    <2>4. pc' = "idle" => reached' \subseteq DOMAIN topo'
      BY <1>1, <1>9, <1>14, <2>1 DEF Written
    <2> QED BY <1>1, <1>3, <1>5, <1>9, <2>1, <2>3, <2>4 DEF ReachedInv
  <1> QED BY <1>12, <1>13, <1>15, <1>16 DEF DecisionInv

LEMMA StepInv == DecisionInv /\ [Next]_vars => DecisionInv'
  <1> SUFFICES ASSUME DecisionInv, [Next]_vars PROVE DecisionInv'
    OBVIOUS
  <1>1. TypeInv'
    BY StepType DEF DecisionInv
  <1>2. CASE \E k \in System : NewLsp(k)
    BY <1>1, <1>2, NewLspInv
  <1>3. CASE LocalLsp
    BY <1>1, <1>3, LocalLspInv
  <1>4. CASE \E i \in Intf : AdjBegin(i) \/ AdjName(i) \/ AdjEnd(i)
    BY <1>1, <1>4, AdjInv DEF AdjBegin, AdjName, AdjEnd
  <1>5. CASE GiveUp \/ UNCHANGED vars
    BY <1>1, <1>5, AdjInv DEF GiveUp, vars
  <1>6. CASE Start
    BY <1>1, <1>6, StartInv
  <1>7. CASE Load
    BY <1>1, <1>7, LoadStepInv
  <1>8. CASE Loaded
    BY <1>1, <1>8, LoadedInv
  <1>9. CASE Extract
    BY <1>1, <1>9, ExtractInv
  <1>10. CASE Write
    BY <1>1, <1>10, WriteStepInv
  <1> QED BY <1>2, <1>3, <1>4, <1>5, <1>6, <1>7, <1>8, <1>9, <1>10 DEF Next

-----------------------------------------------------------------------------
(* The theorems                                                            *)

\* The state of computeSPF, UpdateDB and TopoDB keep their types.
THEOREM TypeCorrect == Spec => []TypeOK
  <1>1. TypeInv => TypeOK
    BY DEF TypeInv
  <1> QED BY <1>1, InitType, StepType, PTL DEF Spec

\* The inductive invariant of the decision process.
THEOREM DecisionInvariant == Spec => []DecisionInv
  BY InitInv, StepInv, PTL DEF Spec

\* computeSPF finds all that can be reached and only that, at its least distance
\* and over an interface on a shortest path, on every network.
THEOREM SpfIsShortest == Spec => []SpfShortest
  <1>1. DecisionInv => SpfShortest
    <2> SUFFICES ASSUME DecisionInv, pc = "run", tent = {}
                 PROVE  /\ Ids(ToSet(paths)) \ {Phantom, Self} = Reach(loaded)
                        /\ \A t \in ToSet(paths) : t.id \notin {Phantom, Self} =>
                             t.distance = Metric * Hops(loaded, t.id) /\ t.hop \in BestHops(loaded, t.id)
      BY DEF SpfShortest
    <2> QED BY RunDone, ExactHops DEF Final
  <1> QED BY <1>1, DecisionInvariant, PTL

\* After a run TopoDB says of every system that can be reached what UpdateDB says,
\* and holds no others but those that some earlier run could reach, whatever LSPs
\* came, grew or shrank and whatever adjacencies were written in between.
THEOREM TopoIsCurrent == Spec => []TopoCurrent
  <1>1. DecisionInv => TopoCurrent
    <2> SUFFICES ASSUME DecisionInv, pc = "idle", fresh
                 PROVE  /\ DOMAIN topo \ {Phantom, Self} = reached
                        /\ \A k \in Reach(loaded) :
                             topo[k].distance = Metric * Hops(loaded, k)
                               /\ topo[k].hop \in BestHops(loaded, k)
      BY DEF TopoCurrent
    <2>1. DOMAIN topo \ {Phantom, Self} = reached
      BY DEF DecisionInv, ReachedInv, TypeInv, TypeOK
    <2>2. \A k \in Reach(loaded) : Written(k) /\ k # Phantom
      BY DEF DecisionInv, IdleInv, Reach
    <2>3. \A k \in Reach(loaded) :
            topo[k].distance = Metric * Hops(loaded, k) /\ topo[k].hop \in BestHops(loaded, k)
      BY <2>2, ExactHops DEF Written
    <2> QED BY <2>1, <2>3
  <1> QED BY <1>1, DecisionInvariant, PTL

\* A step that installs a route installs it over an interface on a shortest path
\* to a system that advertises the prefix.
THEOREM RoutesAreShortest == Spec => RoutesShortest
  <1> DEFINE Installed == \A p \in DOMAIN rib' \ DOMAIN rib :
                            \E k \in Reach(loaded) \cap DOMAIN lsps :
                              p \in Networks[k] /\ rib'[p] \in BestHops(loaded, k)
  <1>1. DecisionInv /\ [Next]_vars => [Installed]_vars
    <2> SUFFICES ASSUME DecisionInv, Next PROVE Installed
      OBVIOUS
    <2>1. CASE rib' = rib
      BY <2>1
    <2>2. CASE Write
      <3> DEFINE t == Head(paths)
      <3>1. PICK P \in Accepted(t) : rib' = InstallRoute(rib, t, P)
        BY <2>2 DEF Write
      <3>2. Final(t)
        BY <2>2, PathsFinal
      <3> HIDE DEF t
      <3> SUFFICES ASSUME NEW p \in DOMAIN rib' \ DOMAIN rib
                   PROVE  \E k \in Reach(loaded) \cap DOMAIN lsps :
                            p \in Networks[k] /\ rib'[p] \in BestHops(loaded, k)
        OBVIOUS
      <3>3. p \in P /\ rib'[p] = t.hop
        BY <3>1 DEF InstallRoute
      <3>4. t.id # Self /\ p \in DirectlyConnectedPrefixes(t.id)
        BY <3>3 DEF Accepted
      <3>5. t.id \in DOMAIN lsps /\ p \in Networks[t.id]
        BY <3>4 DEF DirectlyConnectedPrefixes
      <3>6. t.id # Phantom
        BY <3>5 DEF DecisionInv, TypeInv, TypeOK
      <3>7. t.hop \in BestHops(loaded, t.id) /\ t.id \in Reach(loaded)
        BY <3>2, <3>4, <3>6, ExactHops DEF Final
      <3> QED BY <3>3, <3>5, <3>7
    <2> QED BY <2>1, <2>2 DEF Next, NewLsp, LocalLsp, AdjBegin, AdjName, AdjEnd, GiveUp,
                              Start, Load, Loaded, Extract, runVars
  <1>2. Spec => [][Installed]_vars
    BY <1>1, DecisionInvariant, PTL DEF Spec
  <1> QED BY <1>2 DEF RoutesShortest

\* After a run no route to a network of a system that can be reached is missing,
\* except over a gateway that was being written.
THEOREM RoutesAreComplete == Spec => []RoutesComplete
  <1>1. DecisionInv => RoutesComplete
    BY DEF DecisionInv, IdleInv, Written, RoutesComplete
  <1> QED BY <1>1, DecisionInvariant, PTL
=============================================================================
