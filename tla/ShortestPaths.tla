--------------------------- MODULE ShortestPaths ---------------------------
(***************************************************************************)
(* Hop counts in a directed graph g, a function from every system to the   *)
(* set of its neighbors: the reference that computeSPF is held against.    *)
(***************************************************************************)
EXTENDS Integers, FiniteSets

\* B and the neighbors of its members.
Widen(g, B) == B \cup UNION {g[k] : k \in B \cap DOMAIN g}

\* Ball(g, S)[d]: the systems within d hops of a system of S.
Ball(g, S) ==
  LET ball[d \in Nat] == IF d = 0 THEN S ELSE Widen(g, ball[d - 1])
  IN ball

\* All that can be reached from S.
Reachable(g, S) == Ball(g, S)[Cardinality(DOMAIN g)]

\* The hops from S to k, one of the systems that can be reached.
Distance(g, S, k) ==
  CHOOSE d \in 0..Cardinality(DOMAIN g) :
    k \in Ball(g, S)[d] /\ \A e \in 0..(d - 1) : k \notin Ball(g, S)[e]

\* The members of S on a shortest path to k.
Nearest(g, S, k) == LET d == Distance(g, S, k) IN {s \in S : k \in Ball(g, {s})[d]}
=============================================================================
