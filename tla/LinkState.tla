----------------------------- MODULE LinkState -----------------------------
(***************************************************************************)
(* What the update process promises, without the means: every node holds   *)
(* at most one version of each node's LSP.  A version enters the network   *)
(* when its originator issues it, and another node takes it only if it is  *)
(* newer than the one it holds.  A node may lose all it holds.             *)
(***************************************************************************)
EXTENDS Naturals

CONSTANTS
  Node,   \* the originators, and the nodes that hold LSPs
  Id      \* the neighbor IDs an LSP may list

VARIABLES
  issued, \* issued[k]: the versions node k has ever issued
  held    \* held[n][k]: the version of k's LSP that n holds

vars == <<issued, held>>

Version(k) == [id : {k}, seq : Nat \ {0}, nbrs : SUBSET Id]

\* Stands for the LSP of k where none is held; it is older than every version.
Absent(k) == [id |-> k, seq |-> 0, nbrs |-> {}]

Nothing == [k \in Node |-> Absent(k)]

Init ==
  /\ issued = [k \in Node |-> {}]
  /\ held = [n \in Node |-> Nothing]

\* n issues a version of its own LSP and holds it.  Its number may be smaller
\* than that of an earlier one: a restarted node does not know what it issued.
Originate(n) ==
  \E l \in {held'[n][n]} :
    /\ l \in Version(n)
    /\ issued' = [issued EXCEPT ![n] = @ \cup {l}]
    /\ held' = [held EXCEPT ![n][n] = l]

\* n takes a newer version of the LSP of k.
Adopt(n, k) ==
  \E l \in issued[k] :
    /\ held[n][k].seq < l.seq
    /\ held' = [held EXCEPT ![n][k] = l]
    /\ UNCHANGED issued

Forget(n) ==
  /\ held' = [held EXCEPT ![n] = Nothing]
  /\ UNCHANGED issued

Next == \E n \in Node : Originate(n) \/ (\E k \in Node : Adopt(n, k)) \/ Forget(n)

Spec == Init /\ [][Next]_vars
=============================================================================
