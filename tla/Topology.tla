------------------------------ MODULE Topology ------------------------------
(***************************************************************************)
(* The network a set of go-is-is daemons runs on.  A node owns interfaces  *)
(* (cfg.interfaces); an interface hangs on one Ethernet segment.  A frame  *)
(* written to an interface goes to l1_multicast, so every interface of the *)
(* segment hears it.                                                       *)
(***************************************************************************)
CONSTANTS
  Node,     \* the daemons
  Intf,     \* all their interfaces; an interface also stands for its MAC
  Owner,    \* Owner[i]: the node interface i belongs to
  Lan       \* Lan[i]: the interfaces on the segment of i, i included

ASSUME TopologyAssumption ==
  /\ Owner \in [Intf -> Node]
  /\ Lan \in [Intf -> SUBSET Intf]
  /\ \A i \in Intf : i \in Lan[i]
  /\ \A i \in Intf : \A j \in Lan[i] : Lan[j] = Lan[i]

\* cfg.interfaces of node n.
IntfsOf(n) == {i \in Intf : Owner[i] = n}

\* The interfaces of other nodes (or other interfaces of this one) reached by i.
Peers(i) == Lan[i] \ {i}

\* The receive sockets a frame sent on i ends up in.  recvFrame means to skip
\* the frames this host sent, but it compares its own MAC with bytes 6..12 of
\* `buf` just after buf.Reset(), which are the zeros of the buffer buf.Grow
\* allocated, so no frame is ever skipped: the sender's own receive socket
\* hears the frame as well.
Heard(i) == Lan[i]
=============================================================================
