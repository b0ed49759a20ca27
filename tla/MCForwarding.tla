---------------------------- MODULE MCForwarding ----------------------------
(* A ring of four, in which the adjacency of A with D is the last to come   *)
(* up.  Either all LSPs are everywhere, and A writes an adjacency that is   *)
(* UP again at any time, or A's own LSP is still on A only.                 *)
EXTENDS Forwarding

Four == {"A", "B", "C", "D"}
FourLink == [n \in Four |-> CASE n = "A" -> {"B", "D"} [] n = "B" -> {"A", "C"}
                              [] n = "C" -> {"B", "D"} [] OTHER -> {"C", "A"}]
LastUp == [n \in Four |-> IF n = "A" THEN {"B"} ELSE FourLink[n]]
AllKnown == [n \in Four |-> Four]
OnlyANews == [n \in Four |-> IF n = "A" THEN Four ELSE Four \ {"A"}]
Never == [n \in Four |-> 0]
OnceByA == [n \in Four |-> IF n = "A" THEN 1 ELSE 0]
=============================================================================
