---------------------------- MODULE MCUpdateLine ----------------------------
(* The 3-node topology of topologies/3node-topo.yml: R1 -- R2 -- R3.       *)
EXTENDS UpdateProcess

MCNode == {"R1", "R2", "R3"}
MCIntf == {"r1e0", "r2e0", "r2e1", "r3e0"}
MCOwner == [i \in MCIntf |->
  CASE i = "r1e0" -> "R1" [] i = "r3e0" -> "R3" [] OTHER -> "R2"]
MCLan == [i \in MCIntf |->
  IF i \in {"r1e0", "r2e0"} THEN {"r1e0", "r2e0"} ELSE {"r2e1", "r3e0"}]

CallsRace == [i \in MCIntf |-> IF i \in {"r2e0", "r2e1"} THEN 1 ELSE 0]
CallsRelay == [i \in MCIntf |-> CASE i = "r1e0" -> 2 [] i = "r2e1" -> 1 [] OTHER -> 0]
NoRestart == [n \in MCNode |-> 0]
=============================================================================
