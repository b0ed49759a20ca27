---------------------------- MODULE MCUpdateLink ----------------------------
(* Two nodes and one network: R1 -- R2.                                    *)
EXTENDS UpdateProcess

MCNode == {"R1", "R2"}
MCIntf == {"r1e0", "r2e0"}
MCOwner == [i \in MCIntf |-> IF i = "r1e0" THEN "R1" ELSE "R2"]
MCLan == [i \in MCIntf |-> MCIntf]
Calls31 == [i \in MCIntf |-> IF i = "r1e0" THEN 3 ELSE 1]
Calls11 == [i \in MCIntf |-> 1]
NoRestart == [n \in MCNode |-> 0]
R1Once == [n \in MCNode |-> IF n = "R1" THEN 1 ELSE 0]
=============================================================================
