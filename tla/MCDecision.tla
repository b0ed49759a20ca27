----------------------------- MODULE MCDecision -----------------------------
(* Five nodes seen from R1, which has links to R2 and R4.  R3 is as far     *)
(* over the one as over the other, R5 nearer over R4.  R2 restarts: its LSP *)
(* loses R3 and lists an ID that belongs to nobody.  A network is named     *)
(* after its ends; the others are left out.                                 *)
EXTENDS Decision

Net == {"R1", "R2", "R3", "R4", "R5", "0000"}
NetIntf == 1..2
NetPeer == [i \in NetIntf |-> IF i = 1 THEN "R2" ELSE "R4"]
NetAdvertised == [k \in Net |->
  CASE k = "R2" -> {{"R1", "R3"}, {"R1", "0000"}} [] k = "R3" -> {{"R2", "R4", "R5"}}
    [] k = "R4" -> {{"R1", "R3", "R5"}} [] k = "R5" -> {{"R3", "R4"}} [] OTHER -> {}]
NetNetworks == [k \in Net |->
  CASE k = "R1" -> {"n12"} [] k = "R2" -> {"n12", "n23"}
    [] k = "R3" -> {"n23"} [] k = "R5" -> {"n5"} [] OTHER -> {}]
=============================================================================
