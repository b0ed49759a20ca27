------------------------------ MODULE MCHello ------------------------------
(* Two nodes on one network: R1 -- R2.  The ID of R1 may be spelled in      *)
(* upper case, and may be taken away or be given again; R2 may get one that *)
(* is not hex.                                                              *)
EXTENDS Hello

MCNode == {"R1", "R2"}
MCIntf == {"r1e0", "r2e0"}
MCOwner == [i \in MCIntf |-> IF i = "r1e0" THEN "R1" ELSE "R2"]
MCLan == [i \in MCIntf |-> MCIntf]
MCSixBytes == {"zeros", "bees", "ones"}
MCPrint == [b \in MCSixBytes |->
  CASE b = "zeros" -> "0000.0000.0000" [] b = "bees" -> "bbbb.bbbb.bbbb"
    [] OTHER -> "1111.1111.1111"]
MCSid == {"", "BBBB.BBBB.BBBB", "not an ID"} \cup {MCPrint[b] : b \in MCSixBytes}
MCDecode == [s \in MCSid |->
  CASE s \in {"bbbb.bbbb.bbbb", "BBBB.BBBB.BBBB"} -> "bees"
    [] s = "1111.1111.1111" -> "ones" [] OTHER -> "zeros"]
MCChoice == [n \in MCNode |->
  IF n = "R1" THEN <<{"bbbb.bbbb.bbbb", "BBBB.BBBB.BBBB"}, {"", "bbbb.bbbb.bbbb"}>>
              ELSE <<{"1111.1111.1111", "not an ID"}>>]
=============================================================================
