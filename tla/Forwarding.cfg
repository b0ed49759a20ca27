SPECIFICATION Spec
CONSTANTS
  Node <- Four
  Link <- FourLink
  Dest = {"D"}
  Known <- AllKnown
  Up <- LastUp
  MaxRewrites <- OnceByA
INVARIANTS FloodedEverywhere HopsFitTogether
CHECK_DEADLOCK FALSE
