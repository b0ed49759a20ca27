SPECIFICATION Spec
CONSTANTS
  Node <- Four
  Link <- FourLink
  Dest = {"D"}
  Known <- OnlyANews
  Up <- LastUp
  MaxRewrites <- Never
INVARIANT RoutesDeliver
CHECK_DEADLOCK FALSE
