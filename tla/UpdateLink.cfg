SPECIFICATION FairSpec
CONSTANTS
  Node <- MCNode
  Intf <- MCIntf
  Owner <- MCOwner
  Lan <- MCLan
  None = None
  Bogus = Bogus
  MaxCalls <- Calls31
  MaxLoss = 0
  MaxRestarts <- R1Once
INVARIANT NoLostFlood
PROPERTIES RemoteLspsOnlyGrow ImplementsLinkState LinksConverge
CHECK_DEADLOCK FALSE
