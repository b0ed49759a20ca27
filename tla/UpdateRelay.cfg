SPECIFICATION Spec
CONSTANTS
  Node <- MCNode
  Intf <- MCIntf
  Owner <- MCOwner
  Lan <- MCLan
  None = None
  Bogus = Bogus
  MaxCalls <- CallsRelay
  MaxLoss = 1
  MaxRestarts <- NoRestart
INVARIANTS TypeOK NoLostFlood LinksAgreeWhenQuiet
PROPERTIES RemoteLspsOnlyGrow ImplementsLinkState
CHECK_DEADLOCK FALSE
