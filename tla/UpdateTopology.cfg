SPECIFICATION Spec
CONSTANTS
  Node <- MCNode
  Intf <- MCIntf
  Owner <- MCOwner
  Lan <- MCLan
  None = None
  Bogus = Bogus
  MaxCalls <- Calls11
  MaxLoss = 0
  MaxRestarts <- NoRestart
INVARIANT TopologyKnownWhenQuiet
CHECK_DEADLOCK FALSE
