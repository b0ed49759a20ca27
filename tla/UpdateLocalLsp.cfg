SPECIFICATION Spec
CONSTANTS
  Node <- MCNode
  Intf <- MCIntf
  Owner <- MCOwner
  Lan <- MCLan
  None = None
  Bogus = Bogus
  MaxCalls <- CallsRace
  MaxLoss = 0
  MaxRestarts <- NoRestart
INVARIANT LocalLspCurrent
CHECK_DEADLOCK FALSE
