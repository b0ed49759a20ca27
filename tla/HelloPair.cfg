SPECIFICATION FairSpec
CONSTANTS
  Node <- MCNode
  Intf <- MCIntf
  Owner <- MCOwner
  Lan <- MCLan
  Sid <- MCSid
  SixBytes <- MCSixBytes
  DecodeSid <- MCDecode
  PrintSid <- MCPrint
  Choice <- MCChoice
  Unset = ""
  Zero = "zeros"
  NoTlv = NoTlv
  MaxInFlight = 1
  MaxFaults = 1
INVARIANTS TypeOK UnconfiguredNeverUp UpIsMutual
PROPERTY ConfiguredComesUp
CHECK_DEADLOCK FALSE
