SPECIFICATION Spec
CONSTANTS
  System <- Net
  Self = "R1"
  Phantom = "0000"
  NoHop = NoHop
  Intf <- NetIntf
  Peer <- NetPeer
  Advertised <- NetAdvertised
  MaxPending = 1
  MaxRewrites = 1
  Networks <- NetNetworks
INVARIANTS TypeOK SpfShortest TopoCurrent RoutesComplete
PROPERTY RoutesShortest
CHECK_DEADLOCK FALSE
