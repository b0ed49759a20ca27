SPECIFICATION Spec
CONSTANTS
  Hosts <- MCHosts
  Nil = Nil
  Sid <- MCSid
  Sequences <- MCSequences
  Adjacencies <- MCAdjacencies
  MaxHops = 2
  PeerMac <- MCPeerMac
  PeerSid <- MCPeerSid
INVARIANTS
  SlotsMatchLinks
  LspArrives
  HopsAgree
  AnswerUnderstood
CHECK_DEADLOCK FALSE
