SPECIFICATION FairSpec
CONSTANTS
  Intf = {e0}
  Decision = {1}
  Rpc = {1}
  RpcKinds = {"Other"}
INVARIANT DeadlockFree
PROPERTY UpdatesEnd
