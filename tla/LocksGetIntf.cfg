SPECIFICATION Spec
CONSTANTS
  Intf = {e0}
  Decision = {1}
  Rpc = {1}
  RpcKinds = {"GetIntf", "Other"}
INVARIANT ParallelWithQueries
