SPECIFICATION ChainSpec
CONSTANTS
  n1 = n1  n2 = n2  n3 = n3  n4 = n4
  v1 = v1  v2 = v2
  Node = {n1, n2, n3, n4}
  Faulty = {}
  Restarting = {n4}
  MaxRestarts = 1
  Data = {v1, v2}
  NoData = NoData
  SessionNodes <- FullConfig
  ChainNodes <- Links
  ClientNodes <- SplitClients
  SIZE_MOD = 256
INVARIANT AgreementAcrossRestarts
PROPERTY SteadyNodesKeepSpec
CHECK_DEADLOCK FALSE
