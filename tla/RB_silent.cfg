SPECIFICATION FairSpec
CONSTANTS
  n1 = n1  n2 = n2  n3 = n3  n4 = n4
  v1 = v1  v2 = v2
  Node = {n1, n2, n3, n4}
  Faulty = {n4}
  Data = {v1}
  NoData = NoData
  SessionNodes <- FullConfig
  ChainNodes <- FaultySilent
  ClientNodes <- AllNodes
  SIZE_MOD = 256
PROPERTY Validity
CHECK_DEADLOCK FALSE
