SPECIFICATION Spec
CONSTANTS
  n1 = n1  n2 = n2  n3 = n3  n4 = n4
  v1 = v1  v2 = v2
  Node = {n1, n2, n3, n4}
  Faulty = {}
  Data = {v1, v2}
  NoData = NoData
  SessionNodes <- GeneratedConfig
  ChainNodes <- GeneratedConfig
  ClientNodes <- AllNodes
  SIZE_MOD = 256
INVARIANT Agreement
CHECK_DEADLOCK FALSE
