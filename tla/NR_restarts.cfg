SPECIFICATION Spec
CONSTANTS
  n1 = n1  n2 = n2  n3 = n3  n4 = n4
  v1 = v1  v2 = v2
  Self = n1
  Node = {n1, n2, n3, n4}
  Data = {v1, v2}
  NoData = NoData
  MaxRestarts = 1
  SIZE_MOD = 256
SYMMETRY Symmetry
INVARIANTS TypeOK CommitsWithinReadies
CHECK_DEADLOCK FALSE
