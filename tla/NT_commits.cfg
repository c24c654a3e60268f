SPECIFICATION FairSpec
CONSTANTS
  n1 = n1  n2 = n2  n3 = n3  n4 = n4
  v1 = v1  v2 = v2
  d1 = d1  d2 = d2  d3 = d3  d4 = d4  d5 = d5  d6 = d6
  t1 = t1  t2 = t2
  Thread = {t1, t2}
  Self = n1
  Node = {n1, n2, n3, n4}
  Data = {v1, v2}
  NoData = NoData
  NoSession = NoSession
  NoDatagram = NoDatagram
  Datagram = {d1, d2, d3, d4, d5}
  Content <- MixedContent
  SIZE_MOD = 256
PROPERTY QuorumCommits
CHECK_DEADLOCK FALSE
