SPECIFICATION FairSpec
CONSTANTS
  n1 = n1  n2 = n2
  Node = {n1, n2}
  Iterations = 2
  MaxSends = 2
  MaxExtras = 1
  Foreign = Foreign
  Nothing = Nothing
INVARIANTS TypeOK ErrsTowardsLoss QueueNeverTooSmall
PROPERTY FullCount
CONSTRAINT Few
CHECK_DEADLOCK FALSE
