SPECIFICATION Spec
CONSTANTS
  Message <- ShortMessages
  Cell = {0, 3}
  MAX_LENGTH = 10
  MaxSent = 2
INVARIANTS TypeOK ProcessedWasSent ReceivedIsProcessed
CHECK_DEADLOCK FALSE
