SPECIFICATION FairSpec
CONSTANTS
  t1 = t1
  t2 = t2
  Thread = {t1, t2}
  Length = {1, 2}
  PEER_QUEUE_MAX_BYTES = 3
  MAX_FRAME = 1
  Transport = "ws"
  MaxSends = 6
INVARIANTS
  AccountingExact
PROPERTIES
  ImplementsPipe
  OverflowStopsWriter
CHECK_DEADLOCK FALSE
