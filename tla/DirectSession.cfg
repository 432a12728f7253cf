SPECIFICATION FairSpec
CONSTANTS
  a = a
  b = b
  None = None
  Peer = {a, b}
  Conn = {1, 2, 3, 4}
  Endpoint = {a, b}
  MaxFaults = 1
INVARIANT BeliefIsBacked
PROPERTY SessionsConverge
CHECK_DEADLOCK FALSE
