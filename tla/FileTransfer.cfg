SPECIFICATION FairSpec
CONSTANTS
  p1 = p1
  p2 = p2
  Peer = {p1}
  Friend = p1
  Nobody = Nobody
  Total = 2
  CHUNK_BUDGET = 2
  STALL_GIVE_UP = 1
  TRANSFER_RETAIN = 1
  OFFER_TTL = 2
  MaxPasses = 2
  MaxLost = 1
INVARIANTS
  NoHoles
PROPERTIES
  StreamsEnd
CHECK_DEADLOCK FALSE
