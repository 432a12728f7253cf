SPECIFICATION Spec
CONSTANTS
  p1 = p1
  p2 = p2
  c1 = c1
  c2 = c2
  c3 = c3
  r1 = r1
  r2 = r2
  s1 = s1
  s2 = s2
  None = None
  Peer = {p1, p2}
  Conn = {c1, c2, c3}
  Room = {r1, r2}
  Session = {}
  MaxIndex = 2
  MAX_PEERS = 3
INVARIANTS
  IndexBijection
  RoommatesReachable
PROPERTIES
  DepartedLeaveNoTrace
  RoomSurvivesReconnect
SYMMETRY RelaySymmetry
CONSTRAINT OneSubscriber
