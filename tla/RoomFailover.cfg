SPECIFICATION FairFailoverSpec
CONSTANTS
  a = a
  b = b
  c = c
  r1 = r1
  None = None
  Node = {a, b, c}
  KnownNode = {a}
  Room = {r1}
  ROOM_JOIN_MAX_ATTEMPTS = 1
  SendQueue = 2
  MaxFaults = 2
  MaxUser = 1
PROPERTIES
  RoomResumes
  NoHijack
CONSTRAINT
  Telling
CHECK_DEADLOCK FALSE
