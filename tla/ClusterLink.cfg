SPECIFICATION ClusterFairSpec
CONSTANTS
  r1 = r1
  alice = alice
  bob = bob
  Roots <- MCRoots
  NoConn = NoConn
  Free = Free
  Absent = Absent
  InUse = InUse
  Node = {1, 2}
  Conn = {11, 12, 13}
  Room = {r1}
  IDLE_ROOM_GC_SECS = 1
  MaxEpoch = 2
  MaxFaults = 1
  MaxEvents = 2
PROPERTIES
  MeshHeals
  GossipConverges
  EquivocationSurfaces
CHECK_DEADLOCK FALSE
