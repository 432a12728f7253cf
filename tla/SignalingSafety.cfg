SPECIFICATION Spec
CONSTANTS
  a = a
  aPadded = aPadded
  b = b
  hexA = hexA
  hexB = hexB
  None = None
  s1 = s1
  s2 = s2
  s3 = s3
  x1 = x1
  x2 = x2
  Key = {a, aPadded, b}
  PeerId = {hexA, hexB}
  peer_id_alias_for <- MCAlias
  Socket = {s1, s2, s3}
  Stream = {x1, x2}
INVARIANTS
  CountExact
  HexResolvesToOwner
  RegisteredIsServed
PROPERTY
  OnlyOwnExitUnregisters
SYMMETRY ConnSymmetry
CHECK_DEADLOCK FALSE
