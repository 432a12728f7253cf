SPECIFICATION FairSpec
CONSTANTS
  a = a
  b = b
  bBare = bBare
  lobby = lobby
  r1 = r1
  t1 = t1
  NoPeer = NoPeer
  NoToken = NoToken
  NoProof = NoProof
  PeerId <- MCPeerId
  normalize_peer_id <- MCNormalize
  RoomId = {lobby, r1}
  DEFAULT_ROOM_ID = lobby
  Token = {t1}
  Proofs <- MCProofs
  DeniedTypes = {}
  MAX_ROOM_SIZE = 1
  IdleSecs = 1
INVARIANTS
  VoiceAndChatDisjoint
  RoomNeverOverfull
  MembersCanonical
  PrivateMembersAdmitted
  IdleAgeMatchesUse
PROPERTIES
  NoAdmissionLost
  RoomsOutliveMembers
  IdleRoomsCollected
CONSTRAINT LobbyAclUnused
