SPECIFICATION Spec
CONSTANTS
  s1 = s1
  Client = {1, 2, 3}
  Founders = {2, 3}
  Server = {s1}
  RING = 16
  MAX_EPOCH_ADVANCE = 6
  MAX_RETAINED_EPOCHS = 2
  GROUP_KEY_MAX_ATTEMPTS = 2
  MaxMinted = 4
  MaxChurn = 2
  MaxLost = 1
  MaxLate = 1
  MaxInFlight = 3
CONSTRAINT Bounded
INVARIANTS
  NoEpochWedge
  EpochConfined
 
CHECK_DEADLOCK FALSE
