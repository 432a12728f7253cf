SPECIFICATION GuardSpec
CONSTANTS
  a = a
  b = b
  m1 = m1
  m2 = m2
  f1 = f1
  n1 = n1
  Sender = {a, b}
  Msg = {m1, m2, f1, n1}
  sender_of <- MCSenderOf
  kind_of <- MCKindOf
  timestamp <- MCTimestamp
  WindowSecs = 2
  MAX_ENTRIES_PER_SENDER = 2
  MaxTime = 6
INVARIANTS
  RoutedAtMostOnce
  WindowBounded
PROPERTY
  NoLiveEntryEvicted
CHECK_DEADLOCK FALSE
