SPECIFICATION FairSpec
CONSTANTS
  None = None
  p1 = p1
  p2 = p2
  h1 = h1
  h2 = h2
  Peer = {p1, p2}
  Handler = {h1, h2}
  MaxVersion = 3
INVARIANTS
  DirtyNeverStranded
  QuiescentMeansInformed
PROPERTY
  NoNotedChangeLost
