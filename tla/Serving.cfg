\* Two requests, two spots (one old, with a plain NZB), and the maintenance pass.
SPECIFICATION Spec
CONSTANTS
  Request = {r1, r2}
  Spot = {1, 2}
  Posted <- MCPosted
  Hidden = {}
  HasNzb = {1, 2}
  HasImage = {1}
  Plain = {2}
  Retention = 1
  Chunk = 1
  CacheMax = 1
  Batch = 1
  FirstDay = 1
  MaxTime = 2
  MaxFaults = 1
SYMMETRY MCSymmetry
INVARIANTS
  TypeOK
  WholeNzbs
PROPERTIES
  RetentionTakesNzbs
  EvictionSuffices
  ImagesFirst
