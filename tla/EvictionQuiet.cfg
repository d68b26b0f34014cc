\* Passes no request disturbs, from every content of a small cache; the clock moves.
CONSTANTS
  None = None
  m1 = m1
  m2 = m2
  dLarge = dLarge
  dSmall = dSmall
  Manifests = {m1, m2}
  Digests = {dLarge, dSmall}
  Keys = {k1}
  Tags = {}
  Refs <- TwoRefs
  BlobSize <- TwoSizes
  ManifestSize = 1
  RedisSizes = {1, 4}
  KeySize = 1
  Threshold = 2
  SmallLimit = 4
  MemoryLimit = 8
  DiskLimit = 4
  Grace = 1
  StartNow = 2
  MaxNow = 3
  MaxOps = 0
SPECIFICATION Spec
INVARIANTS
  TypeOK
  UnreferencedBlobIsGone
  TargetsMetOrNothingLeft
  UsageIsNotUnderstated
PROPERTIES
  LeastRecentlyUsedGoesFirst
  GaugeIsNotTooLate
CHECK_DEADLOCK FALSE
