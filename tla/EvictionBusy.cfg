\* A request of any kind beside passes that are scheduled fairly; two manifests share a blob, and
\* a grace period of two ticks keeps the younger ones.
CONSTANTS
  None = None
  m1 = m1
  m2 = m2
  dLarge = dLarge
  dSmall = dSmall
  Manifests = {m1, m2}
  Digests = {dLarge}
  Keys = {k1}
  Tags = {t1}
  Refs <- SharedRef
  BlobSize <- OneSize
  ManifestSize = 2
  RedisSizes = {4}
  KeySize = 1
  Threshold = 2
  SmallLimit = 4
  MemoryLimit = 8
  DiskLimit = 4
  Grace = 2
  StartNow = 2
  MaxNow = 2
  MaxOps = 1
SPECIFICATION FairSpec
PROPERTIES
  PassEnds
  LossNeedsPush
  DanglingTagNeedsPut
  YoungLossNeedsHit
CHECK_DEADLOCK FALSE
