\* A manifest is pushed while a pass runs.
CONSTANTS
  None = None
  m1 = m1
  m2 = m2
  dLarge = dLarge
  dSmall = dSmall
  Manifests = {m1}
  Digests = {dLarge}
  Keys = {}
  Tags = {}
  Refs <- OneRef
  BlobSize <- OneSize
  ManifestSize = 2
  RedisSizes = {1, 4}
  KeySize = 1
  Threshold = 2
  SmallLimit = 1
  MemoryLimit = 4
  DiskLimit = 3
  Grace = 1
  StartNow = 1
  MaxNow = 2
  MaxOps = 1
SPECIFICATION Spec
PROPERTY ReferencedBlobIsKept
CHECK_DEADLOCK FALSE
