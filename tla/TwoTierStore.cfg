\* Two connections and a Docker reader against the evictor, the spawned tasks fair.
CONSTANTS
  Keys = {k1}
  Values = {v1, v2}
  Digests = {d1}
  Conns = {c1, c2}
  Readers = {r1}
  MaxId = 3
  NoFile = NoFile
  Partial = Partial
  Failed = Failed
  Evictor = Evictor
SPECIFICATION FairSpec
INVARIANTS
  GetReturnsWrittenValue
  TypeOK
  OnDiskIsBacked
  NoLeakedRedisFile
  DiskBlobIsServed
PROPERTIES
  RedisFileReclaimed
  KeepsPromise
  
CHECK_DEADLOCK FALSE
