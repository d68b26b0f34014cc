\* Any number of starts of a small cache, stopped or killed anywhere; pushes over an empty store.
CONSTANTS
  Keys = {k1}
  Values = {v1, v2}
  Digests = {d1}
  Conns = {c1}
  Readers = {}
  Manifests = {m1, m2}
  MaxId = 3
  NoFile = NoFile
  Partial = Partial
  Failed = Failed
  Inline = {v1}
  NoSnapshot = NoSnapshot
  Corrupt = Corrupt
  Nobody = Nobody
SPECIFICATION LifeSpec
INVARIANTS
  NextIdIsUnused
  DiskSurvivesRestarts
  RestartKeepsRedis
  RestoredTagIsUsable
CONSTRAINT Followed
CHECK_DEADLOCK FALSE
