\* Two clients beside the loop, four operations in all.
CONSTANTS
  RedisKeys = {k1}
  Manifests = {m1}
  Clients = {c1, c2}
  Sizes = {1, 3}
  KeyLen = 1
  Limit = 4
  PinnedSizes = {0, 2, 5}
  MaxOps = 4
SPECIFICATION FairSpec
INVARIANTS
  TypeOK
  PressureIsVisible
PROPERTY LimitIsEnforced
CHECK_DEADLOCK FALSE
