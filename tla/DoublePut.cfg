\* The same PUT sent twice, the second before the first is answered.
CONSTANTS
  Bytes = {a, b}
  MaxLen = 1
  Uuids = {u1}
  Requests = {r1, r2}
  NoBlob = NoBlob
SPECIFICATION Spec
INVARIANT ContentMatchesDigest
