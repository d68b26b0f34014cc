\* Two requests of any kind, also for one upload at the same time.
CONSTANTS
  Bytes = {a, b}
  MaxLen = 2
  Uuids = {u1}
  Requests = {r1, r2}
  NoBlob = NoBlob
SPECIFICATION Spec
SYMMETRY Symmetry
INVARIANTS
  SerialContentMatchesDigest
  WrongContentNeedsSecondTake
  TakenUploadIsUnreachable
