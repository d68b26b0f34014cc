\* A SET, DEL or FLUSH while the evictor writes the entry's file.
CONSTANTS
  Keys = {k1}
  Values = {v1, v2}
  Digests = {}
  Conns = {c1}
  Readers = {}
  MaxId = 4
  NoFile = NoFile
  Partial = Partial
  Failed = Failed
  Evictor = Evictor
SPECIFICATION Spec
PROPERTY SpillIsATierMove
CHECK_DEADLOCK FALSE
