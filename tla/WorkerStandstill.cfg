\* The smallest burst that takes every worker of a machine with two.
CONSTANTS
  Readers = {r1}
  Inserters = {i1, i2}
  Putters = {}
  Evictor = Evictor
  Spills = 1
  Workers = 2
SPECIFICATION FairSpec
CHECK_DEADLOCK FALSE
PROPERTY DuePassEnds
