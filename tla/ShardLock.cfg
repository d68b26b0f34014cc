\* Three workers for four tasks that may block one: both the bursts that end
\* and the standstill are reached.
CONSTANTS
  Readers = {r1, r2}
  Inserters = {i1, i2}
  Putters = {p1}
  Evictor = Evictor
  Spills = 2
  Workers = 3
SPECIFICATION FairSpec
CHECK_DEADLOCK FALSE
INVARIANT StandstillNeedsEveryWorker
PROPERTY BurstEndsUnlessWorkersRunOut
