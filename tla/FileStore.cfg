\* Two processes and three mutations; every file operation may fail, every process may crash.
SPECIFICATION FairSpec
CONSTANTS
  Procs = {p1, p2}
  Writes = {w1, w2, w3}
  MaxStarts = 4
  QueueBound = 2
CHECK_DEADLOCK FALSE
INVARIANTS DirectoryOwnership AcknowledgedIsDurable
PROPERTIES FileCallsSettle
