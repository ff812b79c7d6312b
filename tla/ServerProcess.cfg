\* Three requests over two sessions with room for one, a start that may fail anywhere, and a signal.
SPECIFICATION FairSpec
CONSTANTS
  Requests = {r1, r2, r3}
  Sessions = {s1, s2}
  NoSession = NoSession
  MaxSessions = 1
CHECK_DEADLOCK FALSE
INVARIANTS SessionsAccounted ExitReleases
PROPERTIES RequestsEndOnce ShutdownEnds
