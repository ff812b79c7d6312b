\* Four overlapping calls over two sessions: operations, exclusives that wait for them, and third parties.
SPECIFICATION FairSpec
CONSTANTS
  Sessions = {s1, s2}
  Calls = {c1, c2, c3, c4}
  NoSession = NoSession
  NoCall = NoCall
  ShutdownFromContext = FALSE
INVARIANTS MutationIsolation NoLostWakeup
PROPERTIES OutcomesStand EveryCallSettles LockSpec
\* A stopped server accepts no call.
CHECK_DEADLOCK FALSE
