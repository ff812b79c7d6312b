\* Three callers, room for three slots, and one name more for a server that comes too late.
SPECIFICATION FairSpec
CONSTANTS
  Sessions = {s1, s2, s3, s4}
  Callers = {c1, c2, c3}
  NoSession = NoSession
  NoCaller = NoCaller
  MaxSessions = 3
CHECK_DEADLOCK FALSE
INVARIANTS CapacityHeld DisposalIsComplete
PROPERTIES EveryWaitEnds
