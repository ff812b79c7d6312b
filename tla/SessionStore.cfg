\* Two overlapping requests of two owners and the ownerless context on two names, with room
\* for one session, reads and drains outside the lifecycle, failing writes, and restarts
\* at any step of the requests on a single name.
SPECIFICATION Spec
CONSTANTS
  Sessions = {s1, s2}
  Owners = {o1, o2}
  NoOwner = NoOwner
  NoSession = NoSession
  Requests = {r1, r2}
  Absent = Absent
  Unmarked = Unmarked
  MaxSessions = 1
  MaxPerOwner = 1
  DirectReads = TRUE
  DirectDrains = TRUE
  Crashes = TRUE
SYMMETRY Symmetry
CONSTRAINT RestoredAlone
INVARIANTS ChainIsolation LiveMatchesStored
PROPERTIES EvictionsRespectUse
