\* Two sessions of one owner with room for both: the reset of one overlaps the reset or
\* the eviction of the other.  Nobody reads or drains outside the lifecycle.
SPECIFICATION Spec
CONSTANTS
  Sessions = {s1, s2}
  Owners = {o1}
  NoOwner = NoOwner
  NoSession = NoSession
  Requests = {r1, r2}
  Absent = Absent
  Unmarked = Unmarked
  MaxSessions = 2
  MaxPerOwner = 2
  DirectReads = FALSE
  DirectDrains = FALSE
  Crashes = FALSE
INVARIANT DeletionIsFinal
