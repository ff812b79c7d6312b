\* Two barriers over two sessions and one piece of work, or one barrier and two pieces of work, each
\* retried once, with background and explicit drains.
SPECIFICATION FairSpec
CONSTANTS
  Sessions = {s1, s2}
  Slots = {"edges"}
  Barriers = {b1, b2}
  NoDrain = NoDrain
  NoSession = NoSession
  BufferSize = 2
  MaxRetries = 1
  MaxWork = 2
  MaxCalls = 3
INVARIANTS BarriersOwn
PROPERTIES AcceptedWorkEndures ResolvedDrainIsComplete EverythingSettles
