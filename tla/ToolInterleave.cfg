\* Three requests over two sessions, with one tool call: in the lock's chain, a place that
\* timed out between a section and a call that waits.
SPECIFICATION FairSpec
CONSTANTS
  Sessions = {s1, s2}
  Requests = {r1, r2, r3}
  Tokens = {t1}
  NoSession = NoSession
  NoRequest = NoRequest
  NoToken = NoToken
INVARIANTS CallsAndAnswers NoLeakedTail
PROPERTIES TokensAreNotLost EveryRequestSettles NoCallStuck FifoSpec
