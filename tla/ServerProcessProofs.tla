----------------------------- MODULE ServerProcessProofs -----------------------------
(* Proofs about ServerProcess and the transports under it, for any requests, any    *)
(* session identifiers and any limit on sessions.                                    *)
(*                                                                                   *)
(* The transport's invariants speak of its own variables and are shown for each of   *)
(* its steps, whoever takes them; what the process does rests on them.               *)
EXTENDS ServerProcess, FiniteSetTheorems, TLAPS

\* Where a request stands, and what it was told.
RequestsTyped ==
  /\ phase \in [Requests -> {"unseen", "reading", "receiving", "done"}]
  /\ reason \in [Requests -> {"none", "peer", "shutdown", "timeout"}]
  /\ answer \in [Requests -> Answers \cup {"notFound", "full"}]
  /\ listener \in {"down", "open", "closing", "closed"}
  /\ stop \in {"none", "pending", "settled"}

\* A lease that nothing cancelled is open: its client was told nothing, and the transport runs.
Leases ==
  /\ \A r \in Requests : phase[r] = "unseen" => answer[r] = "none" /\ reason[r] = "none"
  /\ \A r \in Requests : phase[r] = "reading" /\ reason[r] = "none" =>
       answer[r] = "none" /\ stop = "none"
  /\ listener = "down" => stop = "none" /\ \A r \in Requests : phase[r] = "unseen"
  /\ listener \in {"closing", "closed"} => stop # "none"
  /\ stop = "settled" => \A r \in Requests : phase[r] \notin {"reading", "receiving"}

SessionsTyped ==
  /\ status \in [Sessions -> {"unused", "live", "gone"}]
  /\ pins \in [Sessions -> Nat]
  /\ expired \subseteq Sessions
  /\ pinned \in [Requests -> Sessions \cup {NoSession}]

\* A pin belongs to a handler that runs, and its session lives until the transport stops.
PinsAreHeld ==
  \A r \in Requests : pinned[r] # NoSession =>
    phase[r] = "receiving" /\ (stop # "none" \/ status[pinned[r]] = "live")

PinsAreCounted == \A s \in Sessions : IsFiniteSet(Pinned(s)) /\ pins[s] = Cardinality(Pinned(s))

TableBounded ==
  /\ IsFiniteSet(Live)
  /\ Cardinality(Live) <= MaxSessions
  /\ stop # "none" => Live = {}

Transport ==
  RequestsTyped /\ Leases /\ SessionsTyped /\ PinsAreHeld /\ PinsAreCounted /\ TableBounded

ProcessTyped ==
  /\ boot \in {"persistence", "container", "watchers", "loading", "discovering", "configuring",
               "listening", "serving", "disposing", "rollback"}
  /\ store \in {"none", "open", "closed", "unclosed"}
  /\ watchers \in {"off", "on"}
  /\ refresh \in BOOLEAN /\ unsaved \in BOOLEAN /\ faults \in BOOLEAN
  /\ down \in {"up", "draining", "watchers", "flushing", "closing", "stopped", "failed"}
  /\ cli \in {"up", "transport", "server", "settled", "timedOut"}
  /\ process \in {"running", "clean", "error"}

Starting ==
  boot \in {"persistence", "container", "watchers", "loading", "discovering", "configuring",
            "listening"}

\* How far the start has come, and what it has not begun yet.
BootOrder ==
  /\ Starting => down = "up" /\ cli = "up" /\ stop = "none"
  /\ boot # "serving" =>
       listener \in {"down", "closed"} /\ ~refresh /\ \A r \in Requests : phase[r] = "unseen"
  /\ boot = "persistence" => store = "none"
  /\ boot \in {"persistence", "container"} => watchers = "off"

\* The shutdown goes in order: the transport, the watchers, the buffer, the backend.
ShutdownOrder ==
  /\ boot = "serving" /\ down # "up" => stop = "settled"
  /\ cli = "transport" => down = "up"
  /\ cli = "settled" => down \in {"stopped", "failed"}
  /\ down \in {"flushing", "closing", "stopped", "failed"} => ~refresh /\ watchers = "off"
  /\ down \in {"closing", "stopped", "failed"} => faults \/ ~unsaved
  /\ down = "stopped" => ~faults /\ store = "closed"
  /\ down = "failed" => store \in {"closed", "unclosed"}
  /\ store \in {"closed", "unclosed"} => down \in {"stopped", "failed"} \/ (Starting /\ process = "error")
  /\ process = "clean" => cli = "settled" /\ down = "stopped"
  /\ process = "error" => \/ cli = "timedOut" \/ down \in {"stopped", "failed"}
                          \/ boot \in {"persistence", "container"} /\ store # "open"

IInv == Transport /\ ProcessTyped /\ BootOrder /\ ShutdownOrder

--------------------------------------------------------------------------------------
(* The transport.                                                                    *)

\* What changes the requests, and leaves the work that was dispatched alone.
UndispatchedStep ==
  \/ Listen \/ ListenerCloses \/ StopSettles
  \/ \E r \in Requests :
       \/ TurnAway(r) \/ Acquire(r) \/ AbortRead(r) \/ Timeout(r) \/ PeerGone(r)
       \/ \E text \in {"tooLarge", "broken", "invalid", "notFound", "full"} : Reject(r, text)
  \/ ForceClose
  \/ UNCHANGED requestVars

\* What changes the requests, whatever becomes of the sessions.
RequestStep ==
  UndispatchedStep \/ Stop \/ \E r \in Requests : Transfer(r) \/ Received(r)

TransportStep ==
  \/ UndispatchedStep /\ UNCHANGED sessionVars
  \/ \E r \in Requests : Finish(r) \/ Open(r) \/ \E s \in Sessions : Resume(r, s)
  \/ StopTransport
  \/ (Sweep \/ \E s \in Sessions : GrowIdle(s))

LEMMA TransportSteps == [Next]_vars => TransportStep
<1> SUFFICES ASSUME [Next]_vars PROVE TransportStep
  OBVIOUS
<1>1. ASSUME UNCHANGED transportVars PROVE TransportStep
  BY <1>1 DEF TransportStep, UndispatchedStep, transportVars, requestVars, sessionVars
<1>2. ASSUME NEW r \in Requests, Request(r) PROVE TransportStep
  BY <1>2 DEF Request, UnknownSession, Full, BodyFails, Unparsable, Disconnect, TransportStep,
              UndispatchedStep
<1>3. ASSUME NEW r \in Requests, Progress(r) PROVE TransportStep
  BY <1>3 DEF Progress, Abort, Expire, TransportStep, UndispatchedStep
<1>4. ASSUME HttpStep PROVE TransportStep
  <2>1. CASE ForceClose
    BY <2>1 DEF ForceClose, TransportStep, UndispatchedStep
  <2> QED
    BY <1>2, <1>4, <2>1 DEF HttpStep, TransportStep
<1>5. ASSUME HttpClosing PROVE TransportStep
  BY <1>5 DEF HttpClosing, Closing, TransportStep, UndispatchedStep
<1>6. ASSUME Start PROVE TransportStep
  <2>1. CASE UNCHANGED transportVars
    BY <1>1, <2>1
  <2>2. CASE Connect
    BY <2>2 DEF Connect, TransportStep, UndispatchedStep
  <2>3. CASE StopTransport
    BY <2>3 DEF TransportStep
  <2> QED
    BY <1>6, <2>1, <2>2, <2>3 DEF Start, OpenStore, Construct, Advance, Serve, AbandonStart,
                                  DisposeStart, RollbackStart
<1>7. ASSUME Signal PROVE TransportStep
  BY <1>7 DEF Signal, TransportStep
<1>8. ASSUME Deadline \/ StopStep \/ StartRefresh \/ EndRefresh \/ Flush PROVE TransportStep
  BY <1>1, <1>8 DEF Deadline, StopStep, StartRefresh, EndRefresh, Flush, Drained, StopWatchers,
                    FlushHistory, CloseStore, ExitDisposed, TransportStopped, ServerStopped, Exit
<1>9. ASSUME NEW r \in Requests, HttpProgress(r) \/ ToolCall(r) PROVE TransportStep
  BY <1>3, <1>9 DEF HttpProgress, ToolCall, TransportStep
<1>10. CASE UNCHANGED vars
  BY <1>1, <1>10 DEF vars
<1> QED
  BY <1>4, <1>5, <1>6, <1>7, <1>8, <1>9, <1>10 DEF Next

\* The steps of TransportStep as steps of the requests.
LEMMA RequestsMove ==
  ASSUME TransportStep
  PROVE  RequestStep
BY DEF TransportStep, RequestStep, UndispatchedStep, Finish, Open, Resume, StopTransport, Sweep,
       GrowIdle

LEMMA TransportInitial == Init => Transport
<1> SUFFICES ASSUME Init PROVE Transport
  OBVIOUS
<1> USE DEF Init, TransportInit, RequestsInit
<1>1. RequestsTyped /\ Leases
  BY DEF RequestsTyped, Leases, Answers
<1>2. SessionsTyped /\ PinsAreHeld
  BY DEF SessionsTyped, PinsAreHeld
<1>3. PinsAreCounted
  <2>1. ASSUME NEW s \in Sessions PROVE Pinned(s) = {} /\ pins[s] = 0
    BY NoSessionAssumption DEF Pinned
  <2> QED
    BY <2>1, FS_EmptySet DEF PinsAreCounted
<1>4. TableBounded
  <2>1. Live = {}
    BY DEF Live
  <2> QED
    BY <2>1, FS_EmptySet, RetentionAssumption DEF TableBounded, ValidRetention
<1> QED
  BY <1>1, <1>2, <1>3, <1>4 DEF Transport

LEMMA RequestsTypedStep ==
  ASSUME RequestsTyped, RequestStep
  PROVE  RequestsTyped'
<1> USE DEF RequestsTyped, Answer, Finalized, Answers, Refusals, Cancelled
<1>1. CASE Listen \/ ListenerCloses \/ StopSettles \/ UNCHANGED requestVars
  BY <1>1 DEF Listen, ListenerCloses, StopSettles, requestVars
<1>2. CASE Stop
  BY <1>2 DEF Stop
<1>3. CASE ForceClose
  BY <1>3 DEF ForceClose
<1>4. ASSUME NEW r \in Requests, TurnAway(r) PROVE RequestsTyped'
  BY <1>4 DEF TurnAway
<1>5. ASSUME NEW r \in Requests, Acquire(r) \/ Transfer(r) PROVE RequestsTyped'
  BY <1>5 DEF Acquire, Transfer
<1>6. ASSUME NEW r \in Requests, Received(r) \/ AbortRead(r) PROVE RequestsTyped'
  BY <1>6 DEF Received, AbortRead
<1>7. ASSUME NEW r \in Requests, Timeout(r) \/ PeerGone(r) PROVE RequestsTyped'
  BY <1>7 DEF Timeout, PeerGone
<1>8. ASSUME NEW r \in Requests,
             NEW text \in {"tooLarge", "broken", "invalid", "notFound", "full"}, Reject(r, text)
      PROVE  RequestsTyped'
  BY <1>8 DEF Reject
<1> QED
  BY <1>1, <1>2, <1>3, <1>4, <1>5, <1>6, <1>7, <1>8 DEF RequestStep, UndispatchedStep

LEMMA LeasesStep ==
  ASSUME RequestsTyped, Leases, RequestStep
  PROVE  Leases'
<1> USE DEF RequestsTyped, Leases, Answer, Finalized, Cancelled, ShuttingDown, BodyRead
<1>1. CASE Listen \/ ListenerCloses \/ StopSettles \/ UNCHANGED requestVars
  BY <1>1 DEF Listen, ListenerCloses, StopSettles, requestVars, Joined, Reading, Receiving
<1>2. CASE Stop
  BY <1>2 DEF Stop
<1>3. CASE ForceClose
  BY <1>3 DEF ForceClose
<1>4. ASSUME NEW r \in Requests, TurnAway(r) PROVE Leases'
  BY <1>4 DEF TurnAway
<1>5. ASSUME NEW r \in Requests, Acquire(r) \/ Transfer(r) PROVE Leases'
  BY <1>5 DEF Acquire, Transfer
<1>6. ASSUME NEW r \in Requests, Received(r) \/ AbortRead(r) PROVE Leases'
  BY <1>6 DEF Received, AbortRead
<1>7. ASSUME NEW r \in Requests, Timeout(r) \/ PeerGone(r) PROVE Leases'
  BY <1>7 DEF Timeout, PeerGone
<1>8. ASSUME NEW r \in Requests,
             NEW text \in {"tooLarge", "broken", "invalid", "notFound", "full"}, Reject(r, text)
      PROVE  Leases'
  BY <1>8 DEF Reject
<1> QED
  BY <1>1, <1>2, <1>3, <1>4, <1>5, <1>6, <1>7, <1>8 DEF RequestStep, UndispatchedStep

\* One handler takes a pin of a session, or gives it back.
LEMMA PinTaken ==
  ASSUME SessionsTyped, PinsAreCounted, NEW r \in Requests, NEW s \in Sessions,
         pinned[r] = NoSession,
         pinned' = [pinned EXCEPT ![r] = s],
         pins' = [pins EXCEPT ![s] = @ + 1]
  PROVE  PinsAreCounted'
<1> USE DEF SessionsTyped
<1>1. ASSUME NEW z \in Sessions \ {s}, NEW P, P = Pinned(z)'
      PROVE  P = Pinned(z) /\ pins'[z] = pins[z]
  BY <1>1, NoSessionAssumption DEF Pinned
<1>2. ASSUME NEW P, P = Pinned(s)'
      PROVE  P = Pinned(s) \cup {r} /\ r \notin Pinned(s) /\ pins'[s] = pins[s] + 1
  BY <1>2, NoSessionAssumption DEF Pinned
<1>3. ASSUME NEW z \in Sessions, NEW P, P = Pinned(z)'
      PROVE  IsFiniteSet(P) /\ pins'[z] = Cardinality(P)
  <2>1. IsFiniteSet(Pinned(z)) /\ pins[z] = Cardinality(Pinned(z))
    BY DEF PinsAreCounted
  <2>2. CASE z # s
    <3>1. P = Pinned(z) /\ pins'[z] = pins[z]
      BY <1>1, <1>3, <2>2
    <3> QED
      BY <2>1, <3>1
  <2>3. CASE z = s
    <3>1. P = Pinned(z) \cup {r} /\ r \notin Pinned(z) /\ pins'[z] = pins[z] + 1
      BY <1>2, <1>3, <2>3
    <3>2. IsFiniteSet(P) /\ Cardinality(P) = Cardinality(Pinned(z)) + 1
      BY <2>1, <3>1, FS_AddElement
    <3> QED
      BY <2>1, <3>1, <3>2
  <2> QED
    BY <2>2, <2>3
<1> QED
  BY <1>3 DEF PinsAreCounted, Pinned

LEMMA PinReturned ==
  ASSUME SessionsTyped, PinsAreCounted, NEW r \in Requests, Unpin(r)
  PROVE  PinsAreCounted' /\ SessionsTyped'
<1> USE DEF SessionsTyped, Unpin
<1>1. CASE pinned[r] = NoSession
  <2>1. pinned' = pinned /\ pins' = pins
    BY <1>1
  <2> QED
    BY <2>1 DEF PinsAreCounted, Pinned
<1>2. CASE pinned[r] # NoSession
  <2>1. PICK s \in Sessions : pinned[r] = s
    BY <1>2
  <2>2. pins' = [pins EXCEPT ![s] = @ - 1] /\ pinned' = [pinned EXCEPT ![r] = NoSession]
    BY <1>2, <2>1
  <2>3. ASSUME NEW z \in Sessions, NEW P, P = Pinned(z)'
        PROVE  IsFiniteSet(P) /\ pins'[z] = Cardinality(P)
    <3>1. IsFiniteSet(Pinned(z)) /\ pins[z] = Cardinality(Pinned(z))
      BY DEF PinsAreCounted
    <3>2. CASE z # s
      <4>1. P = Pinned(z) /\ pins'[z] = pins[z]
        BY <2>1, <2>2, <2>3, <3>2, NoSessionAssumption DEF Pinned
      <4> QED
        BY <3>1, <4>1
    <3>3. CASE z = s
      <4>1. P = Pinned(z) \ {r} /\ r \in Pinned(z) /\ pins'[z] = pins[z] - 1
        BY <2>1, <2>2, <2>3, <3>3, NoSessionAssumption DEF Pinned
      <4>2. IsFiniteSet(P) /\ Cardinality(P) = Cardinality(Pinned(z)) - 1
        BY <3>1, <4>1, FS_RemoveElement
      <4> QED
        BY <3>1, <4>1, <4>2
    <3> QED
      BY <3>2, <3>3
  <2>4. PinsAreCounted'
    BY <2>3 DEF PinsAreCounted, Pinned
  <2>5. pins[s] - 1 \in Nat
    <3>1. r \in Pinned(s)
      BY <2>1 DEF Pinned
    <3>2. IsFiniteSet(Pinned(s)) /\ pins[s] = Cardinality(Pinned(s))
      BY DEF PinsAreCounted
    <3>3. Cardinality(Pinned(s)) # 0
      BY <3>1, <3>2, FS_EmptySet
    <3> QED
      BY <3>2, <3>3
  <2>6. SessionsTyped'
    BY <2>1, <2>2, <2>5
  <2> QED
    BY <2>4, <2>6
<1> QED
  BY <1>1, <1>2

LEMMA UndispatchedSessions ==
  ASSUME RequestsTyped, SessionsTyped, PinsAreHeld, PinsAreCounted, TableBounded, Leases,
         UndispatchedStep, UNCHANGED sessionVars
  PROVE  SessionsTyped' /\ PinsAreHeld' /\ PinsAreCounted' /\ TableBounded'
<1>1. UNCHANGED <<status, pins, expired, pinned>>
  BY DEF sessionVars
<1>2. SessionsTyped' /\ PinsAreCounted'
  BY <1>1 DEF SessionsTyped, PinsAreCounted, Pinned
<1>3. stop' # "none" <=> stop # "none"
  BY DEF UndispatchedStep, Listen, ListenerCloses, StopSettles, ForceClose, requestVars,
         TurnAway, Acquire, AbortRead, Timeout, PeerGone, Reject
<1>4. ASSUME NEW r \in Requests, phase[r] = "receiving" PROVE phase'[r] = "receiving"
  BY <1>4 DEF UndispatchedStep, Listen, ListenerCloses, StopSettles, ForceClose, requestVars,
              TurnAway, Acquire, AbortRead, Timeout, PeerGone, Reject, BodyRead, RequestsTyped
<1>5. PinsAreHeld'
  BY <1>1, <1>3, <1>4 DEF PinsAreHeld
<1>6. TableBounded'
  BY <1>1, <1>3 DEF TableBounded, Live
<1> QED
  BY <1>2, <1>5, <1>6

LEMMA SessionsStep ==
  ASSUME Transport, TransportStep
  PROVE  SessionsTyped' /\ PinsAreHeld' /\ PinsAreCounted' /\ TableBounded'
<1> USE DEF Transport
<1> DEFINE Goal == SessionsTyped' /\ PinsAreHeld' /\ PinsAreCounted' /\ TableBounded'
<1>1. CASE UndispatchedStep /\ UNCHANGED sessionVars
  BY <1>1, UndispatchedSessions
<1>2. ASSUME NEW r \in Requests, Finish(r) PROVE Goal
  <2>1. PinsAreCounted' /\ SessionsTyped'
    BY <1>2, PinReturned DEF Finish
  <2>2. PinsAreHeld'
    BY <1>2 DEF Finish, Received, Unpin, PinsAreHeld, SessionsTyped, RequestsTyped
  <2>3. TableBounded'
    BY <1>2 DEF Finish, Received, Unpin, TableBounded, Live
  <2> QED
    BY <2>1, <2>2, <2>3
<1>3. ASSUME NEW r \in Requests, Transfer(r)
      PROVE  pinned[r] = NoSession /\ stop = "none" /\ stop' = "none"
  BY <1>3 DEF Transfer, BodyRead, Leases, PinsAreHeld
<1>4. ASSUME NEW r \in Requests, NEW s \in Sessions, Resume(r, s) PROVE Goal
  <2>1. pinned[r] = NoSession /\ stop = "none" /\ stop' = "none"
    BY <1>3, <1>4 DEF Resume
  <2>2. PinsAreCounted'
    BY <1>4, <2>1, PinTaken DEF Resume
  <2>3. SessionsTyped'
    BY <1>4 DEF Resume, SessionsTyped
  <2>4. PinsAreHeld'
    BY <1>4, <2>1 DEF Resume, Transfer, PinsAreHeld, SessionsTyped, RequestsTyped
  <2>5. TableBounded'
    BY <1>4, <2>1 DEF Resume, TableBounded, Live
  <2> QED
    BY <2>2, <2>3, <2>4, <2>5
<1>5. ASSUME NEW r \in Requests, Open(r) PROVE Goal
  <2>1. pinned[r] = NoSession /\ stop = "none" /\ stop' = "none"
    BY <1>3, <1>5 DEF Open
  <2>2. PICK s \in Sessions : /\ status[s] = "unused"
                              /\ status' = [status EXCEPT ![s] = "live"]
                              /\ pins' = [pins EXCEPT ![s] = 1]
                              /\ pinned' = [pinned EXCEPT ![r] = s]
    BY <1>5 DEF Open
  <2>3. pins[s] = 0
    <3>1. Pinned(s) = {}
      BY <2>1, <2>2, NoSessionAssumption DEF Pinned, PinsAreHeld, SessionsTyped
    <3> QED
      BY <3>1, FS_EmptySet DEF PinsAreCounted
  <2>4. pins' = [pins EXCEPT ![s] = @ + 1]
    BY <2>2, <2>3 DEF SessionsTyped
  <2>5. PinsAreCounted'
    BY <2>1, <2>2, <2>4, PinTaken
  <2>6. SessionsTyped'
    BY <1>5, <2>2 DEF Open, SessionsTyped
  <2>7. PinsAreHeld'
    BY <1>5, <2>1, <2>2 DEF Open, Transfer, PinsAreHeld, SessionsTyped, RequestsTyped
  <2>8. TableBounded'
    <3>1. ASSUME NEW L, L = Live' PROVE L = Live \cup {s} /\ s \notin Live
      BY <2>2, <3>1 DEF Live, SessionsTyped
    <3>2. ASSUME NEW L, L = Live' PROVE IsFiniteSet(L) /\ Cardinality(L) = Cardinality(Live) + 1
      BY <3>1, <3>2, FS_AddElement DEF TableBounded
    <3>3. Cardinality(Live) < MaxSessions
      BY <1>5 DEF Open, HasRoom
    <3>4. Cardinality(Live) \in Nat
      BY FS_CardinalityType DEF TableBounded
    <3>5. ASSUME NEW L, L = Live' PROVE IsFiniteSet(L) /\ Cardinality(L) <= MaxSessions
      BY <3>2, <3>3, <3>4, <3>5, RetentionAssumption DEF ValidRetention
    <3> QED
      BY <2>1, <3>5 DEF TableBounded, Live
  <2> QED
    BY <2>5, <2>6, <2>7, <2>8
<1>6. CASE StopTransport
  <2>1. stop' # "none" /\ pins' = pins /\ pinned' = pinned /\ phase' = phase
    BY <1>6 DEF StopTransport, Stop
  <2>2. SessionsTyped'
    BY <1>6 DEF StopTransport, SessionsTyped
  <2>3. PinsAreCounted' /\ PinsAreHeld'
    BY <2>1 DEF PinsAreCounted, Pinned, PinsAreHeld
  <2>4. TableBounded'
    <3>1. ASSUME NEW L, L = Live' PROVE L = {}
      BY <1>6, <3>1 DEF StopTransport, Live, SessionsTyped
    <3>2. IsFiniteSet({}) /\ Cardinality({}) <= MaxSessions
      BY FS_EmptySet, RetentionAssumption DEF ValidRetention
    <3>3. ASSUME NEW L, L = Live' PROVE IsFiniteSet(L) /\ Cardinality(L) <= MaxSessions /\ L = {}
      BY <3>1, <3>2, <3>3
    <3> QED
      BY <3>3 DEF TableBounded, Live
  <2> QED
    BY <2>2, <2>3, <2>4
<1>7. CASE Sweep
  <2>1. UNCHANGED <<phase, stop, pins, pinned>> /\ stop = "none"
    BY <1>7 DEF Sweep, requestVars, ShuttingDown
  <2>2. SessionsTyped'
    BY <1>7 DEF Sweep, SessionsTyped
  <2>3. PinsAreCounted'
    BY <2>1 DEF PinsAreCounted, Pinned
  <2>4. PinsAreHeld'
    <3>1. ASSUME NEW r \in Requests, pinned[r] # NoSession PROVE pinned[r] \notin Swept
      <4>1. pinned[r] \in Sessions /\ r \in Pinned(pinned[r])
        BY <3>1 DEF SessionsTyped, Pinned
      <4>2. Cardinality(Pinned(pinned[r])) # 0
        BY <4>1, FS_EmptySet DEF PinsAreCounted
      <4> QED
        BY <4>1, <4>2 DEF PinsAreCounted, Swept
    <3> QED
      BY <1>7, <2>1, <3>1 DEF Sweep, PinsAreHeld, SessionsTyped
  <2>5. TableBounded'
    <3>1. ASSUME NEW L, L = Live' PROVE L \subseteq Live
      BY <1>7, <3>1 DEF Sweep, Live, SessionsTyped
    <3>2. ASSUME NEW L, L = Live' PROVE IsFiniteSet(L) /\ Cardinality(L) <= MaxSessions
      <4>1. IsFiniteSet(L) /\ Cardinality(L) <= Cardinality(Live)
        BY <3>1, <3>2, FS_Subset DEF TableBounded
      <4>2. Cardinality(L) \in Nat /\ Cardinality(Live) \in Nat
        BY <4>1, FS_CardinalityType DEF TableBounded
      <4> QED
        BY <4>1, <4>2, RetentionAssumption DEF TableBounded, ValidRetention
    <3> QED
      BY <2>1, <3>2 DEF TableBounded, Live
  <2> QED
    BY <2>2, <2>3, <2>4, <2>5
<1>8. ASSUME NEW s \in Sessions, GrowIdle(s) PROVE Goal
  <2>1. UNCHANGED <<phase, stop, status, pins, pinned>>
    BY <1>8 DEF GrowIdle, requestVars
  <2>2. SessionsTyped'
    BY <1>8 DEF GrowIdle, SessionsTyped
  <2> QED
    BY <2>1, <2>2 DEF PinsAreHeld, PinsAreCounted, Pinned, TableBounded, Live
<1> QED
  BY <1>1, <1>2, <1>4, <1>5, <1>6, <1>7, <1>8 DEF TransportStep

LEMMA TransportStays ==
  ASSUME Transport, TransportStep
  PROVE  Transport'
BY RequestsMove, RequestsTypedStep, LeasesStep, SessionsStep DEF Transport

--------------------------------------------------------------------------------------
(* The process.                                                                       *)

\* What the transport does under a process that goes on as it was.
WebStep == HttpStep \/ HttpClosing \/ \E r \in Requests : HttpProgress(r) \/ ToolCall(r)

Unreachable == listener \in {"down", "closed"} /\ \A r \in Requests : phase[r] = "unseen"

LEMMA WebSteps ==
  ASSUME RequestsTyped, WebStep
  PROVE  /\ UNCHANGED <<boot, store, watchers, refresh, down, faults, cli, process>>
         /\ stop' = stop \/ (stop = "pending" /\ stop' = "settled")
         /\ Unreachable => Unreachable'
         /\ unsaved' \in BOOLEAN \/ unsaved' = unsaved
         /\ (\A r \in Requests : phase[r] # "receiving") => unsaved' = unsaved
<1> DEFINE Goal ==
      /\ stop' = stop \/ (stop = "pending" /\ stop' = "settled")
      /\ Unreachable => Unreachable'
<1> USE DEF RequestsTyped, Unreachable
<1>1. UNCHANGED <<boot, store, watchers, refresh, down, faults, cli, process>>
  BY DEF WebStep, HttpStep, HttpClosing, HttpProgress, ToolCall, serverVars
<1>2. unsaved' \in BOOLEAN \/ unsaved' = unsaved
  BY DEF WebStep, HttpStep, HttpClosing, HttpProgress, ToolCall, serverVars
<1>3. (\A r \in Requests : phase[r] # "receiving") => unsaved' = unsaved
  BY DEF WebStep, HttpStep, HttpClosing, HttpProgress, ToolCall, serverVars, Finish, Received
<1>4. ASSUME NEW r \in Requests, Request(r) PROVE Goal
  <2>1. CASE TurnAway(r) \/ Acquire(r)
    BY <2>1 DEF TurnAway, Acquire
  <2>2. CASE PeerGone(r)
    BY <2>2 DEF PeerGone
  <2>3. CASE Transfer(r)
    BY <2>3 DEF Transfer, BodyRead
  <2>4. ASSUME NEW text, Reject(r, text) PROVE Goal
    BY <2>4 DEF Reject, BodyRead
  <2> QED
    BY <1>4, <2>1, <2>2, <2>3, <2>4 DEF Request, Resume, Open, UnknownSession, Full, BodyFails,
                                         Unparsable, Disconnect
<1>5. ASSUME NEW r \in Requests, Progress(r) \/ Finish(r) PROVE Goal
  BY <1>5 DEF Progress, Abort, AbortRead, Expire, Timeout, Finish, Received
<1>6. ASSUME Sweep \/ \E s \in Sessions : GrowIdle(s) PROVE Goal
  BY <1>6 DEF GrowIdle, Sweep, requestVars
<1>7. ASSUME ForceClose PROVE Goal
  BY <1>7 DEF ForceClose
<1>8. ASSUME Closing PROVE Goal
  BY <1>8 DEF Closing, ListenerCloses, StopSettles
<1>9. Goal
  BY <1>4, <1>5, <1>6, <1>7, <1>8 DEF WebStep, HttpStep, HttpClosing, HttpProgress, ToolCall
<1> QED
  BY <1>1, <1>2, <1>3, <1>9

Process == ProcessTyped /\ BootOrder /\ ShutdownOrder

\* Once the server is told to stop, no tool call runs, and none will.
LEMMA NothingRuns ==
  ASSUME Leases, BootOrder, ShutdownOrder, down # "up"
  PROVE  \A r \in Requests : phase[r] \notin {"reading", "receiving"}
BY DEF Leases, BootOrder, ShutdownOrder

LEMMA ProcessInitial == Init => Process
<1> SUFFICES ASSUME Init PROVE Process
  OBVIOUS
<1> QED
  BY DEF Init, TransportInit, RequestsInit, Process, ProcessTyped, BootOrder, ShutdownOrder, Starting

LEMMA WebProcess ==
  ASSUME RequestsTyped, Leases, Process, WebStep
  PROVE  Process'
<1> USE DEF Process
<1>1. /\ UNCHANGED <<boot, store, watchers, refresh, down, faults, cli, process>>
      /\ stop' = stop \/ (stop = "pending" /\ stop' = "settled")
      /\ Unreachable => Unreachable'
      /\ unsaved' \in BOOLEAN \/ unsaved' = unsaved
      /\ (\A r \in Requests : phase[r] # "receiving") => unsaved' = unsaved
  BY WebSteps
<1>2. ProcessTyped'
  BY <1>1 DEF ProcessTyped
<1>3. BootOrder'
  BY <1>1 DEF BootOrder, Starting, Unreachable
<1>4. down # "up" => unsaved' = unsaved
  BY <1>1, NothingRuns
<1>5. ShutdownOrder'
  BY <1>1, <1>4 DEF ShutdownOrder, Starting, ProcessTyped
<1> QED
  BY <1>2, <1>3, <1>5

LEMMA StartProcess ==
  ASSUME RequestsTyped, Leases, Process, process = "running", Start
  PROVE  Process'
<1> USE DEF Process, ProcessTyped, BootOrder, ShutdownOrder, Starting
<1>1. CASE OpenStore
  BY <1>1 DEF OpenStore, transportVars
<1>2. CASE Construct
  BY <1>2 DEF Construct, transportVars
<1>3. CASE Advance
  BY <1>3 DEF Advance, transportVars, serverVars
<1>4. CASE Serve
  BY <1>4 DEF Serve, Connect, Listen, ShuttingDown, serverVars
<1>5. CASE AbandonStart
  BY <1>5 DEF AbandonStart, Closed, transportVars
<1>6. CASE DisposeStart
  BY <1>6 DEF DisposeStart, transportVars
<1>7. CASE RollbackStart
  BY <1>7 DEF RollbackStart, StopTransport, Stop, transportVars, Leases
<1> QED
  BY <1>1, <1>2, <1>3, <1>4, <1>5, <1>6, <1>7 DEF Start

LEMMA ShutdownProcess ==
  ASSUME RequestsTyped, Leases, Process, process = "running",
         Signal \/ Deadline \/ StopStep \/ StartRefresh \/ EndRefresh \/ Flush
  PROVE  Process'
<1> USE DEF Process, ProcessTyped, BootOrder, ShutdownOrder, Starting, transportVars, serverVars
<1>1. CASE Signal
  BY <1>1 DEF Signal, StopTransport, Stop
<1>2. CASE Deadline
  BY <1>2 DEF Deadline
<1>3. CASE Drained
  BY <1>3 DEF Drained
<1>4. CASE StopWatchers
  BY <1>4 DEF StopWatchers
<1>5. CASE FlushHistory
  BY <1>5 DEF FlushHistory
<1>6. CASE CloseStore
  BY <1>6 DEF CloseStore
<1>7. CASE ExitDisposed
  BY <1>7 DEF ExitDisposed
<1>8. CASE TransportStopped
  BY <1>8 DEF TransportStopped
<1>9. CASE ServerStopped
  BY <1>9 DEF ServerStopped
<1>10. CASE Exit
  BY <1>10 DEF Exit
<1>11. CASE StartRefresh
  BY <1>11 DEF StartRefresh
<1>12. CASE EndRefresh
  BY <1>12 DEF EndRefresh
<1>13. CASE Flush
  BY <1>13 DEF Flush
<1> QED
  BY <1>1, <1>2, <1>3, <1>4, <1>5, <1>6, <1>7, <1>8, <1>9, <1>10, <1>11, <1>12, <1>13 DEF StopStep

LEMMA NextInv == IInv /\ [Next]_vars => IInv'
<1> SUFFICES ASSUME IInv, [Next]_vars PROVE IInv'
  OBVIOUS
<1> USE DEF IInv
<1>1. Transport'
  BY TransportSteps, TransportStays
<1>2. Process'
  <2> RequestsTyped /\ Leases /\ Process
    BY DEF Transport, Process
  <2>1. CASE UNCHANGED vars
    BY <2>1 DEF vars, transportVars, serverVars, Process, ProcessTyped, BootOrder, ShutdownOrder,
                Starting
  <2>2. CASE process = "running" /\ WebStep
    BY <2>2, WebProcess
  <2>3. CASE process = "running" /\ Start
    BY <2>3, StartProcess
  <2>4. CASE /\ process = "running"
             /\ Signal \/ Deadline \/ StopStep \/ StartRefresh \/ EndRefresh \/ Flush
    BY <2>4, ShutdownProcess
  <2> QED
    BY <2>1, <2>2, <2>3, <2>4 DEF Next, WebStep
<1> QED
  BY <1>1, <1>2 DEF Process

--------------------------------------------------------------------------------------
(* Theorems.                                                                          *)

\* The inductive invariant of the transport and of the process holds in every reachable state
\* (StreamableHttpTransport, server lifecycle, CliLifecycle).
THEOREM Invariance == Spec => []IInv
<1>1. Init => IInv
  BY TransportInitial, ProcessInitial DEF IInv, Process
<1> QED
  BY <1>1, NextInv, PTL DEF Spec

\* The variables keep their types; the pins of a session are bounded by the requests there are.
THEOREM TypeCorrect ==
  ASSUME IsFiniteSet(Requests)
  PROVE  Spec => []TypeOK
<1>1. IInv => TypeOK
  <2> SUFFICES ASSUME IInv PROVE TypeOK
    OBVIOUS
  <2>1. RequestsTyped /\ SessionsTyped /\ PinsAreCounted /\ ProcessTyped
    BY DEF IInv, Transport
  <2>2. ASSUME NEW s \in Sessions PROVE pins[s] \in 0..Cardinality(Requests)
    <3>1. Pinned(s) \in SUBSET Requests
      BY DEF Pinned
    <3>2. Cardinality(Pinned(s)) <= Cardinality(Requests)
      BY <3>1, FS_Subset
    <3>3. Cardinality(Pinned(s)) \in Nat /\ Cardinality(Requests) \in Nat
      BY <2>1, FS_CardinalityType DEF PinsAreCounted
    <3> QED
      BY <2>1, <3>2, <3>3 DEF PinsAreCounted
  <2>3. pins \in [Sessions -> 0..Cardinality(Requests)]
    BY <2>1, <2>2 DEF SessionsTyped
  <2>4. SessionsTypeOK
    BY <2>1, <2>3 DEF SessionsTypeOK, RequestsTypeOK, RequestsTyped, SessionsTyped
  <2>5. {refresh, unsaved, faults} \subseteq BOOLEAN
    BY <2>1 DEF ProcessTyped
  <2> QED
    BY <2>1, <2>4, <2>5 DEF TypeOK, ProcessTyped
<1> QED
  BY <1>1, Invariance, PTL

\* The table of sessions never outgrows its limit, each pin belongs to a handler that runs, and no
\* sweep takes a session from under a request (_getOrCreateSession, _cleanupIdleSessions).
THEOREM SessionsCounted == Spec => []SessionsAccounted
<1>1. IInv => SessionsAccounted
  BY DEF IInv, Transport, TableBounded, PinsAreCounted, PinsAreHeld, SessionsAccounted, Receiving,
         ShuttingDown
<1> QED
  BY <1>1, Invariance, PTL

\* Whatever ended the process, what it opened was released in order, and exit code 0 means that
\* nothing accepted was left unsaved (CliLifecycle.shutdown, ToolAwareSequentialThinkingServer.stop).
THEOREM ExitIsOrderly == Spec => []ExitReleases
<1>1. IInv => ExitReleases
  <2> SUFFICES ASSUME IInv PROVE ExitReleases
    OBVIOUS
  <2> USE DEF IInv, Transport, ProcessTyped, BootOrder, ShutdownOrder, Starting
  <2>1. store \in {"closed", "unclosed"} => Receiving = {} /\ ~refresh
    <3>1. down # "up" => Receiving = {}
      BY NothingRuns DEF Receiving
    <3> QED
      BY <3>1 DEF Receiving
  <2>2. process # "running" /\ cli # "timedOut" => store # "open" /\ watchers = "off"
    OBVIOUS
  <2>3. process = "clean" => ~unsaved /\ store = "closed"
    OBVIOUS
  <2> QED
    BY <2>1, <2>2, <2>3 DEF ExitReleases
<1> QED
  BY <1>1, Invariance, PTL

\* What a step may do to the answers and to the dispatched work.
EndOnce ==
  /\ \A r \in Requests :
       /\ answer[r] # "none" => answer'[r] = answer[r]
       /\ r \in Receiving' \ Receiving => answer'[r] = "none"
  /\ ShuttingDown => Receiving' \subseteq Receiving
  /\ stop' = "settled" => Reading' = {} /\ Receiving' = {} /\ Live' = {}

LEMMA EndOnceStep == IInv /\ [Next]_vars => EndOnce
<1> SUFFICES ASSUME IInv, [Next]_vars PROVE EndOnce
  OBVIOUS
<1>1. RequestStep /\ RequestsTyped /\ Leases
  BY TransportSteps, RequestsMove DEF IInv, Transport
<1>2. Leases' /\ TableBounded'
  BY NextInv DEF IInv, Transport
<1> DEFINE Moves == \A r \in Requests :
             /\ answer[r] # "none" => answer'[r] = answer[r]
             /\ phase'[r] = "receiving" /\ phase[r] # "receiving" =>
                  answer'[r] = "none" /\ stop = "none"
<1>3. Moves
  <2> USE <1>1 DEF RequestsTyped, Answer, Finalized
  <2>1. ASSUME Listen \/ ListenerCloses \/ StopSettles \/ Stop \/ UNCHANGED requestVars PROVE Moves
    BY <2>1 DEF Listen, ListenerCloses, StopSettles, Stop, requestVars
  <2>2. ASSUME ForceClose PROVE Moves
    BY <2>2 DEF ForceClose
  <2>3. ASSUME NEW q \in Requests, TurnAway(q) \/ Acquire(q) \/ AbortRead(q) PROVE Moves
    BY <2>3 DEF TurnAway, Acquire, AbortRead
  <2>4. ASSUME NEW q \in Requests, Timeout(q) \/ PeerGone(q) \/ Received(q) PROVE Moves
    BY <2>4 DEF Timeout, PeerGone, Received
  <2>5. ASSUME NEW q \in Requests, Transfer(q) PROVE Moves
    BY <2>5 DEF Transfer, BodyRead, Leases
  <2>6. ASSUME NEW q \in Requests, NEW text, Reject(q, text) PROVE Moves
    BY <2>6 DEF Reject
  <2> QED
    BY <2>1, <2>2, <2>3, <2>4, <2>5, <2>6 DEF RequestStep, UndispatchedStep
<1>4. stop' = "settled" => Reading' = {} /\ Receiving' = {} /\ Live' = {}
  BY <1>2 DEF Leases, TableBounded, Reading, Receiving
<1> QED
  BY <1>3, <1>4 DEF EndOnce, Receiving, ShuttingDown

\* The first answer wins, nothing refused is executed after all, and stop() resolves only when
\* nothing is read, run or kept (ResponseFinalizer, RequestLease.transfer, stop).
THEOREM RequestsEnd == Spec => RequestsEndOnce
<1>1. IInv /\ [Next]_vars => [EndOnce]_vars
  BY EndOnceStep
<1>2. [EndOnce]_vars =>
        /\ [\A r \in Requests :
              /\ answer[r] # "none" => answer'[r] = answer[r]
              /\ r \in Receiving' \ Receiving => answer'[r] = "none"]_vars
        /\ [/\ ShuttingDown => Receiving' \subseteq Receiving
            /\ stop' = "settled" => Reading' = {} /\ Receiving' = {} /\ Live' = {}]_vars
  BY DEF EndOnce
<1> QED
  BY <1>1, <1>2, Invariance, PTL DEF Spec, RequestsEndOnce, FirstAnswerWins, StopIsComplete

======================================================================================
