----------------------------- MODULE StreamableHttp -----------------------------
(***************************************************************************)
(* StreamableHttpTransport: the request life of HttpRequests, with the     *)
(* session table of its stateful mode.  A session is pinned by the         *)
(* requests dispatched on it; an unpinned one that has been idle for       *)
(* sessionIdleTimeoutMs is removed by the next sweep.  Time is abstracted  *)
(* to "the timeout has elapsed since the last activity".  A session        *)
(* identifier is a random UUID: it is used once.                           *)
(***************************************************************************)
EXTENDS HttpRequests, FiniteSets, Naturals

CONSTANTS
    Sessions,       \* the identifiers the generator can produce: the bound on creations
    NoSession,      \* no Mcp-Session-Id header
    MaxSessions     \* _sessionRetention.maxSessions

\* The constructor refuses anything else.
ValidRetention == MaxSessions \in Nat \ {0}

ASSUME RetentionAssumption == ValidRetention
ASSUME NoSessionAssumption == NoSession \notin Sessions

VARIABLES
    status,     \* "unused" before creation, "live" in _sessions, "gone" once deleted
    pins,       \* acceptedPostCount of the session's state object
    expired,    \* the idle timeout has elapsed since lastActivityAt
    pinned      \* the session whose state the handler of the request holds

sessionVars == <<status, pins, expired, pinned>>
transportVars == <<phase, reason, answer, listener, stop, status, pins, expired, pinned>>

SessionsTypeOK ==
    /\ RequestsTypeOK
    /\ answer \in [Requests -> Answers \cup {"notFound", "full"}]
    /\ status \in [Sessions -> {"unused", "live", "gone"}]
    /\ pins \in [Sessions -> 0..Cardinality(Requests)]
    /\ expired \subseteq Sessions
    /\ pinned \in [Requests -> Sessions \cup {NoSession}]

Live == {s \in Sessions : status[s] = "live"}

TransportInit ==
    /\ RequestsInit
    /\ status = [s \in Sessions |-> "unused"]
    /\ pins = [s \in Sessions |-> 0]
    /\ expired = {}
    /\ pinned = [r \in Requests |-> NoSession]

\* connect(): the socket listens, or the promise is rejected and nothing changes.
Connect == Listen /\ UNCHANGED sessionVars

\* An existing session is touched and pinned.
Resume(r, s) ==
    /\ status[s] = "live"
    /\ Transfer(r)
    /\ pins' = [pins EXCEPT ![s] = @ + 1]
    /\ pinned' = [pinned EXCEPT ![r] = s]
    /\ expired' = expired \ {s}
    /\ UNCHANGED status

\* A header nobody is known by: malformed, or swept while the body streamed.
UnknownSession(r) ==
    /\ \/ Reject(r, "invalid")
       \/ (\E s \in Sessions : status[s] = "gone") /\ Reject(r, "notFound")
    /\ UNCHANGED sessionVars

HasRoom == Cardinality(Live) < MaxSessions

\* No header: a new session, if there is room for one.
Open(r) ==
    /\ HasRoom
    /\ \E s \in Sessions :
        /\ status[s] = "unused"
        /\ status' = [status EXCEPT ![s] = "live"]
        /\ pins' = [pins EXCEPT ![s] = 1]
        /\ pinned' = [pinned EXCEPT ![r] = s]
    /\ Transfer(r)
    /\ UNCHANGED expired

Full(r) ==
    /\ ~HasRoom
    /\ Reject(r, "full")
    /\ UNCHANGED sessionVars

\* The body is too large, or its stream fails.
BodyFails(r) ==
    /\ \E text \in {"tooLarge", "broken"} : Reject(r, text)
    /\ UNCHANGED sessionVars

\* The body is not JSON, or no JSON-RPC request.
Unparsable(r) == Reject(r, "invalid") /\ UNCHANGED sessionVars

\* The handler's finally: the pin is dropped whatever became of the session.
Unpin(r) ==
    /\ pins' = IF pinned[r] = NoSession THEN pins ELSE [pins EXCEPT ![pinned[r]] = @ - 1]
    /\ pinned' = [pinned EXCEPT ![r] = NoSession]
    /\ UNCHANGED <<status, expired>>

Finish(r) == Received(r) /\ Unpin(r)

\* The timer and a lost peer answer or close the response; the pin stays with the work.
Expire(r) == Timeout(r) /\ UNCHANGED sessionVars
Disconnect(r) == PeerGone(r) /\ UNCHANGED sessionVars
Abort(r) == AbortRead(r) /\ UNCHANGED sessionVars

\* Time passes on an idle session.
GrowIdle(s) ==
    /\ status[s] = "live"
    /\ s \notin expired
    /\ expired' = expired \cup {s}
    /\ UNCHANGED <<requestVars, status, pins, pinned>>

\* Mutant: the sweep does not look at acceptedPostCount.
SweptIdle == {s \in Live : s \in expired}

Swept == {s \in Live : pins[s] = 0 /\ s \in expired}

\* The interval is cleared by stop().
Sweep ==
    /\ ~ShuttingDown
    /\ Swept # {}
    /\ status' = [s \in Sessions |-> IF s \in Swept THEN "gone" ELSE status[s]]
    /\ expired' = expired \ Swept
    /\ UNCHANGED <<requestVars, pins, pinned>>

\* stop() drops every session, pinned or not.
StopTransport ==
    /\ Stop
    /\ status' = [s \in Sessions |-> IF status[s] = "live" THEN "gone" ELSE status[s]]
    /\ expired' = {}
    /\ UNCHANGED <<pins, pinned>>

\* The shutdown timeout elapses before the socket has closed: every connection is dropped.
ForceClose ==
    /\ listener = "closing"
    /\ listener' = "closed"
    /\ answer' = [r \in Requests |->
                    IF phase[r] \in {"reading", "receiving"} THEN Finalized(r, "gone") ELSE answer[r]]
    /\ UNCHANGED <<phase, reason, stop, sessionVars>>

Request(r) ==
    \/ TurnAway(r) /\ UNCHANGED sessionVars
    \/ Acquire(r) /\ UNCHANGED sessionVars
    \/ \E s \in Sessions : Resume(r, s)
    \/ UnknownSession(r)
    \/ Open(r)
    \/ Full(r)
    \/ BodyFails(r)
    \/ Unparsable(r)
    \/ Disconnect(r)

\* What the event loop and its timers do by themselves.
Progress(r) == Abort(r) \/ Expire(r)

Closing == (ListenerCloses \/ StopSettles) /\ UNCHANGED sessionVars
=================================================================================
