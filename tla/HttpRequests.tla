------------------------------ MODULE HttpRequests ------------------------------
(***************************************************************************)
(* The life of the POST requests of an HTTP transport, from the socket to  *)
(* the answer: a request holds a pre-dispatch lease while its body         *)
(* streams, is transferred to the accepted work once it is dispatched to   *)
(* the MCP server, and is answered at most once by its ResponseFinalizer.  *)
(* HttpTransport is this module by itself; StreamableHttp adds sessions.   *)
(*                                                                         *)
(* What a request holds does not matter, only how its reading ends.  One   *)
(* request is one exchange on a connection of its own.                     *)
(***************************************************************************)
CONSTANT Requests

VARIABLES
    phase,      \* where the handler of the request stands
    reason,     \* why the lease of the request was cancelled, "none" if it was not
    answer,     \* what the client was told, "none" while the response is open
    listener,   \* the socket of the server
    stop        \* the promise of stop()

requestVars == <<phase, reason, answer, listener, stop>>

\* A refused request was never handed to the MCP server.
Refusals == {"forbidden", "limited", "unavailable", "tooLarge", "invalid"}
Answers == Refusals \cup {"none", "static", "timeout", "broken", "result", "failed", "gone"}

RequestsTypeOK ==
    /\ phase \in [Requests -> {"unseen", "reading", "receiving", "done"}]
    /\ reason \in [Requests -> {"none", "peer", "shutdown", "timeout"}]
    /\ listener \in {"down", "open", "closing", "closed"}
    /\ stop \in {"none", "pending", "settled"}

Reading == {r \in Requests : phase[r] = "reading"}
Receiving == {r \in Requests : phase[r] = "receiving"}
ShuttingDown == stop # "none"

\* finalize: only the first answer reaches the client.
Finalized(r, text) == IF answer[r] = "none" THEN text ELSE answer[r]

Answer(r, text) == answer' = [answer EXCEPT ![r] = Finalized(r, text)]

\* cancel: the first reason stays, and only a lease still held can be cancelled.
Cancelled(R, why) ==
    [r \in Requests |->
        IF r \in R /\ phase[r] = "reading" /\ reason[r] = "none" THEN why ELSE reason[r]]

RequestsInit ==
    /\ phase = [r \in Requests |-> "unseen"]
    /\ reason = [r \in Requests |-> "none"]
    /\ answer = [r \in Requests |-> "none"]
    /\ listener = "down"
    /\ stop = "none"

Listen ==
    /\ listener = "down"
    /\ ~ShuttingDown
    /\ listener' = "open"
    /\ UNCHANGED <<phase, reason, answer, stop>>

\* The gates before the endpoint: host, shutdown, rate limit and origin, then the static pages.
TurnAway(r) ==
    /\ phase[r] = "unseen"
    /\ listener \in {"open", "closing"}
    /\ \/ Answer(r, "forbidden")
       \/ ShuttingDown /\ Answer(r, "unavailable")
       \/ ~ShuttingDown /\ (Answer(r, "limited") \/ Answer(r, "static"))
    /\ phase' = [phase EXCEPT ![r] = "done"]
    /\ UNCHANGED <<reason, listener, stop>>

\* A POST to the endpoint takes a lease, and its timer and body start.
Acquire(r) ==
    /\ phase[r] = "unseen"
    /\ listener = "open"
    /\ ~ShuttingDown
    /\ phase' = [phase EXCEPT ![r] = "reading"]
    /\ UNCHANGED <<reason, answer, listener, stop>>

\* Mutant: transfer() does not look at the abort signal.
BodyReadAnyway(r) == phase[r] = "reading"

\* The body is read: nothing has cancelled the lease.
BodyRead(r) == phase[r] = "reading" /\ reason[r] = "none"

\* A body that is too large, is no request, or whose stream fails ends the handler.
Reject(r, text) ==
    /\ BodyRead(r)
    /\ Answer(r, text)
    /\ phase' = [phase EXCEPT ![r] = "done"]
    /\ UNCHANGED <<reason, listener, stop>>

\* transfer: the work is counted before the lease is released.
Transfer(r) ==
    /\ BodyRead(r)
    /\ phase' = [phase EXCEPT ![r] = "receiving"]
    /\ UNCHANGED <<reason, answer, listener, stop>>

\* The MCP server has answered, or thrown.
Received(r) ==
    /\ phase[r] = "receiving"
    /\ \E text \in {"result", "failed"} : Answer(r, text)
    /\ phase' = [phase EXCEPT ![r] = "done"]
    /\ UNCHANGED <<reason, listener, stop>>

\* The handler of a request whose lease was cancelled while its body was read.
AbortRead(r) ==
    /\ phase[r] = "reading"
    /\ reason[r] # "none"
    /\ IF reason[r] = "shutdown" THEN Answer(r, "unavailable") ELSE UNCHANGED answer
    /\ phase' = [phase EXCEPT ![r] = "done"]
    /\ UNCHANGED <<reason, listener, stop>>

\* The request timer: it answers, and cancels a read; dispatched work goes on.
Timeout(r) ==
    /\ phase[r] \in {"reading", "receiving"}
    /\ answer[r] = "none"
    /\ Answer(r, "timeout")
    /\ reason' = Cancelled({r}, "timeout")
    /\ UNCHANGED <<phase, listener, stop>>

\* The peer goes away: a read is cancelled, the response is closed for whatever runs.
PeerGone(r) ==
    /\ phase[r] \in {"reading", "receiving"}
    /\ answer[r] = "none"
    /\ Answer(r, "gone")
    /\ reason' = Cancelled({r}, "peer")
    /\ UNCHANGED <<phase, listener, stop>>

\* stop(): admission closes at once and every lease is cancelled.
Stop ==
    /\ stop = "none"
    /\ stop' = "pending"
    /\ reason' = Cancelled(Requests, "shutdown")
    /\ listener' = IF listener = "open" THEN "closing" ELSE "closed"
    /\ UNCHANGED <<phase, answer>>

\* The socket closes when the last connection has ended.
ListenerCloses ==
    /\ listener = "closing"
    /\ \A r \in Requests : phase[r] \in {"reading", "receiving"} => answer[r] # "none"
    /\ listener' = "closed"
    /\ UNCHANGED <<phase, reason, answer, stop>>

\* The leases are joined first, then the accepted work.
Joined == Reading = {} /\ Receiving = {}

StopSettles ==
    /\ stop = "pending"
    /\ listener = "closed"
    /\ Joined
    /\ stop' = "settled"
    /\ UNCHANGED <<phase, reason, answer, listener>>
=================================================================================
