----------------------------- MODULE SessionLock -----------------------------
(***************************************************************************)
(* SessionLock: the promise chain that serialises the requests of a        *)
(* session, with acquisition timeouts.                                     *)
(*                                                                         *)
(* A call of withLock publishes its `next` promise as the session's tail   *)
(* and waits for the tail it found there, its predecessor.  `next` settles *)
(* once the predecessor has settled and the call has released: a call that *)
(* timed out releases early but keeps its place in the chain.              *)
(***************************************************************************)
EXTENDS Naturals, Sequences, FiniteSets

CONSTANTS
  Sessions,     \* session identifiers
  Requests,     \* concurrent calls of withLock
  NoSession,    \* the session of no call
  NoRequest     \* a settled predecessor; no tail

ASSUME LockAssumption ==
  /\ NoSession \notin Sessions
  /\ NoRequest \notin Requests

VARIABLES
  locks,        \* _locks: the tail published last, per session
  session,      \* the session a call asked for
  previous,     \* the predecessor of a call, while it has not settled
  stage         \* where a call is

lockVars == <<locks, session, previous, stage>>

\* "released" and "abandoned": the call is over, its `next` has not settled.
Stages == {"idle", "waiting", "running", "released", "abandoned"}

\* The calls whose `next` has not settled.
Unsettled(s) == {a \in Requests : stage[a] # "idle" /\ session[a] = s}

LockInit ==
  /\ locks = [s \in Sessions |-> NoRequest]
  /\ session = [a \in Requests |-> NoSession]
  /\ previous = [a \in Requests |-> NoRequest]
  /\ stage = [a \in Requests |-> "idle"]

\* withLock, up to its await: read the tail, publish the next one.
WithLock(a, s) ==
  /\ stage[a] = "idle"
  /\ session' = [session EXCEPT ![a] = s]
  /\ previous' = [previous EXCEPT ![a] = locks[s]]
  /\ locks' = [locks EXCEPT ![s] = a]
  /\ stage' = [stage EXCEPT ![a] = "waiting"]

\* The predecessor settled, however it ended: the call runs its section.
Enter(a) ==
  /\ stage[a] = "waiting"
  /\ previous[a] = NoRequest
  /\ stage' = [stage EXCEPT ![a] = "running"]
  /\ UNCHANGED <<locks, session, previous>>

\* Mutant: the rejection of the timer is lost, and the call goes on.
TimeoutGoesOn(a) ==
  /\ stage[a] = "waiting"
  /\ previous[a] # NoRequest
  /\ stage' = [stage EXCEPT ![a] = "running"]
  /\ UNCHANGED <<locks, session, previous>>

\* The acquisition timer fires.  Timers run when no reaction of a settled
\* promise is pending, so the predecessor has not settled; a timer that fires
\* while the section runs rejects a promise already resolved and does nothing.
Timeout(a) ==
  /\ stage[a] = "waiting"
  /\ previous[a] # NoRequest
  /\ stage' = [stage EXCEPT ![a] = "abandoned"]
  /\ UNCHANGED <<locks, session, previous>>

\* Mutant: a section that throws is tried again in its place.
ReleaseOrRetry(a) ==
  /\ stage[a] = "running"
  /\ \E next \in {"released", "waiting"} : stage' = [stage EXCEPT ![a] = next]
  /\ UNCHANGED <<locks, session, previous>>

\* The section returns or throws; the finally block releases.
Release(a) ==
  /\ stage[a] = "running"
  /\ stage' = [stage EXCEPT ![a] = "released"]
  /\ UNCHANGED <<locks, session, previous>>

\* The call is over as soon as its section is: a timed-out call does not wait
\* for its predecessor.
Over(a) == stage[a] \in {"released", "abandoned"}

\* `next` of the call settles.
Settles(a) == Over(a) /\ previous[a] = NoRequest

\* The cleanup reaction of `next`: only the tail itself removes its entry.
LocksAfter(a) ==
  [locks EXCEPT ![session[a]] = IF @ = a THEN NoRequest ELSE @]

\* Mutant: settled tails are never removed.
SettleKeepingTail(a) ==
  /\ Settles(a)
  /\ previous' = [b \in Requests |-> IF previous[b] = a THEN NoRequest ELSE previous[b]]
  /\ session' = [session EXCEPT ![a] = NoSession]
  /\ stage' = [stage EXCEPT ![a] = "idle"]
  /\ UNCHANGED locks

\* The reactions of `next`: the cleanup, and the successors that waited for it.
Settle(a) ==
  /\ Settles(a)
  /\ locks' = LocksAfter(a)
  /\ previous' = [b \in Requests |-> IF previous[b] = a THEN NoRequest ELSE previous[b]]
  /\ session' = [session EXCEPT ![a] = NoSession]
  /\ stage' = [stage EXCEPT ![a] = "idle"]

LockNext ==
  \E a \in Requests :
    \/ \E s \in Sessions : WithLock(a, s)
    \/ Enter(a)
    \/ Timeout(a)
    \/ Release(a)
    \/ Settle(a)

LockSpec == LockInit /\ [][LockNext]_lockVars

-----------------------------------------------------------------------------
(* Properties.                                                             *)

\* Every variable has its type; idle calls hold nothing.
LockTypeOK ==
  /\ locks \in [Sessions -> Requests \cup {NoRequest}]
  /\ session \in [Requests -> Sessions \cup {NoSession}]
  /\ previous \in [Requests -> Requests \cup {NoRequest}]
  /\ stage \in [Requests -> Stages]
  /\ \A a \in Requests : stage[a] = "idle" <=> session[a] = NoSession

\* Two calls never run their sections on the same session, whoever timed out
\* in between and whichever entries were cleaned up.
MutualExclusion ==
  \A a, b \in Requests :
    stage[a] = "running" /\ stage[b] = "running" /\ session[a] = session[b] => a = b

\* The map holds an entry for a session exactly while a call of it is unsettled:
\* it does not grow with the sessions ever locked, and no entry that a later
\* call still needs is dropped.
NoLeakedTail ==
  \A s \in Sessions : locks[s] # NoRequest <=> Unsettled(s) # {}

\* A waiting call is served or gives up: releases, failures and abandoned
\* places all pass the lock on, without the help of its own timer.
NoCallStuck ==
  \A a \in Requests : stage[a] = "waiting" ~> stage[a] # "waiting"

\* The calls ahead of a call in its chain: the least set that holds its
\* predecessor and the predecessors of its members.
Predecessors(a) ==
  LET Follows(S) == \A b \in S \cup {a} : previous[b] \in S \cup {NoRequest}
  IN {b \in Requests : \A S \in SUBSET Requests : Follows(S) => b \in S}

Waiting(s) == {a \in Unsettled(s) : stage[a] = "waiting"}

\* q lists the calls that wait for a session, each behind its predecessors.
Listed(s, q) ==
  /\ \A a \in Waiting(s) : \E i \in DOMAIN q : q[i] = a
  /\ \A i, j \in DOMAIN q : i < j => q[i] \in Predecessors(q[j])

\* The chain of promises is a first-come-first-served lock with waiters that
\* may give up.
LockQueue ==
  [s \in Sessions |-> CHOOSE q \in [1..Cardinality(Waiting(s)) -> Waiting(s)] : Listed(s, q)]

LockHolders == [s \in Sessions |-> {a \in Unsettled(s) : stage[a] = "running"}]

Fifo == INSTANCE FifoLock
  WITH Keys <- Sessions, Clients <- Requests, queue <- LockQueue, holders <- LockHolders

FifoSpec == Fifo!Spec

=============================================================================
