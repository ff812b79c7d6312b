---------------------------- MODULE SessionStore ----------------------------
(***************************************************************************)
(* HistoryManager with SessionManager and SessionResetCoordinator: who     *)
(* owns a thought session, when its live state is created, evicted, reset  *)
(* and restored, and what of it is durable.                                *)
(*                                                                         *)
(* A thought is the owner that wrote it.  The lifecycle coordinator and    *)
(* the persistence buffer appear as what SessionLifecycle and              *)
(* PersistenceBuffer establish of them: phases and admitted requests,      *)
(* accepted work that becomes durable or fails.  A request is one call     *)
(* with the awaits it has in the code; between them others run.            *)
(***************************************************************************)
EXTENDS Naturals, Sequences, FiniteSets

CONSTANTS
  Sessions,         \* thought session identifiers
  Owners,           \* request owners
  NoOwner,          \* the trusted ownerless context; owner = undefined
  NoSession,        \* the session of a global request
  Requests,         \* concurrent requests
  Absent,           \* no live state
  Unmarked,         \* no expiration marker
  MaxSessions,      \* HistoryManager.MAX_SESSIONS
  MaxPerOwner,      \* maxSessionsPerOwner
  DirectReads,      \* do callers read sessions outside any admitted operation?
  DirectDrains,     \* do callers drain the buffer themselves?
  Crashes           \* may the process restart?

ASSUME ConstantsAssumption ==
  /\ NoOwner \notin Owners
  /\ NoSession \notin Sessions
  /\ Unmarked \notin Owners \cup {NoOwner}
  /\ IsFiniteSet(Sessions)
  /\ MaxSessions \in Nat \ {0}
  /\ MaxPerOwner \in Nat \ {0}
  /\ DirectReads \in BOOLEAN
  /\ DirectDrains \in BOOLEAN
  /\ Crashes \in BOOLEAN

VARIABLES
  live,         \* _sessions: owner and provenance
  recency,      \* the sessions that count, by lastAccessedAt, oldest first
  history,      \* writers of the live chain
  expired,      \* _expiredSessions: the former owner, or Unmarked
  queued,       \* writers of the accepted work the buffer still holds
  stuck,        \* sessions whose work holds a terminal failure
  durable,      \* writers of what the backend holds
  leftover,     \* writers of retained work of a chain whose stored half is deleted
  late,         \* the writer of deleted work that a save has in hand
  revived,      \* writers of deleted work that reached the backend afterwards
  phase,        \* lifecycle phase per session
  globalPhase,  \* lifecycle global phase
  requests      \* the requests in progress

remainsVars == <<leftover, late, revived>>
bufferVars == <<queued, stuck, durable, remainsVars>>
sessionVars == <<live, recency, history, expired>>
vars == <<sessionVars, bufferVars, phase, globalPhase, requests>>

-----------------------------------------------------------------------------

Writers == Owners \cup {NoOwner}

Session == [owner : Writers, restored : BOOLEAN]

ASSUME AbsentAssumption == Absent \notin Session

\* "thought": process() without reset; "reset": resetSession(); "replace":
\* process() with reset_state; "evict": TTL cleanup; "global": resetAll().
Resets == {"reset", "replace"}
Maintenance == Resets \cup {"evict"}

Request == [kind      : {"none", "thought", "global"} \cup Maintenance,
            session   : Sessions \cup {NoSession},
            owner     : Writers,
            stage     : {"idle", "planned", "admitted", "claimed", "draining",
                         "cleared", "replaced"},
            preserved : Writers]

NoRequest == [kind |-> "none", session |-> NoSession, owner |-> NoOwner,
              stage |-> "idle", preserved |-> NoOwner]

In(r, K, st) == requests[r].kind \in K /\ requests[r].stage = st

Started(r, k, s, o, st) ==
  /\ requests[r] = NoRequest
  /\ requests' = [requests EXCEPT ![r] = [kind |-> k, session |-> s, owner |-> o,
                                          stage |-> st, preserved |-> NoOwner]]

Moved(r, st) == requests' = [requests EXCEPT ![r].stage = st]
Ended(r) == requests' = [requests EXCEPT ![r] = NoRequest]

Fresh(o) == [owner |-> o, restored |-> FALSE]

-----------------------------------------------------------------------------
(* Authorisation.                                                          *)

FormerOwner(s) ==
  IF expired[s] # Unmarked THEN expired[s]
  ELSE IF live[s] # Absent THEN live[s].owner ELSE NoOwner

\* Mutant: a restored session is open to every owner.
ResetAuthorizedRestored(s, o) == o # NoOwner => FormerOwner(s) \in {o, NoOwner}

\* _authorizeSessionReset, and _assertSessionOwner for a live session.
ResetAuthorized(s, o) ==
  o # NoOwner =>
    /\ live[s] # Absent => ~live[s].restored
    /\ FormerOwner(s) \in {o, NoOwner}

\* Mutant: a reset hands the name to whoever asks for it.
PreservedCaller(s, o) == o

\* The owner a reset preserves.
Preserved(s, o) == IF FormerOwner(s) = NoOwner THEN o ELSE FormerOwner(s)

\* _authorizeExistingSession
Authorized(s, o) == ResetAuthorized(s, o) /\ expired[s] = Unmarked

-----------------------------------------------------------------------------
(* Capacity: SessionManager.planProspectiveAdmission.                      *)

Admitted(s) == {r \in Requests : In(r, {"thought"}, "admitted") /\ requests[r].session = s}

\* The lifecycle's isIdle.
Idle(s) == phase[s] = "open" /\ Admitted(s) = {}

\* Mutant: an admitted operation does not protect its session.
EligibleWhileBusy(s) == phase[s] = "open" /\ queued[s] = {} /\ s \notin stuck

\* What the queue holds of s.
Backlog(s) == queued[s] \cup leftover[s]

\* sessionEvictionState: nothing pending and nothing failed.
Quiescent(s) == Backlog(s) = {} /\ s \notin stuck

\* _isCapacityEvictionEligible: idle, and its persistence quiescent.
Eligible(s) == Idle(s) /\ Quiescent(s)

\* The sessions that count: live and not restored.
Counted == {s \in Sessions : live[s] # Absent /\ ~live[s].restored}
CountedOf(o) == {s \in Counted : live[s].owner = o}

RankOf(s) == CHOOSE i \in DOMAIN recency : recency[i] = s

\* The n least recently used members of S.
Oldest(S, n) == {s \in S : Cardinality({t \in S : RankOf(t) < RankOf(s)}) < n}

Excess(n, limit) == IF n + 1 > limit THEN n + 1 - limit ELSE 0

OwnerNeed(o) ==
  IF o = NoOwner THEN 0 ELSE Excess(Cardinality(CountedOf(o)), MaxPerOwner)

EligibleOf(o) == {s \in CountedOf(o) : Eligible(s)}

OwnerVictims(o) == Oldest(EligibleOf(o), OwnerNeed(o))

Alternatives(o) == {s \in Counted : Eligible(s)} \ OwnerVictims(o)

\* What the global limit asks for beyond the owner's own victims.
RemainingNeed(o) ==
  LET need == Excess(Cardinality(Counted), MaxSessions)
      taken == Cardinality(OwnerVictims(o))
  IN IF need > taken THEN need - taken ELSE 0

\* A complete set of victims exists; otherwise MaxSessionsReachedError.
PlanExists(o) ==
  /\ Cardinality(EligibleOf(o)) >= OwnerNeed(o)
  /\ Cardinality(Alternatives(o)) >= RemainingNeed(o)

Victims(o) == OwnerVictims(o) \cup Oldest(Alternatives(o), RemainingNeed(o))

\* _makeCapacityForSession succeeds: tryEvictIdleSessions needs an open global
\* phase as soon as there is anything to evict.
CapacityAvailable(o) ==
  /\ PlanExists(o)
  /\ Victims(o) # {} => globalPhase = "open"

-----------------------------------------------------------------------------
(* Live state.                                                             *)

\* The expiration markers once V is evicted: _removeLiveSession.
MarkersAfter(V) ==
  [s \in Sessions |-> IF s \in V /\ live[s] # Absent THEN live[s].owner ELSE expired[s]]

RecencyWithout(V) == SelectSeq(recency, LAMBDA s : s \notin V)

\* The live state once V is evicted and s is E with the chain written by W,
\* accessed now.
Becomes(s, V, E, W) ==
  /\ live' = [t \in Sessions |-> IF t = s THEN E ELSE IF t \in V THEN Absent ELSE live[t]]
  /\ history' = [t \in Sessions |-> IF t = s THEN W ELSE IF t \in V THEN {} ELSE history[t]]
  /\ recency' = IF E.restored THEN recency ELSE Append(RecencyWithout(V \cup {s}), s)

\* The session after an authorised access: the first owner-aware access binds.
Bound(s, o) == IF live[s].owner = NoOwner /\ ~live[s].restored THEN [live[s] EXCEPT !.owner = o]
               ELSE live[s]

\* _getSessionWithinOperation, followed by a thought when W = {o}.
Access(s, o, W) ==
  \/ /\ live[s] # Absent
     /\ Becomes(s, {}, Bound(s, o), history[s] \cup W)
     /\ UNCHANGED expired
  \/ /\ live[s] = Absent
     /\ CapacityAvailable(o)
     /\ Becomes(s, Victims(o), Fresh(o), W)
     /\ expired' = MarkersAfter(Victims(o))

-----------------------------------------------------------------------------
(* Thoughts: ThoughtProcessor.process without reset, and direct reads.     *)

BeginThought(r, s, o) ==
  /\ Authorized(s, o)
  /\ phase[s] = "open" /\ globalPhase = "open"
  /\ Started(r, "thought", s, o, "admitted")
  /\ UNCHANGED <<sessionVars, bufferVars, phase, globalPhase>>

\* The session lock is ours: _processInner and addThought, which authorise
\* again, and the end of the operation.
CommitThought(r) ==
  LET s == requests[r].session
      o == requests[r].owner
  IN
  /\ In(r, {"thought"}, "admitted")
  /\ Authorized(s, o)
  /\ Access(s, o, {o})
  /\ queued' = [queued EXCEPT ![s] = @ \cup {o}]
  /\ Ended(r)
  /\ UNCHANGED <<stuck, durable, remainsVars, phase, globalPhase>>

\* The lock times out, or the thought is refused.
RejectThought(r) ==
  /\ In(r, {"thought"}, "admitted")
  /\ Ended(r)
  /\ UNCHANGED <<sessionVars, bufferVars, phase, globalPhase>>

\* _getSession: a read outside any admitted operation.
Read(s, o) ==
  /\ DirectReads
  /\ Authorized(s, o)
  /\ live[s] = Absent => phase[s] = "open" /\ globalPhase = "open"
  /\ Access(s, o, {})
  /\ UNCHANGED <<bufferVars, phase, globalPhase, requests>>

-----------------------------------------------------------------------------
(* The buffer: accepted work becomes durable or fails.  One save at a time; *)
(* work retained from a deleted chain is saved like any other.             *)

InHand == \E s \in Sessions : late[s] # {}

Flush(s) ==
  /\ Backlog(s) # {}
  /\ s \notin stuck
  /\ ~InHand
  /\ durable' = [durable EXCEPT ![s] = @ \cup queued[s]]
  /\ revived' = [revived EXCEPT ![s] = @ \cup leftover[s]]
  /\ queued' = [queued EXCEPT ![s] = {}]
  /\ leftover' = [leftover EXCEPT ![s] = {}]
  /\ UNCHANGED <<sessionVars, stuck, late, phase, globalPhase, requests>>

FlushFails(s) ==
  /\ Backlog(s) # {}
  /\ s \notin stuck
  /\ ~InHand
  /\ stuck' = stuck \cup {s}
  /\ UNCHANGED <<sessionVars, queued, durable, remainsVars, phase, globalPhase, requests>>

\* The save in hand when its entry was discarded lands, or fails unnoticed.
LateSave(s) ==
  /\ late[s] # {}
  /\ late' = [late EXCEPT ![s] = {}]
  /\ revived' \in {revived, [revived EXCEPT ![s] = @ \cup late[s]]}
  /\ UNCHANGED <<sessionVars, queued, stuck, durable, leftover, phase, globalPhase, requests>>

\* The global barrier drains, or the durable deletion of everything has begun.
GlobalBarred ==
  \E r \in Requests : requests[r].kind = "global" /\ requests[r].stage \in {"draining", "cleared"}

\* A caller's own explicit drain (drainSession, drain) tries the failed work again.
Rearm(s) ==
  /\ DirectDrains
  /\ s \in stuck
  /\ ~GlobalBarred
  /\ stuck' = stuck \ {s}
  /\ UNCHANGED <<sessionVars, queued, durable, remainsVars, phase, globalPhase, requests>>

\* A barrier joins a generation that is explicit from now on: it tries the failed
\* work of every session again, whatever is going on there, except what it has
\* tried already.
BarrierDrains == stuck' \in SUBSET stuck

\* The drain of s has come to an end: nothing is in hand, and what is left has failed.
Settled(s) == late[s] = {} /\ (Backlog(s) = {} \/ s \in stuck)

-----------------------------------------------------------------------------
(* Session resets: resetSession, resetSessionWithinExclusive and           *)
(* SessionResetCoordinator.resetSession.                                   *)

BeginReset(r, s, o, k) ==
  /\ ResetAuthorized(s, o)
  /\ phase[s] \in {"open", "reset_failed"} /\ globalPhase = "open"
  /\ phase' = [phase EXCEPT ![s] = "resetting"]
  /\ Started(r, k, s, o, "claimed")
  /\ UNCHANGED <<sessionVars, bufferVars, globalPhase>>

\* The admitted operations have ended: preserve the owner, check the capacity
\* and enter the barrier, which drains.
PlanReset(r) ==
  LET s == requests[r].session
      o == requests[r].owner
  IN
  /\ In(r, Resets, "claimed")
  /\ Admitted(s) = {}
  /\ ResetAuthorized(s, o)
  /\ live[s] = Absent => PlanExists(Preserved(s, o))
  /\ requests' = [requests EXCEPT ![r].stage = "draining", ![r].preserved = Preserved(s, o)]
  /\ BarrierDrains
  /\ UNCHANGED <<sessionVars, queued, durable, remainsVars, phase, globalPhase>>

\* The barrier's drain has settled; the backend clears the session.  What the queue
\* still holds of it is work of a deleted chain from now on.
ClearDurable(r) ==
  LET s == requests[r].session IN
  /\ In(r, Resets, "draining")
  /\ Settled(s)
  /\ durable' = [durable EXCEPT ![s] = {}]
  /\ revived' = [revived EXCEPT ![s] = {}]
  /\ leftover' = [leftover EXCEPT ![s] = Backlog(s)]
  /\ queued' = [queued EXCEPT ![s] = {}]
  /\ Moved(r, "cleared")
  /\ UNCHANGED <<sessionVars, stuck, late, phase, globalPhase>>

\* The barrier discards the queued work of s.  A save of it that an explicit drain
\* has begun by then goes on.
DiscardWork(s) ==
  /\ queued' = [queued EXCEPT ![s] = {}]
  /\ leftover' = [leftover EXCEPT ![s] = {}]
  /\ stuck' = stuck \ {s}
  /\ \/ UNCHANGED late
     \/ /\ s \notin stuck /\ ~InHand
        /\ \E w \in leftover[s] : late' = [late EXCEPT ![s] = {w}]

\* Mutant: the queue survives the deletion.
ReplaceKeepingQueue(r) ==
  LET s == requests[r].session
      o == requests[r].preserved
      V == IF live[s] = Absent THEN Victims(o) ELSE {}
  IN
  /\ In(r, Resets, "cleared")
  /\ live[s] = Absent => CapacityAvailable(o)
  /\ Becomes(s, V, Fresh(o), {})
  /\ expired' = MarkersAfter(V)
  /\ stuck' = stuck \ {s}
  /\ Moved(r, "replaced")
  /\ UNCHANGED <<queued, durable, remainsVars, phase, globalPhase>>

\* _replaceLiveSession, and the barrier's discard of the session's work.
Replace(r) ==
  LET s == requests[r].session
      o == requests[r].preserved
      V == IF live[s] = Absent THEN Victims(o) ELSE {}
  IN
  /\ In(r, Resets, "cleared")
  /\ live[s] = Absent => CapacityAvailable(o)
  /\ Becomes(s, V, Fresh(o), {})
  /\ expired' = MarkersAfter(V)
  /\ DiscardWork(s)
  /\ Moved(r, "replaced")
  /\ UNCHANGED <<durable, revived, phase, globalPhase>>

\* The marker is deleted, a reset_state thought is added to the new chain, and
\* the lifecycle reopens the session.
FinishReset(r) ==
  LET s == requests[r].session
      o == requests[r].owner
  IN
  /\ In(r, Resets, "replaced")
  /\ expired' = [expired EXCEPT ![s] = Unmarked]
  /\ IF requests[r].kind = "replace"
     THEN /\ ResetAuthorized(s, o)
          /\ Becomes(s, {}, Bound(s, o), {o})
          /\ queued' = [queued EXCEPT ![s] = {o}]
     ELSE UNCHANGED <<live, recency, history, queued>>
  /\ phase' = [phase EXCEPT ![s] = "open"]
  /\ Ended(r)
  /\ UNCHANGED <<stuck, durable, remainsVars, globalPhase>>

\* A replacement thought is invalid or the capacity is exceeded; clearSession
\* rejects; the capacity is exceeded after the deletion; the thought of a
\* committed replacement is refused (its marker is deleted before).
FailReset(r) ==
  LET s == requests[r].session IN
  /\ requests[r].kind \in Resets
  /\ \/ requests[r].stage = "claimed" /\ Admitted(s) = {}
     \/ requests[r].stage = "draining" /\ Settled(s)
     \/ /\ requests[r].stage = "cleared"
        /\ live[s] = Absent
        /\ ~CapacityAvailable(requests[r].preserved)
     \/ In(r, {"replace"}, "replaced")
  /\ expired' = IF requests[r].stage = "replaced" THEN [expired EXCEPT ![s] = Unmarked]
                ELSE expired
  /\ phase' = [phase EXCEPT ![s] = "reset_failed"]
  /\ Ended(r)
  /\ UNCHANGED <<live, recency, history, bufferVars, globalPhase>>

-----------------------------------------------------------------------------
(* TTL eviction: SessionManager.startCleanupTimer and _evictSession.       *)

\* staleSessionCandidates: any time may have passed; pending work does not protect
\* an idle session, a failure does.
Stale(s) == s \in Counted /\ Idle(s) /\ s \notin stuck

\* The timer finds the session stale.
PlanEviction(r, s) ==
  /\ Stale(s)
  /\ Started(r, "evict", s, NoOwner, "planned")
  /\ UNCHANGED <<sessionVars, bufferVars, phase, globalPhase>>

\* A microtask later the cleanup claims it, or is refused.
ClaimEviction(r) ==
  LET s == requests[r].session IN
  /\ In(r, {"evict"}, "planned")
  /\ IF phase[s] = "open" /\ globalPhase = "open"
     THEN /\ phase' = [phase EXCEPT ![s] = "evicting"]
          /\ Moved(r, "claimed")
     ELSE Ended(r) /\ UNCHANGED phase
  /\ UNCHANGED <<sessionVars, bufferVars, globalPhase>>

\* The operations have ended; the eviction barrier drains.
DrainEviction(r) ==
  LET s == requests[r].session IN
  /\ In(r, {"evict"}, "claimed")
  /\ Admitted(s) = {}
  /\ BarrierDrains
  /\ Moved(r, "draining")
  /\ UNCHANGED <<sessionVars, queued, durable, remainsVars, phase, globalPhase>>

\* The buffer is quiescent: remove the live state.
Evict(r) ==
  LET s == requests[r].session IN
  /\ In(r, {"evict"}, "draining")
  /\ Quiescent(s) /\ late[s] = {}
  /\ live' = [live EXCEPT ![s] = Absent]
  /\ history' = [history EXCEPT ![s] = {}]
  /\ recency' = RecencyWithout({s})
  /\ expired' = MarkersAfter({s})
  /\ phase' = [phase EXCEPT ![s] = "open"]
  /\ Ended(r)
  /\ UNCHANGED <<bufferVars, globalPhase>>

\* The drain of the eviction barrier fails.
FailEviction(r) ==
  LET s == requests[r].session IN
  /\ In(r, {"evict"}, "draining")
  /\ s \in stuck /\ late[s] = {}
  /\ phase' = [phase EXCEPT ![s] = "eviction_failed"]
  /\ Ended(r)
  /\ UNCHANGED <<sessionVars, bufferVars, globalPhase>>

-----------------------------------------------------------------------------
(* The global reset: resetAll.  Only an ownerless context may ask for it.  *)

Maintained == {r \in Requests : requests[r].kind \in Maintenance /\ requests[r].stage # "planned"}

BeginGlobalReset(r) ==
  /\ globalPhase \in {"open", "reset_failed"}
  /\ globalPhase' = "resetting"
  /\ Started(r, "global", NoSession, NoOwner, "claimed")
  /\ UNCHANGED <<sessionVars, bufferVars, phase>>

\* Everything admitted has ended; the global barrier drains.
DrainAll(r) ==
  /\ In(r, {"global"}, "claimed")
  /\ Maintained = {}
  /\ \A s \in Sessions : Admitted(s) = {}
  /\ BarrierDrains
  /\ Moved(r, "draining")
  /\ UNCHANGED <<sessionVars, queued, durable, remainsVars, phase, globalPhase>>

\* The drain has settled; the backend clears everything.
ClearAllDurable(r) ==
  /\ In(r, {"global"}, "draining")
  /\ \A s \in Sessions : Settled(s)
  /\ durable' = [s \in Sessions |-> {}]
  /\ revived' = [s \in Sessions |-> {}]
  /\ leftover' = [s \in Sessions |-> Backlog(s)]
  /\ queued' = [s \in Sessions |-> {}]
  /\ Moved(r, "cleared")
  /\ UNCHANGED <<sessionVars, stuck, late, phase, globalPhase>>

FinishGlobalReset(r) ==
  /\ In(r, {"global"}, "cleared")
  /\ live' = [s \in Sessions |-> Absent]
  /\ history' = [s \in Sessions |-> {}]
  /\ recency' = <<>>
  /\ expired' = [s \in Sessions |-> Unmarked]
  /\ queued' = [s \in Sessions |-> {}]
  /\ leftover' = [s \in Sessions |-> {}]
  /\ stuck' = {}
  /\ phase' = [s \in Sessions |-> "open"]
  /\ globalPhase' = "open"
  /\ Ended(r)
  /\ UNCHANGED <<durable, late, revived>>

\* clearAll rejects.
FailGlobalReset(r) ==
  /\ In(r, {"global"}, "draining")
  /\ \A s \in Sessions : Settled(s)
  /\ globalPhase' = "reset_failed"
  /\ Ended(r)
  /\ UNCHANGED <<sessionVars, bufferVars, phase>>

-----------------------------------------------------------------------------

\* What the backend holds.
Backed == [s \in Sessions |-> durable[s] \cup revived[s]]

\* What a restart restores: the durable namespaces, with no owner known.
RestoredFrom(d) ==
  [s \in Sessions |-> IF d[s] = {} THEN Absent ELSE [owner |-> NoOwner, restored |-> TRUE]]

\* The process dies and starts again: loadFromPersistence.
Restart ==
  /\ Crashes
  /\ live' = RestoredFrom(Backed)
  /\ history' = Backed
  /\ recency' = <<>>
  /\ expired' = [s \in Sessions |-> Unmarked]
  /\ queued' = [s \in Sessions |-> {}]
  /\ stuck' = {}
  /\ durable' = Backed
  /\ leftover' = [s \in Sessions |-> {}]
  /\ late' = [s \in Sessions |-> {}]
  /\ revived' = [s \in Sessions |-> {}]
  /\ phase' = [s \in Sessions |-> "open"]
  /\ globalPhase' = "open"
  /\ requests' = [r \in Requests |-> NoRequest]

Init ==
  /\ live = [s \in Sessions |-> Absent]
  /\ recency = <<>>
  /\ history = [s \in Sessions |-> {}]
  /\ expired = [s \in Sessions |-> Unmarked]
  /\ queued = [s \in Sessions |-> {}]
  /\ stuck = {}
  /\ durable = [s \in Sessions |-> {}]
  /\ leftover = [s \in Sessions |-> {}]
  /\ late = [s \in Sessions |-> {}]
  /\ revived = [s \in Sessions |-> {}]
  /\ phase = [s \in Sessions |-> "open"]
  /\ globalPhase = "open"
  /\ requests = [r \in Requests |-> NoRequest]

\* What a request does once it has begun.
Proceed(r) ==
  \/ CommitThought(r) \/ RejectThought(r)
  \/ PlanReset(r) \/ ClearDurable(r) \/ Replace(r) \/ FinishReset(r) \/ FailReset(r)
  \/ ClaimEviction(r) \/ DrainEviction(r) \/ Evict(r) \/ FailEviction(r)
  \/ DrainAll(r) \/ ClearAllDurable(r) \/ FinishGlobalReset(r) \/ FailGlobalReset(r)

Begin(r) ==
  \/ BeginGlobalReset(r)
  \/ \E s \in Sessions :
       \/ PlanEviction(r, s)
       \/ \E o \in Writers :
            \/ BeginThought(r, s, o)
            \/ \E k \in Resets : BeginReset(r, s, o, k)

Persist(s) == Flush(s) \/ FlushFails(s) \/ LateSave(s)

Next ==
  \/ \E r \in Requests : Begin(r) \/ Proceed(r)
  \/ \E s \in Sessions :
       \/ Persist(s) \/ Rearm(s)
       \/ \E o \in Writers : Read(s, o)
  \/ Restart

Spec == Init /\ [][Next]_vars

-----------------------------------------------------------------------------
(***************************************************************************)
(* Properties.                                                             *)
(***************************************************************************)

\* recency lists each counted session once.
RecencyOrders ==
  /\ recency \in Seq(Sessions)
  /\ \A i, j \in DOMAIN recency : recency[i] = recency[j] => i = j
  /\ {recency[i] : i \in DOMAIN recency} = Counted

\* Every other variable has its type.
Typed ==
  /\ live \in [Sessions -> Session \cup {Absent}]
  /\ history \in [Sessions -> SUBSET Writers]
  /\ expired \in [Sessions -> Writers \cup {Unmarked}]
  /\ queued \in [Sessions -> SUBSET Writers]
  /\ stuck \in SUBSET Sessions
  /\ durable \in [Sessions -> SUBSET Writers]
  /\ leftover \in [Sessions -> SUBSET Writers]
  /\ late \in [Sessions -> SUBSET Writers]
  /\ revived \in [Sessions -> SUBSET Writers]
  /\ phase \in [Sessions -> {"open", "resetting", "reset_failed", "evicting", "eviction_failed"}]
  /\ globalPhase \in {"open", "resetting", "reset_failed"}
  /\ requests \in [Requests -> Request]

TypeOK == Typed /\ RecencyOrders

\* The chain as it is stored or still owed to the backend, and what remains of
\* chains that a reset has deleted.
Stored(s) == durable[s] \cup queued[s]
Remains(s) == leftover[s] \cup late[s] \cup revived[s]

\* Sessions no maintenance is working on, and none has failed on.
Serving(s) == phase[s] = "open" /\ globalPhase = "open"

\* docs/reliability-contract.md:88: nobody reads or continues the chain of
\* another owner.  No chain mixes the thoughts of two owners, live or stored,
\* restored or not, nor with what remains of deleted ones; what an owned session
\* holds was written by its owner or by the ownerless context, and a session nobody
\* owns holds nothing an owner wrote.  An expired name keeps its owner's records for
\* that owner alone, and a name that is neither live nor expired starts from nothing.
ChainIsolation ==
  \A s \in Sessions :
    LET kept == Stored(s) \cup Remains(s) IN
    /\ Cardinality((history[s] \cup kept) \ {NoOwner}) <= 1
    /\ live[s] # Absent /\ ~live[s].restored =>
         /\ history[s] \subseteq {live[s].owner, NoOwner}
         /\ Serving(s) => kept \subseteq {live[s].owner, NoOwner}
    /\ live[s] = Absent /\ Serving(s) =>
         kept \subseteq IF expired[s] = Unmarked THEN {} ELSE {expired[s], NoOwner}

\* What clients see of a session that serves is what the backend holds of its chain
\* or the buffer still owes it, and the buffer owes nothing of a deleted chain:
\* evictions, failed writes, resets and restarts never separate the two.  What a
\* drain put back of a deleted chain is not part of this (DeletionIsFinal).
LiveMatchesStored ==
  \A s \in Sessions : Serving(s) =>
    /\ live[s] # Absent => history[s] = Stored(s)
    /\ leftover[s] = {}

\* docs/reliability-contract.md:65: "Explicit reset deletes the affected session's
\* durable data and starts a fresh chain"; PersistenceBuffer.ts:410: "successful
\* durable deletion invalidates those stale queue entries before admission reopens."
\* The backend holds nothing of a deleted chain once the session serves again.
DeletionIsFinal == \A s \in Sessions : Serving(s) => revived[s] = {}

\* A session with an admitted operation stays live until the operation ends.
AdmittedKeepsSession ==
  [][\A r \in Requests : LET s == requests[r].session IN
       /\ In(r, {"thought"}, "admitted")
       /\ requests'[r] = requests[r]
       /\ live[s] # Absent
       => live'[s] # Absent]_vars

\* docs/reliability-contract.md:65: an evicted name does not continue.  Until a
\* reset of the name, a global reset or a restart, its marker stays and it is
\* not live.
EvictedStaysClosed ==
  [][\A s \in Sessions : expired[s] # Unmarked =>
       \/ expired'[s] = expired[s] /\ (live'[s] = Absent \/ phase'[s] = "resetting")
       \/ phase[s] = "resetting"
       \/ globalPhase = "resetting"
       \/ live' = RestoredFrom(Backed)]_vars

\* Evictions neither take a session in use nor come undone.
EvictionsRespectUse == AdmittedKeepsSession /\ EvictedStaysClosed

\* docs/reliability-contract.md:90: "A same-owner reset or trusted ownerless
\* administrative reset preserves an existing former owner; a foreign-owner reset
\* is denied."  Short of a restart, the owner of a live session stays.
ResetPreservesOwner ==
  [][\A s \in Sessions :
       /\ live[s] # Absent /\ live[s].owner # NoOwner
       /\ live'[s] # Absent /\ ~live'[s].restored
       => live'[s].owner = live[s].owner]_vars

=============================================================================
