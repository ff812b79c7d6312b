-------------------------- MODULE SessionStoreProofs --------------------------
(* Proofs about SessionStore, for any sessions, owners and requests.            *)
EXTENDS SessionStore, FiniteSetTheorems, TLAPS

\* The requests that have claimed the phase of their session.
Claims(r) == requests[r].kind \in Resets \/ (requests[r].kind = "evict" /\ requests[r].stage # "planned")

\* Which stages a request of each kind passes through, and what it is about.
Kinds ==
  \A r \in Requests :
    /\ requests[r].kind = "none" => requests[r] = NoRequest
    /\ requests[r].kind \in {"thought"} \cup Maintenance => requests[r].session \in Sessions
    /\ requests[r].kind = "thought" => requests[r].stage = "admitted"
    /\ requests[r].kind \in Resets => requests[r].stage \in {"claimed", "draining", "cleared", "replaced"}
    /\ requests[r].kind = "evict" => requests[r].stage \in {"planned", "claimed", "draining"}
    /\ requests[r].kind = "global" => /\ requests[r].session = NoSession
                                      /\ requests[r].stage \in {"claimed", "draining", "cleared"}

\* Every phase that is not open for everybody has one request behind it.
PhasesOwned ==
  /\ \A r \in Requests : requests[r].kind \in Resets => phase[requests[r].session] = "resetting"
  /\ \A r \in Requests : Claims(r) /\ requests[r].kind = "evict" => phase[requests[r].session] = "evicting"
  /\ \A r \in Requests : requests[r].kind = "global" => globalPhase = "resetting"
  /\ \A q, r \in Requests :
       Claims(q) /\ Claims(r) /\ requests[q].session = requests[r].session => q = r
  /\ \A q, r \in Requests : requests[q].kind = "global" /\ requests[r].kind = "global" => q = r

\* Whoever drains has waited for the admitted requests, and none has come since.
Waited ==
  /\ \A q, r \in Requests :
       Claims(r) /\ requests[r].stage # "claimed" /\ requests[q].kind = "thought" =>
         requests[q].session # requests[r].session
  /\ \A q, r \in Requests :
       requests[r].kind = "global" /\ requests[r].stage # "claimed" =>
         requests[q].kind # "thought" /\ ~Claims(q)

Exclusive == Kinds /\ PhasesOwned /\ Waited

\* The durable half of a reset of s is done and the live half is not.
Erased(s) ==
  \E r \in Requests : /\ requests[r].stage = "cleared"
                      /\ requests[r].session \in {s, NoSession}

\* What is known of s whatever its phase: whose data it holds, and that the live chain
\* is the stored one.
DataOf(s) ==
  /\ live[s] = Absent =>
       /\ history[s] = {}
       /\ Stored(s) \subseteq IF expired[s] = Unmarked THEN {} ELSE {expired[s], NoOwner}
  /\ live[s] # Absent /\ ~live[s].restored =>
       history[s] \cup Stored(s) \subseteq {live[s].owner, NoOwner}
  /\ \A a, b \in (history[s] \cup Stored(s)) \ {NoOwner} : a = b
  /\ live[s] # Absent /\ ~Erased(s) => history[s] = Stored(s)

\* A marked name is not live, or its reset has just replaced it.
Marked ==
  \A s \in Sessions : expired[s] # Unmarked =>
    \/ live[s] = Absent
    \/ \E r \in Requests : In(r, Resets, "replaced") /\ requests[r].session = s

\* What a reset r of s that has planned knows of s, and of the owner it preserves.
Keeps(r, s) ==
  /\ requests[r].stage # "claimed" /\ expired[s] # Unmarked =>
       requests[r].preserved = IF expired[s] = NoOwner THEN requests[r].owner ELSE expired[s]
  /\ requests[r].stage = "cleared" => queued[s] = {} /\ durable[s] = {}
  /\ requests[r].stage = "replaced" =>
       /\ queued[s] = {} /\ durable[s] = {}
       /\ live[s] # Absent /\ ~live[s].restored
       /\ expired[s] # Unmarked => live[s].owner = requests[r].preserved

ResetsKeep ==
  \A r \in Requests, s \in Sessions :
    requests[r].kind \in Resets /\ requests[r].session = s => Keeps(r, s)

GlobalKeeps ==
  \A r \in Requests : In(r, {"global"}, "cleared") =>
    \A s \in Sessions : queued[s] = {} /\ durable[s] = {}

\* The timer evicts nothing that was restored.
TimerSparesRestored ==
  \A r \in Requests, s \in Sessions :
    requests[r].kind = "evict" /\ requests[r].session = s => live[s] = Absent \/ ~live[s].restored

Chains ==
  /\ \A s \in Sessions : DataOf(s)
  /\ Marked /\ ResetsKeep /\ GlobalKeeps /\ TimerSparesRestored

\* Whose work remains of deleted chains, whatever the phase: a restored session, which
\* only the ownerless context may continue, has none but its own.
RemainsOf(s) ==
  /\ live[s] = Absent =>
       Remains(s) \subseteq IF expired[s] = Unmarked THEN {} ELSE {expired[s], NoOwner}
  /\ live[s] # Absent /\ ~live[s].restored => Remains(s) \subseteq {live[s].owner, NoOwner}
  /\ live[s] # Absent /\ live[s].restored => Remains(s) \cup queued[s] \subseteq {NoOwner}

\* The queue holds work of a deleted chain only until the session opens again.
LeftoverClosed(s) ==
  leftover[s] # {} => \/ phase[s] \in {"resetting", "reset_failed"}
                      \/ \E r \in Requests : In(r, {"global"}, "cleared")

\* What a reset that has planned may leave behind is of the owner it preserves; what it
\* has replaced leaves nothing in the queue.
Leaves(r, s) ==
  /\ requests[r].stage \in {"draining", "cleared"} =>
       Remains(s) \cup queued[s] \subseteq {requests[r].preserved, NoOwner}
  /\ requests[r].stage = "replaced" => leftover[s] = {}

ResetsLeave ==
  \A r \in Requests, s \in Sessions :
    requests[r].kind \in Resets /\ requests[r].session = s => Leaves(r, s)

\* A global reset leaves nothing behind: nobody tries its failed work again.
GlobalForgets ==
  \A r \in Requests : In(r, {"global"}, "cleared") =>
    \A s \in Sessions : late[s] = {} /\ revived[s] = {} /\ (leftover[s] = {} \/ s \in stuck)

Relics ==
  /\ \A s \in Sessions : RemainsOf(s) /\ LeftoverClosed(s)
  /\ ResetsLeave /\ GlobalForgets

IInv == Typed /\ Exclusive /\ Chains /\ Relics

-----------------------------------------------------------------------------
(* Requests and phases.                                                     *)

LEMMA NoRequestIsRequest ==
  /\ NoRequest \in Request
  /\ NoRequest.kind = "none" /\ NoRequest.session = NoSession /\ NoRequest.stage = "idle"
BY DEF NoRequest, Request, Writers

LEMMA Starts ==
  ASSUME Typed, NEW r \in Requests, NEW k \in {"thought", "global"} \cup Maintenance,
         NEW s \in Sessions \cup {NoSession}, NEW o \in Writers,
         NEW st \in {"planned", "admitted", "claimed"}, Started(r, k, s, o, st)
  PROVE  /\ requests[r] = NoRequest
         /\ requests' \in [Requests -> Request]
         /\ requests'[r].kind = k /\ requests'[r].session = s
         /\ requests'[r].owner = o /\ requests'[r].stage = st
         /\ \A q \in Requests \ {r} : requests'[q] = requests[q]
<1> DEFINE new == [kind |-> k, session |-> s, owner |-> o, stage |-> st, preserved |-> NoOwner]
<1>1. new \in Request
  BY DEF Request, Writers
<1>2. requests[r] = NoRequest /\ requests' = [requests EXCEPT ![r] = new]
  BY DEF Started
<1>3. new.kind = k /\ new.session = s /\ new.owner = o /\ new.stage = st
  OBVIOUS
<1> HIDE DEF new
<1> QED
  BY <1>1, <1>2, <1>3 DEF Typed

LEMMA Moves ==
  ASSUME Typed, NEW r \in Requests, Moved(r, "claimed") \/ Moved(r, "draining")
                                    \/ Moved(r, "cleared") \/ Moved(r, "replaced")
  PROVE  /\ requests' \in [Requests -> Request]
         /\ requests'[r].kind = requests[r].kind /\ requests'[r].session = requests[r].session
         /\ requests'[r].owner = requests[r].owner
         /\ requests'[r].preserved = requests[r].preserved
         /\ \A q \in Requests \ {r} : requests'[q] = requests[q]
         /\ Moved(r, "claimed") => requests'[r].stage = "claimed"
         /\ Moved(r, "draining") => requests'[r].stage = "draining"
         /\ Moved(r, "cleared") => requests'[r].stage = "cleared"
         /\ Moved(r, "replaced") => requests'[r].stage = "replaced"
<1>1. requests[r] \in Request
  BY DEF Typed
<1>2. ASSUME NEW st \in {"claimed", "draining", "cleared", "replaced"}, Moved(r, st)
      PROVE  /\ requests' \in [Requests -> Request]
             /\ requests'[r] = [requests[r] EXCEPT !.stage = st]
             /\ \A q \in Requests \ {r} : requests'[q] = requests[q]
  <2>1. [requests[r] EXCEPT !.stage = st] \in Request
    BY <1>1 DEF Request
  <2> QED
    BY <1>2, <2>1 DEF Moved, Typed
<1>3. ASSUME NEW st \in {"claimed", "draining", "cleared", "replaced"}, Moved(r, st)
      PROVE  /\ requests'[r].kind = requests[r].kind /\ requests'[r].session = requests[r].session
             /\ requests'[r].owner = requests[r].owner
             /\ requests'[r].preserved = requests[r].preserved
             /\ requests'[r].stage = st
  BY <1>1, <1>2, <1>3 DEF Request
<1> QED
  BY <1>2, <1>3

LEMMA Ends ==
  ASSUME Typed, NEW r \in Requests, Ended(r)
  PROVE  /\ requests' \in [Requests -> Request]
         /\ requests'[r] = NoRequest /\ requests'[r].kind = "none"
         /\ requests'[r].session = NoSession /\ requests'[r].stage = "idle"
         /\ \A q \in Requests \ {r} : requests'[q] = requests[q]
BY NoRequestIsRequest DEF Ended, Typed

\* The reset that has just been planned.
LEMMA Plans ==
  ASSUME Typed, NEW r \in Requests, NEW p \in Writers,
         requests' = [requests EXCEPT ![r].stage = "draining", ![r].preserved = p]
  PROVE  /\ requests' \in [Requests -> Request]
         /\ requests'[r].kind = requests[r].kind /\ requests'[r].session = requests[r].session
         /\ requests'[r].owner = requests[r].owner
         /\ requests'[r].preserved = p /\ requests'[r].stage = "draining"
         /\ \A q \in Requests \ {r} : requests'[q] = requests[q]
<1> DEFINE new == [requests[r] EXCEPT !.stage = "draining", !.preserved = p]
<1>1. requests[r] \in Request
  BY DEF Typed
<1>2. /\ new \in Request
      /\ new.kind = requests[r].kind /\ new.session = requests[r].session
      /\ new.owner = requests[r].owner /\ new.preserved = p /\ new.stage = "draining"
  BY <1>1 DEF Request
<1>3. requests' = [requests EXCEPT ![r] = new]
  OBVIOUS
<1> HIDE DEF new
<1> QED
  BY <1>2, <1>3 DEF Typed

\* A phase that is open or failed belongs to no request.
LEMMA FreePhase ==
  ASSUME Exclusive, NEW s \in Sessions, phase[s] \in {"open", "reset_failed", "eviction_failed"},
         NEW r \in Requests, Claims(r)
  PROVE  requests[r].session # s
BY DEF Exclusive, PhasesOwned, Claims

\* A new request.
LEMMA BeginExclusive ==
  ASSUME Typed, Exclusive, NEW r \in Requests, Begin(r)
  PROVE  Exclusive' /\ requests' \in [Requests -> Request]
<1> USE DEF Resets, Maintenance
<1>1. NoOwner \in Writers
  BY DEF Writers
<1>2. ASSUME NEW s \in Sessions, NEW o \in Writers, BeginThought(r, s, o)
      PROVE  Exclusive' /\ requests' \in [Requests -> Request]
  <2>1. /\ requests[r] = NoRequest /\ requests' \in [Requests -> Request]
        /\ requests'[r].kind = "thought" /\ requests'[r].session = s
        /\ requests'[r].stage = "admitted"
        /\ \A q \in Requests \ {r} : requests'[q] = requests[q]
        /\ phase[s] = "open" /\ globalPhase = "open"
        /\ phase' = phase /\ globalPhase' = globalPhase
    BY <1>2, Starts DEF BeginThought
  <2>2. \A q \in Requests : Claims(q)' <=> Claims(q)
    BY <2>1, NoRequestIsRequest DEF Claims
  <2>3. \A q \in Requests : Claims(q) => requests[q].session # s
    BY <2>1, FreePhase
  <2>4. Kinds'
    BY <2>1 DEF Exclusive, Kinds
  <2>5. PhasesOwned'
    BY <2>1, <2>2, NoRequestIsRequest DEF Exclusive, PhasesOwned, Claims
  <2>6. Waited'
    BY <2>1, <2>2, <2>3 DEF Exclusive, Waited, PhasesOwned, Claims
  <2> QED
    BY <2>1, <2>4, <2>5, <2>6 DEF Exclusive
<1>3. ASSUME NEW s \in Sessions, NEW o \in Writers, NEW k \in Resets, BeginReset(r, s, o, k)
      PROVE  Exclusive' /\ requests' \in [Requests -> Request]
  <2>1. /\ requests[r] = NoRequest /\ requests' \in [Requests -> Request]
        /\ requests'[r].kind = k /\ requests'[r].session = s
        /\ requests'[r].stage = "claimed"
        /\ \A q \in Requests \ {r} : requests'[q] = requests[q]
        /\ phase[s] \in {"open", "reset_failed"} /\ globalPhase = "open"
        /\ globalPhase' = globalPhase
    BY <1>3, Starts DEF BeginReset
  <2>2. phase'[s] = "resetting" /\ \A t \in Sessions \ {s} : phase'[t] = phase[t]
    BY <1>3 DEF BeginReset, Typed
  <2>3. \A q \in Requests : Claims(q) => requests[q].session # s /\ requests[q].session \in Sessions
    BY <2>1, FreePhase DEF Exclusive, Kinds, Claims
  <2>4. Kinds'
    BY <2>1 DEF Exclusive, Kinds
  <2>5. PhasesOwned'
    BY <2>1, <2>2, <2>3, NoRequestIsRequest DEF Exclusive, PhasesOwned, Claims
  <2>6. Waited'
    BY <2>1, <2>3, NoRequestIsRequest DEF Exclusive, Waited, PhasesOwned, Claims
  <2> QED
    BY <2>1, <2>4, <2>5, <2>6 DEF Exclusive
<1>4. ASSUME NEW s \in Sessions, PlanEviction(r, s)
      PROVE  Exclusive' /\ requests' \in [Requests -> Request]
  <2>1. /\ requests[r] = NoRequest /\ requests' \in [Requests -> Request]
        /\ requests'[r].kind = "evict" /\ requests'[r].session = s
        /\ requests'[r].stage = "planned"
        /\ \A q \in Requests \ {r} : requests'[q] = requests[q]
        /\ phase' = phase /\ globalPhase' = globalPhase
    BY <1>1, <1>4, Starts DEF PlanEviction
  <2>2. \A q \in Requests : Claims(q)' <=> Claims(q)
    BY <2>1, NoRequestIsRequest DEF Claims
  <2>3. Kinds' /\ PhasesOwned' /\ Waited'
    BY <2>1, <2>2, NoRequestIsRequest DEF Exclusive, Kinds, PhasesOwned, Waited, Claims
  <2> QED
    BY <2>1, <2>3 DEF Exclusive
<1>5. ASSUME BeginGlobalReset(r)
      PROVE  Exclusive' /\ requests' \in [Requests -> Request]
  <2>1. /\ requests[r] = NoRequest /\ requests' \in [Requests -> Request]
        /\ requests'[r].kind = "global" /\ requests'[r].session = NoSession
        /\ requests'[r].stage = "claimed"
        /\ \A q \in Requests \ {r} : requests'[q] = requests[q]
        /\ globalPhase # "resetting" /\ phase' = phase /\ globalPhase' = "resetting"
    BY <1>1, <1>5, Starts DEF BeginGlobalReset
  <2>2. \A q \in Requests : Claims(q)' <=> Claims(q)
    BY <2>1, NoRequestIsRequest DEF Claims
  <2>3. Kinds' /\ PhasesOwned' /\ Waited'
    BY <2>1, <2>2, NoRequestIsRequest DEF Exclusive, Kinds, PhasesOwned, Waited, Claims
  <2> QED
    BY <2>1, <2>3 DEF Exclusive
<1> QED
  BY <1>2, <1>3, <1>4, <1>5 DEF Begin

\* A request that ends leaves the phases of the others.
LEMMA EndExclusive ==
  ASSUME Typed, Exclusive, NEW r \in Requests, Ended(r),
         \A q \in Requests \ {r} : Claims(q) => phase'[requests[q].session] = phase[requests[q].session],
         \A q \in Requests \ {r} : requests[q].kind = "global" => globalPhase' = globalPhase
  PROVE  Exclusive' /\ requests' \in [Requests -> Request]
<1> USE DEF Resets, Maintenance
<1>1. /\ requests' \in [Requests -> Request]
      /\ requests'[r] = NoRequest /\ requests'[r].kind = "none"
      /\ requests'[r].session = NoSession /\ requests'[r].stage = "idle"
      /\ \A q \in Requests \ {r} : requests'[q] = requests[q]
  BY Ends
<1>2. /\ ~Claims(r)'
      /\ \A q \in Requests \ {r} : Claims(q)' <=> Claims(q)
  BY <1>1 DEF Claims
<1>3. Kinds'
  BY <1>1 DEF Exclusive, Kinds
<1>4. PhasesOwned'
  BY <1>1, <1>2 DEF Exclusive, PhasesOwned, Claims
<1>5. Waited'
  BY <1>1, <1>2 DEF Exclusive, Waited, Claims
<1> QED
  BY <1>1, <1>3, <1>4, <1>5 DEF Exclusive

\* A request that goes on to its next stage, having waited when it leaves "claimed".
LEMMA MoveExclusive ==
  ASSUME Typed, Exclusive, NEW r \in Requests, UNCHANGED <<phase, globalPhase>>,
         requests' \in [Requests -> Request],
         requests'[r].kind = requests[r].kind, requests'[r].session = requests[r].session,
         \A q \in Requests \ {r} : requests'[q] = requests[q],
         Claims(r) \/ requests[r].kind = "global",
         \/ requests'[r].stage = "draining"
         \/ requests'[r].stage = "cleared" /\ requests[r].kind # "evict"
         \/ requests'[r].stage = "replaced" /\ requests[r].kind \in Resets,
         requests[r].stage = "claimed" =>
           \A q \in Requests : requests[q].kind = "thought" =>
             requests[q].session # requests[r].session /\ requests[r].kind # "global",
         requests[r].stage = "claimed" /\ requests[r].kind = "global" => \A q \in Requests : ~Claims(q)
  PROVE  Exclusive'
<1> USE DEF Resets, Maintenance
<1>1. \A q \in Requests : Claims(q)' <=> Claims(q)
  BY DEF Claims
<1>2. Kinds'
  BY DEF Exclusive, Kinds, Claims
<1>3. PhasesOwned'
  BY <1>1 DEF Exclusive, PhasesOwned, Claims
<1>4. Waited'
  BY <1>1 DEF Exclusive, Waited, Claims
<1> QED
  BY <1>2, <1>3, <1>4 DEF Exclusive

\* The steps of a request, as far as requests and phases are concerned.
LEMMA ProceedExclusive ==
  ASSUME Typed, Exclusive, NEW r \in Requests, Proceed(r)
  PROVE  Exclusive' /\ requests' \in [Requests -> Request]
<1> USE DEF Resets, Maintenance
<1> DEFINE s == requests[r].session
<1>1. Claims(r) =>
        /\ s \in Sessions
        /\ \A q \in Requests \ {r} : Claims(q) => requests[q].session # s /\ requests[q].session \in Sessions
  BY DEF Exclusive, PhasesOwned, Kinds, Claims
<1>2. requests[r].kind = "global" => \A q \in Requests \ {r} : requests[q].kind # "global"
  BY DEF Exclusive, PhasesOwned
<1>3. ASSUME NEW t \in Sessions, Admitted(t) = {}, NEW q \in Requests, requests[q].kind = "thought"
      PROVE  requests[q].session # t
  BY <1>3 DEF Exclusive, Kinds, Admitted, In
<1>4. CASE CommitThought(r) \/ RejectThought(r)
  BY <1>4, EndExclusive DEF CommitThought, RejectThought
<1>5. CASE FinishReset(r) \/ FailReset(r) \/ Evict(r) \/ FailEviction(r)
  <2>1. /\ Claims(r) /\ Ended(r) /\ globalPhase' = globalPhase
        /\ \E ph : phase' = [phase EXCEPT ![s] = ph]
    BY <1>5 DEF FinishReset, FailReset, Evict, FailEviction, Claims, In
  <2>2. \A t \in Sessions : t # s => phase'[t] = phase[t]
    BY <2>1 DEF Typed
  <2> QED
    BY <1>1, <2>1, <2>2, EndExclusive
<1>6. CASE FailGlobalReset(r)
  BY <1>2, <1>6, EndExclusive DEF FailGlobalReset, In
<1>7. CASE FinishGlobalReset(r)
  <2>1. Ended(r) /\ In(r, {"global"}, "cleared")
    BY <1>7 DEF FinishGlobalReset
  <2>2. \A q \in Requests : ~Claims(q)
    BY <2>1 DEF Exclusive, Waited, In
  <2> QED
    BY <1>2, <2>1, <2>2, EndExclusive DEF In
<1>8. CASE ClaimEviction(r)
  <2>1. CASE phase[s] = "open" /\ globalPhase = "open"
    <3>1. /\ requests[r].kind = "evict" /\ requests[r].stage = "planned" /\ s \in Sessions
          /\ phase' = [phase EXCEPT ![s] = "evicting"] /\ globalPhase' = globalPhase
          /\ Moved(r, "claimed")
      BY <1>8, <2>1 DEF ClaimEviction, In, Exclusive, Kinds
    <3>2. phase'[s] = "evicting" /\ \A t \in Sessions : t # s => phase'[t] = phase[t]
      BY <3>1 DEF Typed
    <3>3. /\ requests' \in [Requests -> Request]
          /\ requests'[r].kind = "evict" /\ requests'[r].session = s
          /\ requests'[r].stage = "claimed"
          /\ \A q \in Requests \ {r} : requests'[q] = requests[q]
      BY <3>1, Moves
    <3>4. \A q \in Requests : Claims(q) => requests[q].session # s /\ requests[q].session \in Sessions
      BY <2>1, <3>1, FreePhase DEF Exclusive, Kinds, Claims
    <3>5. Claims(r)' /\ ~Claims(r) /\ \A q \in Requests \ {r} : Claims(q)' <=> Claims(q)
      BY <3>1, <3>3 DEF Claims
    <3>6. \A q \in Requests : requests[q].kind # "global"
      BY <2>1 DEF Exclusive, PhasesOwned
    <3>7. Kinds'
      BY <3>1, <3>3 DEF Exclusive, Kinds
    <3>8. PhasesOwned'
      BY <3>1, <3>2, <3>3, <3>4, <3>5, <3>6 DEF Exclusive, PhasesOwned, Claims
    <3>9. Waited'
      BY <3>3, <3>5, <3>6 DEF Exclusive, Waited, Claims
    <3> QED
      BY <3>3, <3>7, <3>8, <3>9 DEF Exclusive
  <2>2. CASE ~(phase[s] = "open" /\ globalPhase = "open")
    BY <1>8, <2>2, EndExclusive DEF ClaimEviction
  <2> QED
    BY <2>1, <2>2
<1>9. CASE PlanReset(r)
  <2>1. /\ requests[r].kind \in Resets /\ requests[r].stage = "claimed" /\ Admitted(s) = {}
        /\ requests' = [requests EXCEPT ![r].stage = "draining",
                                        ![r].preserved = Preserved(s, requests[r].owner)]
        /\ UNCHANGED <<phase, globalPhase>>
    BY <1>9 DEF PlanReset, In
  <2>2. Preserved(s, requests[r].owner) \in Writers
    <3>1. s \in Sessions /\ requests[r].owner \in Writers /\ NoOwner \in Writers
      BY <1>1, <2>1 DEF Claims, Typed, Request, Writers
    <3>2. live[s] # Absent => live[s].owner \in Writers
      BY <3>1 DEF Typed, Session
    <3>3. expired[s] # Unmarked => expired[s] \in Writers
      BY <3>1 DEF Typed
    <3> QED
      BY <3>1, <3>2, <3>3 DEF Preserved, FormerOwner
  <2>3. /\ requests' \in [Requests -> Request]
        /\ requests'[r].kind = requests[r].kind /\ requests'[r].session = s
        /\ requests'[r].stage = "draining"
        /\ \A q \in Requests \ {r} : requests'[q] = requests[q]
    BY <2>1, <2>2, Plans
  <2> QED
    BY <1>1, <1>3, <2>1, <2>3, MoveExclusive DEF Claims
<1>10. CASE ClearDurable(r) \/ Replace(r)
  <2>1. /\ requests[r].kind \in Resets /\ requests[r].stage \in {"draining", "cleared"}
        /\ UNCHANGED <<phase, globalPhase>>
        /\ \/ Moved(r, "cleared")
           \/ Moved(r, "replaced")
    BY <1>10 DEF ClearDurable, Replace, In
  <2> QED
    BY <2>1, Moves, MoveExclusive DEF Claims
<1>11. CASE DrainEviction(r)
  <2>1. /\ requests[r].kind = "evict" /\ requests[r].stage = "claimed" /\ Admitted(s) = {}
        /\ UNCHANGED <<phase, globalPhase>> /\ Moved(r, "draining")
    BY <1>11 DEF DrainEviction, In
  <2> QED
    BY <1>1, <1>3, <2>1, Moves, MoveExclusive DEF Claims
<1>12. CASE DrainAll(r)
  <2>1. /\ requests[r].kind = "global" /\ requests[r].stage = "claimed"
        /\ Maintained = {} /\ \A t \in Sessions : Admitted(t) = {}
        /\ UNCHANGED <<phase, globalPhase>> /\ Moved(r, "draining")
    BY <1>12 DEF DrainAll, In
  <2>2. \A q \in Requests : ~Claims(q)
    BY <2>1 DEF Maintained, Claims, Exclusive, Kinds
  <2>3. \A q \in Requests : requests[q].kind # "thought"
    BY <1>3, <2>1 DEF Exclusive, Kinds
  <2> QED
    BY <2>1, <2>2, <2>3, Moves, MoveExclusive
<1>13. CASE ClearAllDurable(r)
  <2>1. /\ requests[r].kind = "global" /\ requests[r].stage = "draining"
        /\ UNCHANGED <<phase, globalPhase>> /\ Moved(r, "cleared")
    BY <1>13 DEF ClearAllDurable, In
  <2> QED
    BY <2>1, Moves, MoveExclusive
<1> QED
  BY <1>4, <1>5, <1>6, <1>7, <1>8, <1>9, <1>10, <1>11, <1>12, <1>13 DEF Proceed

LEMMA ExclusiveStep ==
  ASSUME Typed, Exclusive, [Next]_vars
  PROVE  Exclusive' /\ requests' \in [Requests -> Request]
<1>1. ASSUME UNCHANGED <<phase, globalPhase, requests>>
      PROVE  Exclusive' /\ requests' \in [Requests -> Request]
  BY <1>1 DEF Exclusive, Kinds, PhasesOwned, Waited, Claims, Typed
<1>2. CASE Restart
  <2>1. requests' = [q \in Requests |-> NoRequest]
    BY <1>2 DEF Restart
  <2>2. \A q \in Requests : requests'[q] = NoRequest /\ requests'[q].kind = "none"
                            /\ requests'[q].stage = "idle"
    BY <2>1, NoRequestIsRequest
  <2> QED
    BY <2>1, <2>2, NoRequestIsRequest
    DEF Exclusive, Kinds, PhasesOwned, Waited, Claims, Resets, Maintenance
<1>3. CASE \E s \in Sessions : Persist(s) \/ Rearm(s) \/ \E o \in Writers : Read(s, o)
  BY <1>1, <1>3 DEF Persist, Flush, FlushFails, LateSave, Rearm, Read
<1>4. CASE UNCHANGED vars
  BY <1>1, <1>4 DEF vars
<1> QED
  BY <1>2, <1>3, <1>4, BeginExclusive, ProceedExclusive DEF Next

-----------------------------------------------------------------------------
(* Live state.                                                              *)

\* What Becomes makes of each session, recency aside.
LEMMA BecomesEffect ==
  ASSUME Typed, NEW s \in Sessions, NEW V \in SUBSET Sessions, NEW E \in Session,
         NEW W \in SUBSET Writers, Becomes(s, V, E, W)
  PROVE  /\ live' \in [Sessions -> Session \cup {Absent}]
         /\ history' \in [Sessions -> SUBSET Writers]
         /\ live'[s] = E /\ history'[s] = W
         /\ \A t \in V \ {s} : live'[t] = Absent /\ history'[t] = {}
         /\ \A t \in Sessions \ (V \cup {s}) : live'[t] = live[t] /\ history'[t] = history[t]
<1>1. /\ live' = [t \in Sessions |-> IF t = s THEN E ELSE IF t \in V THEN Absent ELSE live[t]]
      /\ history' = [t \in Sessions |-> IF t = s THEN W ELSE IF t \in V THEN {} ELSE history[t]]
  BY DEF Becomes
<1>2. live' \in [Sessions -> Session \cup {Absent}]
  BY <1>1 DEF Typed
<1>3. history' \in [Sessions -> SUBSET Writers]
  BY <1>1 DEF Typed
<1> QED
  BY <1>1, <1>2, <1>3

LEMMA MarkersEffect ==
  ASSUME Typed, NEW V \in SUBSET Sessions, expired' = MarkersAfter(V)
  PROVE  /\ expired' \in [Sessions -> Writers \cup {Unmarked}]
         /\ \A t \in V : live[t] # Absent => expired'[t] = live[t].owner
         /\ \A t \in Sessions : t \notin V \/ live[t] = Absent => expired'[t] = expired[t]
<1>1. \A t \in Sessions : live[t] # Absent => live[t].owner \in Writers
  BY DEF Typed, Session
<1>2. expired' = [t \in Sessions |-> IF t \in V /\ live[t] # Absent THEN live[t].owner ELSE expired[t]]
  BY DEF MarkersAfter
<1> QED
  BY <1>1, <1>2 DEF Typed

\* Only an idle session that counts is evicted for capacity.
LEMMA VictimsEligible ==
  ASSUME NEW o
  PROVE  \A t \in Victims(o) : /\ t \in Sessions /\ live[t] # Absent /\ ~live[t].restored
                               /\ phase[t] = "open" /\ Admitted(t) = {}
<1>1. ASSUME NEW S, NEW n
      PROVE  Oldest(S, n) \subseteq S
  BY DEF Oldest
<1>2. OwnerVictims(o) \subseteq EligibleOf(o)
  BY <1>1 DEF OwnerVictims
<1>3. Oldest(Alternatives(o), RemainingNeed(o)) \subseteq Alternatives(o)
  BY <1>1
<1>4. Victims(o) \subseteq {t \in Counted : Eligible(t)}
  BY <1>2, <1>3 DEF Victims, EligibleOf, Alternatives, CountedOf
<1> QED
  BY <1>4 DEF Counted, Eligible, Idle

LEMMA NewSessions ==
  /\ \A o \in Writers : Fresh(o) \in Session /\ Fresh(o).owner = o /\ Fresh(o).restored = FALSE
  /\ Absent \notin Session /\ Unmarked \notin Writers /\ NoOwner \in Writers
BY ConstantsAssumption, AbsentAssumption DEF Fresh, Session, Writers

\* The first owner binds an ownerless session; nobody binds a restored one.
LEMMA BoundFacts ==
  ASSUME Typed, NEW s \in Sessions, NEW o \in Writers, live[s] # Absent
  PROVE  /\ Bound(s, o) \in Session
         /\ Bound(s, o).restored = live[s].restored
         /\ Bound(s, o).owner = IF live[s].owner = NoOwner /\ ~live[s].restored THEN o
                                ELSE live[s].owner
<1>1. live[s] \in Session
  BY DEF Typed
<1>2. DEFINE new == [live[s] EXCEPT !.owner = o]
<1>3. new \in Session /\ new.owner = o /\ new.restored = live[s].restored
  BY <1>1 DEF Session
<1>4. CASE live[s].owner = NoOwner /\ ~live[s].restored
  BY <1>3, <1>4 DEF Bound
<1>5. CASE ~(live[s].owner = NoOwner /\ ~live[s].restored)
  BY <1>1, <1>5 DEF Bound
<1> QED
  BY <1>4, <1>5

\* An authorised access: what it makes of the session, and of the evicted ones.
LEMMA AccessEffect ==
  ASSUME Typed, NEW s \in Sessions, NEW o \in Writers, NEW W \in SUBSET Writers,
         Authorized(s, o), Access(s, o, W)
  PROVE  /\ live' \in [Sessions -> Session \cup {Absent}]
         /\ history' \in [Sessions -> SUBSET Writers]
         /\ expired' \in [Sessions -> Writers \cup {Unmarked}]
         /\ live'[s] # Absent /\ expired'[s] = Unmarked /\ expired[s] = Unmarked
         /\ live[s] = Absent => live'[s] = Fresh(o) /\ history'[s] = W
         /\ live[s] # Absent => live'[s] = Bound(s, o) /\ history'[s] = history[s] \cup W
         /\ \A t \in Sessions \ {s} :
              \/ live'[t] = live[t] /\ history'[t] = history[t] /\ expired'[t] = expired[t]
              \/ /\ live[t] # Absent /\ ~live[t].restored /\ phase[t] = "open" /\ Admitted(t) = {}
                 /\ live'[t] = Absent /\ history'[t] = {} /\ expired'[t] = live[t].owner
<1>1. expired[s] = Unmarked
  BY DEF Authorized
<1>2. CASE live[s] # Absent
  <2>1. Becomes(s, {}, Bound(s, o), history[s] \cup W) /\ expired' = expired
    BY <1>2 DEF Access
  <2>2. Bound(s, o) \in Session /\ history[s] \cup W \in SUBSET Writers
    BY <1>2, BoundFacts DEF Typed
  <2> DEFINE E == Bound(s, o)
             H == history[s] \cup W
             V == {}
  <2>3. E \in Session /\ H \in SUBSET Writers /\ V \in SUBSET Sessions /\ Becomes(s, V, E, H)
    BY <2>1, <2>2
  <2> HIDE DEF E, H, V
  <2>4. /\ live' \in [Sessions -> Session \cup {Absent}]
        /\ history' \in [Sessions -> SUBSET Writers]
        /\ live'[s] = E /\ history'[s] = H
        /\ \A t \in Sessions \ (V \cup {s}) : live'[t] = live[t] /\ history'[t] = history[t]
    BY <2>3, BecomesEffect
  <2> USE DEF E, H, V
  <2> QED
    BY <1>1, <1>2, <2>1, <2>2, <2>4, NewSessions DEF Typed
<1>3. CASE live[s] = Absent
  <2>1. Becomes(s, Victims(o), Fresh(o), W) /\ expired' = MarkersAfter(Victims(o))
    BY <1>3 DEF Access
  <2>2. Victims(o) \in SUBSET Sessions /\ s \notin Victims(o) /\ Fresh(o) \in Session
    BY <1>3, VictimsEligible, NewSessions
  <2>3. /\ live' \in [Sessions -> Session \cup {Absent}]
        /\ history' \in [Sessions -> SUBSET Writers]
        /\ live'[s] = Fresh(o) /\ history'[s] = W
        /\ \A t \in Victims(o) \ {s} : live'[t] = Absent /\ history'[t] = {}
        /\ \A t \in Sessions \ (Victims(o) \cup {s}) : live'[t] = live[t] /\ history'[t] = history[t]
    BY <2>1, <2>2, BecomesEffect
  <2>4. /\ expired' \in [Sessions -> Writers \cup {Unmarked}]
        /\ \A t \in Victims(o) : live[t] # Absent => expired'[t] = live[t].owner
        /\ \A t \in Sessions : t \notin Victims(o) => expired'[t] = expired[t]
    BY <2>1, <2>2, MarkersEffect
  <2>5. live'[s] # Absent
    BY <2>2, <2>3, NewSessions
  <2> QED
    BY <1>1, <1>3, <2>2, <2>3, <2>4, <2>5, VictimsEligible
<1> QED
  BY <1>2, <1>3

\* The live half of a reset.
LEMMA ReplaceEffect ==
  ASSUME Typed, Exclusive, NEW r \in Requests, NEW s, s = requests[r].session, Replace(r)
  PROVE  /\ s \in Sessions /\ requests[r].kind \in Resets /\ requests[r].stage = "cleared"
         /\ live' \in [Sessions -> Session \cup {Absent}]
         /\ history' \in [Sessions -> SUBSET Writers]
         /\ expired' \in [Sessions -> Writers \cup {Unmarked}]
         /\ queued' \in [Sessions -> SUBSET Writers] /\ stuck' \in SUBSET Sessions
         /\ leftover' \in [Sessions -> SUBSET Writers] /\ late' \in [Sessions -> SUBSET Writers]
         /\ leftover'[s] = {} /\ late'[s] \subseteq late[s] \cup leftover[s]
         /\ live'[s] = Fresh(requests[r].preserved) /\ history'[s] = {}
         /\ expired'[s] = expired[s] /\ queued'[s] = {}
         /\ \A t \in Sessions \ {s} :
              /\ queued'[t] = queued[t] /\ leftover'[t] = leftover[t] /\ late'[t] = late[t]
              /\ \/ live'[t] = live[t] /\ history'[t] = history[t] /\ expired'[t] = expired[t]
                 \/ /\ live[t] # Absent /\ ~live[t].restored /\ phase[t] = "open" /\ Admitted(t) = {}
                    /\ live'[t] = Absent /\ history'[t] = {} /\ expired'[t] = live[t].owner
<1> DEFINE o == requests[r].preserved
           E == Fresh(o)
           W == {}
           V == IF live[s] = Absent THEN Victims(o) ELSE {}
<1>1. /\ requests[r].kind \in Resets /\ requests[r].stage = "cleared"
      /\ Becomes(s, V, E, W)
      /\ expired' = MarkersAfter(V)
      /\ DiscardWork(s)
  BY DEF Replace, In
<1>2. s \in Sessions /\ o \in Writers /\ requests[r] \in Request
  BY <1>1 DEF Exclusive, Kinds, Maintenance, Typed, Request
<1>3. E \in Session
  BY <1>2, NewSessions
<1>4. V \in SUBSET Sessions /\ s \notin V
  BY VictimsEligible
<1>5. \A t \in V : live[t] # Absent /\ ~live[t].restored /\ phase[t] = "open" /\ Admitted(t) = {}
  BY VictimsEligible
<1>6. W \in SUBSET Writers
  OBVIOUS
<1> HIDE DEF E, V, W
<1>7. /\ live' \in [Sessions -> Session \cup {Absent}]
      /\ history' \in [Sessions -> SUBSET Writers]
      /\ live'[s] = E /\ history'[s] = W
      /\ \A t \in V \ {s} : live'[t] = Absent /\ history'[t] = {}
      /\ \A t \in Sessions \ (V \cup {s}) : live'[t] = live[t] /\ history'[t] = history[t]
  <2>1. Typed /\ s \in Sessions /\ Becomes(s, V, E, W)
    BY <1>1, <1>2
  <2>2. E \in Session /\ V \in SUBSET Sessions /\ W \in SUBSET Writers
    BY <1>3, <1>4, <1>6
  <2> QED
    BY <2>1, <2>2, BecomesEffect
<1>8. /\ expired' \in [Sessions -> Writers \cup {Unmarked}]
      /\ \A t \in V : live[t] # Absent => expired'[t] = live[t].owner
      /\ \A t \in Sessions : t \notin V => expired'[t] = expired[t]
  BY <1>1, <1>4, MarkersEffect
<1>9. /\ queued' \in [Sessions -> SUBSET Writers] /\ stuck' \in SUBSET Sessions
      /\ leftover' \in [Sessions -> SUBSET Writers] /\ late' \in [Sessions -> SUBSET Writers]
      /\ queued'[s] = {} /\ leftover'[s] = {} /\ late'[s] \subseteq late[s] \cup leftover[s]
      /\ \A t \in Sessions \ {s} :
           queued'[t] = queued[t] /\ leftover'[t] = leftover[t] /\ late'[t] = late[t]
  <2>1. /\ queued' = [queued EXCEPT ![s] = {}] /\ leftover' = [leftover EXCEPT ![s] = {}]
        /\ stuck' = stuck \ {s}
        /\ late' = late \/ \E w \in leftover[s] : late' = [late EXCEPT ![s] = {w}]
    BY <1>1 DEF DiscardWork
  <2>2. CASE late' = late
    BY <1>2, <2>1, <2>2 DEF Typed
  <2>3. ASSUME NEW w \in leftover[s], late' = [late EXCEPT ![s] = {w}]
        PROVE  /\ late' \in [Sessions -> SUBSET Writers] /\ late'[s] = {w}
               /\ \A t \in Sessions \ {s} : late'[t] = late[t]
    BY <1>2, <2>3 DEF Typed
  <2> QED
    BY <1>2, <2>1, <2>2, <2>3 DEF Typed
<1>10. live'[s] = Fresh(requests[r].preserved) /\ history'[s] = {}
  BY <1>7 DEF E, W
<1>11. \A t \in Sessions \ {s} :
         \/ live'[t] = live[t] /\ history'[t] = history[t] /\ expired'[t] = expired[t]
         \/ /\ live[t] # Absent /\ ~live[t].restored /\ phase[t] = "open" /\ Admitted(t) = {}
            /\ live'[t] = Absent /\ history'[t] = {} /\ expired'[t] = live[t].owner
  BY <1>4, <1>5, <1>7, <1>8
<1> QED
  BY <1>1, <1>2, <1>4, <1>7, <1>8, <1>9, <1>10, <1>11

\* The end of a reset, with the first thought of a replacement.
LEMMA FinishEffect ==
  ASSUME Typed, Exclusive, Chains, NEW r \in Requests, NEW s, s = requests[r].session,
         NEW o, o = requests[r].owner, FinishReset(r)
  PROVE  /\ s \in Sessions /\ o \in Writers
         /\ requests[r].kind \in Resets /\ requests[r].stage = "replaced"
         /\ live[s] # Absent
         /\ live' \in [Sessions -> Session \cup {Absent}]
         /\ history' \in [Sessions -> SUBSET Writers]
         /\ expired' \in [Sessions -> Writers \cup {Unmarked}]
         /\ queued' \in [Sessions -> SUBSET Writers]
         /\ expired'[s] = Unmarked
         /\ \/ live'[s] = live[s] /\ history'[s] = history[s] /\ queued'[s] = queued[s]
            \/ /\ ResetAuthorized(s, o)
               /\ live'[s] = Bound(s, o) /\ history'[s] = {o} /\ queued'[s] = {o}
         /\ \A t \in Sessions \ {s} : /\ live'[t] = live[t] /\ history'[t] = history[t]
                                      /\ expired'[t] = expired[t] /\ queued'[t] = queued[t]
<1>1. /\ requests[r].kind \in Resets /\ requests[r].stage = "replaced"
      /\ expired' = [expired EXCEPT ![s] = Unmarked]
  BY DEF FinishReset, In
<1>2. s \in Sessions /\ o \in Writers
  BY <1>1 DEF Exclusive, Kinds, Maintenance, Typed, Request
<1>3. live[s] # Absent
  BY <1>1, <1>2 DEF Chains, ResetsKeep, Keeps
<1>4. /\ expired' \in [Sessions -> Writers \cup {Unmarked}] /\ expired'[s] = Unmarked
      /\ \A t \in Sessions \ {s} : expired'[t] = expired[t]
  BY <1>1, <1>2 DEF Typed
<1>5. CASE requests[r].kind = "replace"
  <2> DEFINE E == Bound(s, o)
             V == {}
             W == {o}
  <2>1. /\ ResetAuthorized(s, o) /\ Becomes(s, V, E, W)
        /\ queued' = [queued EXCEPT ![s] = {o}]
    BY <1>5 DEF FinishReset
  <2>2. E \in Session /\ V \in SUBSET Sessions /\ W \in SUBSET Writers
    BY <1>2, <1>3, BoundFacts
  <2>3. /\ queued' \in [Sessions -> SUBSET Writers] /\ queued'[s] = {o}
        /\ \A t \in Sessions \ {s} : queued'[t] = queued[t]
    BY <1>2, <2>1 DEF Typed
  <2> HIDE DEF E, V, W
  <2>4. /\ live' \in [Sessions -> Session \cup {Absent}]
        /\ history' \in [Sessions -> SUBSET Writers]
        /\ live'[s] = E /\ history'[s] = W
        /\ \A t \in Sessions \ (V \cup {s}) : live'[t] = live[t] /\ history'[t] = history[t]
    <3>1. Typed /\ s \in Sessions /\ Becomes(s, V, E, W)
      BY <1>2, <2>1
    <3> QED
      BY <2>2, <3>1, BecomesEffect
  <2> USE DEF E, V, W
  <2> QED
    BY <1>1, <1>2, <1>3, <1>4, <2>1, <2>3, <2>4
<1>6. CASE requests[r].kind # "replace"
  <2>1. UNCHANGED <<live, history, queued>>
    BY <1>6 DEF FinishReset
  <2> QED
    BY <1>1, <1>2, <1>3, <1>4, <2>1 DEF Typed
<1> QED
  BY <1>5, <1>6

\* The end of a TTL eviction.
LEMMA EvictEffect ==
  ASSUME Typed, Exclusive, NEW r \in Requests, NEW s, s = requests[r].session, Evict(r)
  PROVE  /\ s \in Sessions /\ requests[r].kind = "evict" /\ requests[r].stage = "draining"
         /\ live' \in [Sessions -> Session \cup {Absent}]
         /\ history' \in [Sessions -> SUBSET Writers]
         /\ expired' \in [Sessions -> Writers \cup {Unmarked}]
         /\ live'[s] = Absent /\ history'[s] = {}
         /\ expired'[s] = IF live[s] # Absent THEN live[s].owner ELSE expired[s]
         /\ \A t \in Sessions \ {s} : /\ live'[t] = live[t] /\ history'[t] = history[t]
                                      /\ expired'[t] = expired[t]
<1>1. /\ requests[r].kind = "evict" /\ requests[r].stage = "draining"
      /\ live' = [live EXCEPT ![s] = Absent]
      /\ history' = [history EXCEPT ![s] = {}]
      /\ expired' = MarkersAfter({s})
  BY DEF Evict, In
<1>2. s \in Sessions
  BY <1>1 DEF Exclusive, Kinds, Maintenance
<1>3. PICK V \in SUBSET Sessions : V = {s}
  BY <1>2
<1>4. /\ expired' \in [Sessions -> Writers \cup {Unmarked}]
      /\ \A t \in V : live[t] # Absent => expired'[t] = live[t].owner
      /\ \A t \in Sessions : t \notin V \/ live[t] = Absent => expired'[t] = expired[t]
  BY <1>1, <1>3, MarkersEffect
<1> QED
  BY <1>1, <1>2, <1>3, <1>4 DEF Typed

LEMMA RestoredSession ==
  ASSUME Typed, live' = RestoredFrom(Backed)
  PROVE  /\ live' \in [Sessions -> Session \cup {Absent}]
         /\ Backed \in [Sessions -> SUBSET Writers]
         /\ \A t \in Sessions : Backed[t] = durable[t] \cup revived[t]
         /\ \A t \in Sessions : live'[t] = Absent <=> Backed[t] = {}
         /\ \A t \in Sessions : live'[t] # Absent => live'[t].restored
<1> DEFINE old == [owner |-> NoOwner, restored |-> TRUE]
<1>1. old \in Session /\ old.restored = TRUE
  BY NewSessions DEF Session
<1>2. old # Absent
  BY <1>1, NewSessions
<1>3. live' = [t \in Sessions |-> IF Backed[t] = {} THEN Absent ELSE old]
  BY DEF RestoredFrom
<1>4. Backed \in [Sessions -> SUBSET Writers] /\ \A t \in Sessions : Backed[t] = durable[t] \cup revived[t]
  BY DEF Backed, Typed
<1> HIDE DEF old
<1> QED
  BY <1>1, <1>2, <1>3, <1>4

\* A phase that changes becomes a phase.
LEMMA PhaseTyped ==
  ASSUME Typed, NEW s, \/ phase' = [phase EXCEPT ![s] = "open"]
                       \/ phase' = [phase EXCEPT ![s] = "resetting"]
                       \/ phase' = [phase EXCEPT ![s] = "reset_failed"]
                       \/ phase' = [phase EXCEPT ![s] = "evicting"]
                       \/ phase' = [phase EXCEPT ![s] = "eviction_failed"]
                       \/ phase' = phase
                       \/ phase' = [t \in Sessions |-> "open"]
  PROVE  phase' \in [Sessions -> {"open", "resetting", "reset_failed", "evicting", "eviction_failed"}]
BY DEF Typed

LEMMA TypedStep ==
  ASSUME IInv, [Next]_vars
  PROVE  Typed'
<1> USE DEF IInv
<1>1. requests' \in [Requests -> Request]
  BY ExclusiveStep
<1> DEFINE SessionsTyped == /\ live' \in [Sessions -> Session \cup {Absent}]
                            /\ history' \in [Sessions -> SUBSET Writers]
                            /\ expired' \in [Sessions -> Writers \cup {Unmarked}]
           BufferTyped == /\ queued' \in [Sessions -> SUBSET Writers]
                          /\ stuck' \in SUBSET Sessions
                          /\ durable' \in [Sessions -> SUBSET Writers]
                          /\ leftover' \in [Sessions -> SUBSET Writers]
                          /\ late' \in [Sessions -> SUBSET Writers]
                          /\ revived' \in [Sessions -> SUBSET Writers]
           PhasesTyped ==
             /\ phase' \in [Sessions -> {"open", "resetting", "reset_failed", "evicting", "eviction_failed"}]
             /\ globalPhase' \in {"open", "resetting", "reset_failed"}
<1>2. sessionVars' = sessionVars => SessionsTyped
  BY DEF Typed, sessionVars
<1>3. bufferVars' = bufferVars => BufferTyped
  BY DEF Typed, bufferVars, remainsVars
<1>4. phase' = phase /\ globalPhase' = globalPhase => PhasesTyped
  BY DEF Typed
<1>5. SUFFICES SessionsTyped /\ BufferTyped /\ PhasesTyped
  <2>1. ASSUME SessionsTyped, BufferTyped, PhasesTyped
        PROVE  Typed'
    BY <1>1, <2>1 DEF Typed
  <2> HIDE DEF SessionsTyped, BufferTyped, PhasesTyped
  <2> QED
    BY <2>1
<1>6. ASSUME NEW r \in Requests, Begin(r)
      PROVE  SessionsTyped /\ BufferTyped /\ PhasesTyped
  <2>1. sessionVars' = sessionVars /\ bufferVars' = bufferVars
    BY <1>6 DEF Begin, BeginGlobalReset, PlanEviction, BeginThought, BeginReset
  <2>2. globalPhase' \in {"open", "resetting", "reset_failed"}
    BY <1>6 DEF Typed, Begin, BeginGlobalReset, PlanEviction, BeginThought, BeginReset
  <2>3. phase' = phase \/ \E s \in Sessions : phase' = [phase EXCEPT ![s] = "resetting"]
    BY <1>6 DEF Begin, BeginGlobalReset, PlanEviction, BeginThought, BeginReset
  <2> HIDE DEF SessionsTyped, BufferTyped
  <2> QED
    BY <1>2, <1>3, <2>1, <2>2, <2>3, PhaseTyped
<1>7. ASSUME NEW r \in Requests, Proceed(r)
      PROVE  PhasesTyped
  <2> DEFINE s == requests[r].session
  <2>1. /\ globalPhase' \in {globalPhase, "open", "reset_failed"}
        /\ \/ phase' = [phase EXCEPT ![s] = "open"]
           \/ phase' = [phase EXCEPT ![s] = "reset_failed"]
           \/ phase' = [phase EXCEPT ![s] = "evicting"]
           \/ phase' = [phase EXCEPT ![s] = "eviction_failed"]
           \/ phase' = phase
           \/ phase' = [t \in Sessions |-> "open"]
    <3>1. CASE CommitThought(r) \/ RejectThought(r) \/ PlanReset(r) \/ ClearDurable(r) \/ Replace(r)
      BY <3>1 DEF CommitThought, RejectThought, PlanReset, ClearDurable, Replace
    <3>2. CASE FinishReset(r) \/ FailReset(r)
      BY <3>2 DEF FinishReset, FailReset
    <3>3. CASE ClaimEviction(r) \/ DrainEviction(r) \/ Evict(r) \/ FailEviction(r)
      BY <3>3 DEF ClaimEviction, DrainEviction, Evict, FailEviction
    <3>4. CASE DrainAll(r) \/ ClearAllDurable(r) \/ FinishGlobalReset(r) \/ FailGlobalReset(r)
      BY <3>4 DEF DrainAll, ClearAllDurable, FinishGlobalReset, FailGlobalReset
    <3> QED
      BY <1>7, <3>1, <3>2, <3>3, <3>4 DEF Proceed
  <2>2. globalPhase' \in {"open", "resetting", "reset_failed"}
    BY <2>1 DEF Typed
  <2> HIDE DEF s
  <2> QED
    BY <2>1, <2>2, PhaseTyped
<1>8. ASSUME NEW r \in Requests, Proceed(r)
      PROVE  SessionsTyped /\ BufferTyped
  <2> DEFINE s == requests[r].session
             o == requests[r].owner
  <2>1. o \in Writers
    BY DEF Typed, Request
  <2>2. CASE CommitThought(r)
    <3>1. s \in Sessions /\ Authorized(s, o) /\ Access(s, o, {o}) /\ {o} \in SUBSET Writers
      BY <2>1, <2>2 DEF CommitThought, In, Exclusive, Kinds
    <3>2. SessionsTyped
      <4> HIDE DEF s, o
      <4> QED
        BY <2>1, <3>1, AccessEffect
    <3>3. queued' = [queued EXCEPT ![s] = @ \cup {o}] /\ UNCHANGED <<stuck, durable, leftover, late, revived>>
      BY <2>2 DEF CommitThought, remainsVars
    <3> QED
      BY <2>1, <3>1, <3>2, <3>3 DEF Typed
  <2>3. CASE Replace(r)
    BY <2>3, ReplaceEffect DEF Replace, Typed
  <2>4. CASE FinishReset(r)
    BY <2>4, FinishEffect DEF FinishReset, remainsVars, Typed
  <2>5. CASE Evict(r)
    BY <1>3, <2>5, EvictEffect DEF Evict
  <2>6. CASE RejectThought(r) \/ ClaimEviction(r) \/ FailEviction(r) \/ FailGlobalReset(r)
    BY <1>2, <1>3, <2>6 DEF RejectThought, ClaimEviction, FailEviction, FailGlobalReset
  <2>7. CASE PlanReset(r) \/ DrainEviction(r) \/ DrainAll(r)
    <3>1. sessionVars' = sessionVars /\ UNCHANGED <<queued, durable, leftover, late, revived>>
      BY <2>7 DEF PlanReset, DrainEviction, DrainAll, remainsVars
    <3>2. stuck' \subseteq stuck
      BY <2>7 DEF PlanReset, DrainEviction, DrainAll, BarrierDrains
    <3> QED
      BY <1>2, <3>1, <3>2 DEF Typed
  <2>8. CASE ClearDurable(r) \/ ClearAllDurable(r)
    <3>1. sessionVars' = sessionVars /\ UNCHANGED <<stuck, late>>
      BY <2>8 DEF ClearDurable, ClearAllDurable
    <3>2. \A t \in Sessions : Backlog(t) \in SUBSET Writers
      BY DEF Backlog, Typed
    <3>3. CASE ClearDurable(r)
      <4>1. s \in Sessions
        BY <3>3 DEF ClearDurable, In, Exclusive, Kinds, Maintenance
      <4>2. leftover' \in [Sessions -> SUBSET Writers]
        BY <3>2, <3>3, <4>1 DEF ClearDurable, Typed
      <4> QED
        BY <1>2, <3>1, <3>3, <4>2 DEF ClearDurable, Typed
    <3>4. CASE ClearAllDurable(r)
      <4>1. leftover' \in [Sessions -> SUBSET Writers]
        BY <3>2, <3>4 DEF ClearAllDurable
      <4> QED
        BY <1>2, <3>1, <3>4, <4>1 DEF ClearAllDurable, Typed
    <3> QED
      BY <2>8, <3>3, <3>4
  <2>9. CASE FailReset(r)
    <3>1. UNCHANGED <<live, history, bufferVars>>
          /\ (expired' = [expired EXCEPT ![s] = Unmarked] \/ expired' = expired)
      BY <2>9 DEF FailReset
    <3> QED
      BY <1>3, <3>1 DEF Typed
  <2>10. CASE FinishGlobalReset(r)
    BY <2>10 DEF FinishGlobalReset, Typed
  <2> QED
    BY <1>8, <2>2, <2>3, <2>4, <2>5, <2>6, <2>7, <2>8, <2>9, <2>10 DEF Proceed
<1>9. ASSUME NEW s \in Sessions, Persist(s) \/ Rearm(s)
      PROVE  SessionsTyped /\ BufferTyped /\ PhasesTyped
  <2>1. CASE Flush(s)
    <3>1. PICK d, v : d = durable[s] \cup queued[s] /\ v = revived[s] \cup leftover[s]
      OBVIOUS
    <3>2. d \in SUBSET Writers /\ v \in SUBSET Writers
      BY <3>1 DEF Typed
    <3>3. /\ durable' = [durable EXCEPT ![s] = d] /\ revived' = [revived EXCEPT ![s] = v]
          /\ queued' = [queued EXCEPT ![s] = {}] /\ leftover' = [leftover EXCEPT ![s] = {}]
          /\ UNCHANGED <<stuck, late>>
      BY <2>1, <3>1 DEF Flush
    <3>4. BufferTyped
      BY <3>2, <3>3 DEF Typed
    <3> QED
      BY <1>2, <1>4, <2>1, <3>4 DEF Flush
  <2>2. CASE FlushFails(s) \/ Rearm(s)
    <3>1. BufferTyped
      BY <2>2 DEF FlushFails, Rearm, remainsVars, Typed
    <3> QED
      BY <1>2, <1>4, <2>2, <3>1 DEF FlushFails, Rearm
  <2>3. CASE LateSave(s)
    <3>1. PICK v : v = revived[s] \cup late[s]
      OBVIOUS
    <3>2. v \in SUBSET Writers
      BY <3>1 DEF Typed
    <3>3. /\ late' = [late EXCEPT ![s] = {}]
          /\ revived' = revived \/ revived' = [revived EXCEPT ![s] = v]
          /\ UNCHANGED <<queued, stuck, durable, leftover>>
      BY <2>3, <3>1 DEF LateSave
    <3>4. BufferTyped
      BY <3>2, <3>3 DEF Typed
    <3> QED
      BY <1>2, <1>4, <2>3, <3>4 DEF LateSave
  <2> QED
    BY <1>9, <2>1, <2>2, <2>3 DEF Persist
<1>10. ASSUME NEW s \in Sessions, NEW o \in Writers, Read(s, o)
       PROVE  SessionsTyped /\ BufferTyped /\ PhasesTyped
  <2>1. {} \in SUBSET Writers /\ Authorized(s, o) /\ Access(s, o, {})
    BY <1>10 DEF Read
  <2>2. SessionsTyped
    BY <2>1, AccessEffect
  <2>3. BufferTyped /\ PhasesTyped
    BY <1>3, <1>4, <1>10 DEF Read
  <2> QED
    BY <2>2, <2>3
<1>11. CASE Restart
  BY <1>11, RestoredSession DEF Restart, Typed
<1>12. CASE UNCHANGED vars
  BY <1>2, <1>3, <1>4, <1>12 DEF vars
<1> QED
  BY <1>6, <1>7, <1>8, <1>9, <1>10, <1>11, <1>12 DEF Next

-----------------------------------------------------------------------------
(* Whose data a session holds.                                              *)

\* A session whose data, owner and marker do not change.
LEMMA DataKept ==
  ASSUME NEW t \in Sessions, DataOf(t),
         live'[t] = live[t], history'[t] = history[t], expired'[t] = expired[t],
         Stored(t)' = Stored(t), Erased(t) => Erased(t)' \/ live[t] = Absent
  PROVE  DataOf(t)'
BY DEF DataOf

\* A session that is evicted: the marker names the owner of what stays stored.
LEMMA DataEvicted ==
  ASSUME Typed, NEW t \in Sessions, DataOf(t), live[t] # Absent, ~live[t].restored,
         live'[t] = Absent, history'[t] = {}, expired'[t] = live[t].owner, Stored(t)' = Stored(t)
  PROVE  DataOf(t)'
<1>1. live[t].owner \in Writers /\ live[t].owner # Unmarked
  BY NewSessions DEF Typed, Session
<1> QED
  BY <1>1 DEF DataOf

\* A session whose stored half is deleted.
LEMMA DataErased ==
  ASSUME NEW t \in Sessions, DataOf(t),
         live'[t] = live[t], history'[t] = history[t], expired'[t] = expired[t],
         Stored(t)' \subseteq Stored(t), Erased(t)'
  PROVE  DataOf(t)'
BY DEF DataOf

\* A session that is read, or that o continues: W is what o adds to both halves.
LEMMA DataAccessed ==
  ASSUME Typed, NEW s \in Sessions, NEW o \in Writers, NEW W \in SUBSET {o}, DataOf(s),
         Authorized(s, o),
         live[s] = Absent => live'[s] = Fresh(o) /\ history'[s] = W,
         live[s] # Absent => live'[s] = Bound(s, o) /\ history'[s] = history[s] \cup W,
         Stored(s)' = Stored(s) \cup W, Erased(s) => Erased(s)'
  PROVE  DataOf(s)'
<1>1. expired[s] = Unmarked
  BY DEF Authorized
<1>2. CASE live[s] = Absent
  <2>1. Stored(s) = {} /\ Stored(s)' = W /\ history'[s] = W
    BY <1>1, <1>2 DEF DataOf
  <2>2. live'[s] # Absent /\ live'[s].owner = o
    BY <1>2, NewSessions
  <2> QED
    BY <2>1, <2>2 DEF DataOf
<1>3. CASE live[s] # Absent
  <2>1. /\ live'[s] \in Session /\ live'[s] # Absent /\ live'[s].restored = live[s].restored
        /\ live'[s].owner = IF live[s].owner = NoOwner /\ ~live[s].restored THEN o ELSE live[s].owner
    BY <1>3, BoundFacts, NewSessions
  <2>2. o # NoOwner => ~live[s].restored /\ live[s].owner \in {o, NoOwner}
    BY <1>1, <1>3 DEF Authorized, ResetAuthorized, FormerOwner
  <2>3. (history[s] \cup Stored(s))' = history[s] \cup Stored(s) \cup W
    BY <1>3
  <2>4. ~live[s].restored => history[s] \cup Stored(s) \subseteq {live[s].owner, NoOwner}
    BY <1>3 DEF DataOf
  <2>5. live'[s] # Absent /\ ~live'[s].restored =>
          (history[s] \cup Stored(s))' \subseteq {live'[s].owner, NoOwner}
    BY <2>1, <2>2, <2>3, <2>4
  <2>6. \A a, b \in (history[s] \cup Stored(s))' \ {NoOwner} : a = b
    <3>1. CASE o = NoOwner
      BY <2>3, <3>1 DEF DataOf
    <3>2. CASE o # NoOwner
      BY <2>1, <2>2, <2>5, <3>2
    <3> QED
      BY <3>1, <3>2
  <2>7. live'[s] # Absent /\ ~Erased(s)' => history'[s] = Stored(s)'
    BY <1>3 DEF DataOf
  <2> QED
    BY <2>1, <2>5, <2>6, <2>7 DEF DataOf
<1> QED
  BY <1>2, <1>3

\* Steps that leave the sessions and the stored data alone.
LEMMA QuietStep ==
  ASSUME IInv, Kinds', UNCHANGED <<live, history, expired, queued, durable>>,
         \A q \in Requests : requests'[q] # requests[q] =>
           /\ requests[q].stage = "cleared" =>
                requests[q].session \in Sessions /\ live[requests[q].session] = Absent
           /\ requests[q].stage # "replaced"
           /\ requests'[q].kind \in Resets =>
                \/ requests'[q].stage = "claimed"
                \/ /\ requests'[q].stage = "draining"
                   /\ expired[requests'[q].session] # Unmarked =>
                        requests'[q].preserved = IF expired[requests'[q].session] = NoOwner
                                                 THEN requests'[q].owner
                                                 ELSE expired[requests'[q].session]
           /\ requests'[q].kind = "global" => requests'[q].stage # "cleared"
           /\ requests'[q].kind = "evict" =>
                live[requests'[q].session] = Absent \/ ~live[requests'[q].session].restored
  PROVE  Chains'
<1> USE DEF IInv, Chains
<1>1. ASSUME NEW t \in Sessions
      PROVE  DataOf(t)'
  <2>1. NoSession \notin Sessions
    BY ConstantsAssumption
  <2>2. Erased(t) => Erased(t)' \/ live[t] = Absent
    BY <2>1 DEF Erased
  <2>3. Stored(t)' = Stored(t)
    BY DEF Stored
  <2> QED
    BY <2>2, <2>3, DataKept
<1>2. Marked'
  BY DEF Marked, In
<1>3. ResetsKeep'
  <2> SUFFICES ASSUME NEW q \in Requests, NEW t \in Sessions,
                      requests'[q].kind \in Resets, requests'[q].session = t
               PROVE  Keeps(q, t)'
    BY DEF ResetsKeep
  <2>1. CASE requests'[q] = requests[q]
    <3>1. Keeps(q, t)
      BY <2>1 DEF ResetsKeep
    <3> QED
      BY <2>1, <3>1 DEF Keeps
  <2>2. CASE requests'[q] # requests[q]
    BY <2>2 DEF Keeps
  <2> QED
    BY <2>1, <2>2
<1>4. GlobalKeeps'
  <2> SUFFICES ASSUME NEW q \in Requests, In(q, {"global"}, "cleared")', NEW t \in Sessions
               PROVE  (queued[t] = {} /\ durable[t] = {})'
    BY DEF GlobalKeeps
  <2>1. In(q, {"global"}, "cleared")
    BY DEF In
  <2> QED
    BY <2>1 DEF GlobalKeeps
<1>5. TimerSparesRestored'
  BY DEF TimerSparesRestored
<1> QED
  BY <1>1, <1>2, <1>3, <1>4, <1>5

\* Who deletes, and that a request that has claimed s shuts every deletion of s out.
LEMMA Deleting ==
  ASSUME Typed, Exclusive, NEW q \in Requests, requests[q].stage = "cleared"
  PROVE  /\ \/ requests[q].kind \in Resets /\ requests[q].session \in Sessions
            \/ requests[q].kind = "global" /\ requests[q].session = NoSession
         /\ \A r \in Requests : Claims(r) /\ requests[r].stage # "cleared" =>
              requests[q].session \notin {requests[r].session, NoSession}
<1>1. requests[q].kind \in {"none", "thought", "global", "evict"} \cup Resets
  BY DEF Typed, Request, Maintenance
<1>2. requests[q].kind \notin {"none", "thought", "evict"}
  BY NoRequestIsRequest DEF Exclusive, Kinds
<1>3. \/ requests[q].kind \in Resets /\ requests[q].session \in Sessions
      \/ requests[q].kind = "global" /\ requests[q].session = NoSession
  BY <1>1, <1>2 DEF Exclusive, Kinds, Maintenance
<1>4. ASSUME NEW r \in Requests, Claims(r), requests[r].stage # "cleared"
      PROVE  requests[q].session \notin {requests[r].session, NoSession}
  <2>1. requests[q].kind # "global"
    BY <1>4 DEF Exclusive, Waited
  <2>2. requests[q].session \in Sessions /\ Claims(q)
    BY <1>3, <2>1 DEF Claims
  <2>3. requests[q].session # requests[r].session
    BY <1>4, <2>2 DEF Exclusive, PhasesOwned
  <2> QED
    BY <2>2, <2>3, ConstantsAssumption
<1> QED
  BY <1>3, <1>4

\* The steps of a request that leave the sessions and the stored data alone.
LEMMA QuietSteps ==
  ASSUME IInv, Kinds', NEW r \in Requests,
         \/ Begin(r)
         \/ RejectThought(r) \/ PlanReset(r) \/ (FailReset(r) /\ requests[r].stage # "replaced")
         \/ ClaimEviction(r) \/ DrainEviction(r) \/ FailEviction(r)
         \/ DrainAll(r) \/ FailGlobalReset(r)
  PROVE  Chains'
<1> USE DEF IInv
<1> DEFINE s == requests[r].session
<1>1. CASE Begin(r)
  <2>1. UNCHANGED <<live, history, expired, queued, durable, stuck>>
    BY <1>1 DEF Begin, BeginGlobalReset, PlanEviction, BeginThought, BeginReset, sessionVars, bufferVars
  <2>2. /\ requests[r] = NoRequest
        /\ \A q \in Requests \ {r} : requests'[q] = requests[q]
        /\ requests'[r].kind \in Resets => requests'[r].stage = "claimed"
        /\ requests'[r].kind = "global" => requests'[r].stage = "claimed"
        /\ requests'[r].kind = "evict" => requests'[r].session \in Counted
    <3>1. NoOwner \in Writers
      BY NewSessions
    <3>2. CASE BeginGlobalReset(r)
      <4>1. Started(r, "global", NoSession, NoOwner, "claimed")
        BY <3>2 DEF BeginGlobalReset
      <4> QED
        BY <3>1, <4>1, Starts DEF Resets
    <3>3. ASSUME NEW t \in Sessions, PlanEviction(r, t)
          PROVE  <2>2!:
      BY <3>1, <3>3, Starts DEF PlanEviction, Resets, Maintenance, Stale
    <3>4. ASSUME NEW t \in Sessions, NEW o \in Writers, BeginThought(r, t, o)
          PROVE  <2>2!:
      BY <3>4, Starts DEF BeginThought, Resets
    <3>5. ASSUME NEW t \in Sessions, NEW o \in Writers, NEW k \in Resets, BeginReset(r, t, o, k)
          PROVE  <2>2!:
      BY <3>5, Starts DEF BeginReset, Resets, Maintenance
    <3> QED
      BY <1>1, <3>2, <3>3, <3>4, <3>5 DEF Begin
  <2> QED
    BY <2>1, <2>2, NoRequestIsRequest, QuietStep DEF Counted
<1>2. CASE RejectThought(r) \/ FailEviction(r) \/ FailGlobalReset(r)
  <2>1. /\ UNCHANGED <<live, history, expired, queued, durable, stuck>> /\ Ended(r)
        /\ requests[r].kind \in {"thought", "evict", "global"} /\ requests[r].stage \in {"admitted", "draining"}
    BY <1>2 DEF RejectThought, FailEviction, FailGlobalReset, In, sessionVars, bufferVars
  <2> QED
    BY <2>1, Ends, QuietStep DEF Resets
<1>3. CASE FailReset(r) /\ requests[r].stage # "replaced"
  <2>1. /\ UNCHANGED <<live, history, expired, queued, durable, stuck>> /\ Ended(r)
        /\ requests[r].stage = "cleared" => s \in Sessions /\ live[s] = Absent
    BY <1>3 DEF FailReset, In, bufferVars, Exclusive, Kinds, Maintenance
  <2> QED
    BY <1>3, <2>1, Ends, QuietStep DEF Resets
<1>4. CASE ClaimEviction(r)
  <2>1. /\ UNCHANGED <<live, history, expired, queued, durable, stuck>>
        /\ requests[r].kind = "evict" /\ requests[r].stage = "planned"
        /\ Moved(r, "claimed") \/ Ended(r)
    BY <1>4 DEF ClaimEviction, In, sessionVars, bufferVars
  <2>2. requests[r].session \in Sessions
    BY <2>1 DEF Exclusive, Kinds, Maintenance
  <2>3. live[s] = Absent \/ ~live[s].restored
    BY <2>1, <2>2 DEF Chains, TimerSparesRestored
  <2>4. /\ \A q \in Requests \ {r} : requests'[q] = requests[q]
        /\ requests'[r].kind \in {"evict", "none"}
        /\ requests'[r].kind = "evict" => requests'[r].session = s
    BY <2>1, Moves, Ends
  <2> QED
    BY <2>1, <2>3, <2>4, QuietStep DEF Resets
<1>5. CASE DrainEviction(r)
  <2>1. /\ UNCHANGED <<live, history, expired, queued, durable>>
        /\ requests[r].kind = "evict" /\ requests[r].stage = "claimed" /\ Moved(r, "draining")
    BY <1>5 DEF DrainEviction, In, sessionVars
  <2>2. s \in Sessions /\ Claims(r)
    BY <2>1 DEF Exclusive, Kinds, Maintenance, Claims
  <2>3. live[s] = Absent \/ ~live[s].restored
    BY <2>1, <2>2 DEF Chains, TimerSparesRestored
  <2>4. /\ \A q \in Requests \ {r} : requests'[q] = requests[q]
        /\ requests'[r].kind = "evict" /\ requests'[r].session = s
    BY <2>1, Moves
  <2> QED
    BY <2>1, <2>3, <2>4, QuietStep DEF Resets
<1>6. CASE PlanReset(r)
  <2> DEFINE o == requests[r].owner
  <2>1. /\ UNCHANGED <<live, history, expired, queued, durable>>
        /\ requests[r].kind \in Resets /\ requests[r].stage = "claimed"
        /\ requests' = [requests EXCEPT ![r].stage = "draining", ![r].preserved = Preserved(s, o)]
    BY <1>6 DEF PlanReset, In, sessionVars
  <2>2. s \in Sessions /\ Claims(r) /\ o \in Writers /\ NoOwner \in Writers
    BY <2>1, NewSessions DEF Exclusive, Kinds, Maintenance, Claims, Typed, Request
  <2>3. Preserved(s, o) \in Writers
    <3>1. live[s] # Absent => live[s].owner \in Writers
      BY <2>2 DEF Typed, Session
    <3>2. expired[s] # Unmarked => expired[s] \in Writers
      BY <2>2 DEF Typed
    <3> QED
      BY <2>2, <3>1, <3>2 DEF Preserved, FormerOwner
  <2>4. expired[s] # Unmarked => Preserved(s, o) = IF expired[s] = NoOwner THEN o ELSE expired[s]
    BY DEF Preserved, FormerOwner
  <2>5. /\ \A q \in Requests \ {r} : requests'[q] = requests[q]
        /\ requests'[r].kind \in Resets /\ requests'[r].session = s
        /\ requests'[r].owner = o /\ requests'[r].stage = "draining"
        /\ requests'[r].preserved = Preserved(s, o)
    BY <2>1, <2>3, Plans
  <2> QED
    BY <2>1, <2>4, <2>5, QuietStep DEF Resets
<1>7. CASE DrainAll(r)
  <2>1. /\ UNCHANGED <<live, history, expired, queued, durable>>
        /\ requests[r].kind = "global" /\ requests[r].stage = "claimed" /\ Moved(r, "draining")
    BY <1>7 DEF DrainAll, In, sessionVars
  <2> QED
    BY <2>1, Moves, QuietStep DEF Resets
<1> QED
  BY <1>1, <1>2, <1>3, <1>4, <1>5, <1>6, <1>7

\* What a reset knows of a session that nobody touches.
LEMMA KeepsKept ==
  ASSUME NEW q \in Requests, NEW t \in Sessions, Keeps(q, t), requests'[q] = requests[q],
         live'[t] = live[t], expired'[t] = expired[t],
         queued'[t] = queued[t], durable'[t] = durable[t]
  PROVE  Keeps(q, t)'
BY DEF Keeps

\* The buffer's own steps.
LEMMA BufferChains ==
  ASSUME IInv, Exclusive', NEW s \in Sessions, Persist(s) \/ Rearm(s)
  PROVE  Chains'
<1> USE DEF IInv
<1>0. Kinds'
  BY DEF Exclusive
<1>1. CASE FlushFails(s) \/ LateSave(s) \/ Rearm(s)
  BY <1>0, <1>1, QuietStep DEF FlushFails, LateSave, Rearm, sessionVars
<1>3. CASE Flush(s)
  <2>1. /\ UNCHANGED <<live, history, expired, requests, stuck>>
        /\ queued' = [queued EXCEPT ![s] = {}]
        /\ durable' = [durable EXCEPT ![s] = durable[s] \cup queued[s]]
    BY <1>3 DEF Flush, sessionVars
  <2>2. /\ queued'[s] = {} /\ durable'[s] = durable[s] \cup queued[s]
        /\ \A t \in Sessions \ {s} : queued'[t] = queued[t] /\ durable'[t] = durable[t]
    BY <2>1 DEF Typed
  <2>3. ASSUME NEW t \in Sessions
        PROVE  DataOf(t)'
    <3>1. Stored(t)' = Stored(t)
      BY <2>2 DEF Stored
    <3>2. DataOf(t) /\ (Erased(t) => Erased(t)')
      BY <2>1 DEF Chains, Erased
    <3> QED
      BY <2>1, <3>1, <3>2, DataKept
  <2>4. Marked' /\ TimerSparesRestored'
    BY <2>1 DEF Chains, Marked, In, TimerSparesRestored
  <2>5. ResetsKeep'
    <3> SUFFICES ASSUME NEW q \in Requests, NEW t \in Sessions,
                        requests[q].kind \in Resets, requests[q].session = t
                 PROVE  Keeps(q, t)'
      BY <2>1 DEF ResetsKeep
    <3>1. Keeps(q, t)
      BY DEF Chains, ResetsKeep
    <3>2. CASE t = s
      BY <2>1, <2>2, <3>1, <3>2 DEF Keeps
    <3>3. CASE t # s
      BY <2>1, <2>2, <3>1, <3>3, KeepsKept
    <3> QED
      BY <3>2, <3>3
  <2>6. GlobalKeeps'
    <3> SUFFICES ASSUME NEW q \in Requests, In(q, {"global"}, "cleared"), NEW t \in Sessions
                 PROVE  queued'[t] = {} /\ durable'[t] = {}
      BY <2>1 DEF GlobalKeeps, In
    <3>1. queued[t] = {} /\ durable[t] = {}
      BY DEF Chains, GlobalKeeps
    <3> QED
      BY <2>2, <3>1
  <2> QED
    BY <2>3, <2>4, <2>5, <2>6 DEF Chains
<1> QED
  BY <1>1, <1>3 DEF Persist

\* The durable half of a reset, of one session or of all.
LEMMA ErasureChains ==
  ASSUME IInv, NEW r \in Requests, ClearDurable(r) \/ ClearAllDurable(r)
  PROVE  Chains'
<1> USE DEF IInv
<1> DEFINE s == requests[r].session
<1>1. /\ UNCHANGED <<live, history, expired>>
      /\ requests[r].stage = "draining" /\ requests[r].kind \in {"global"} \cup Resets
      /\ Moved(r, "cleared")
      /\ requests[r].kind = "global" => /\ durable' = [t \in Sessions |-> {}]
                                        /\ queued' = [t \in Sessions |-> {}]
      /\ requests[r].kind \in Resets => /\ durable' = [durable EXCEPT ![s] = {}]
                                        /\ queued' = [queued EXCEPT ![s] = {}]
  BY DEF ClearDurable, ClearAllDurable, In, sessionVars, Resets
<1>2. /\ \A q \in Requests \ {r} : requests'[q] = requests[q]
      /\ requests'[r].kind = requests[r].kind /\ requests'[r].session = s
      /\ requests'[r].owner = requests[r].owner /\ requests'[r].preserved = requests[r].preserved
      /\ requests'[r].stage = "cleared"
  BY <1>1, Moves
<1>3. /\ requests[r].kind = "global" => s = NoSession
      /\ requests[r].kind \in Resets => s \in Sessions /\ Claims(r)
  BY DEF Exclusive, Kinds, Claims, Maintenance
<1>4. \A t \in Sessions : \/ durable'[t] = durable[t] /\ queued'[t] = queued[t]
                          \/ durable'[t] = {} /\ queued'[t] = {} /\ Erased(t)'
  BY <1>1, <1>2, <1>3 DEF Typed, Erased
<1>5. ASSUME NEW t \in Sessions
      PROVE  DataOf(t)'
  <2>1. DataOf(t)
    BY DEF Chains
  <2>2. CASE durable'[t] = durable[t] /\ queued'[t] = queued[t]
    <3>1. Stored(t)' = Stored(t) /\ (Erased(t) => Erased(t)')
      BY <1>1, <1>2, <2>2 DEF Stored, Erased
    <3> QED
      BY <1>1, <2>1, <3>1, DataKept
  <2>3. CASE durable'[t] = {} /\ queued'[t] = {} /\ Erased(t)'
    <3>1. Stored(t)' \subseteq Stored(t)
      BY <1>1, <2>3 DEF Stored
    <3> QED
      BY <1>1, <2>1, <2>3, <3>1, DataErased
  <2> QED
    BY <1>4, <2>2, <2>3
<1>6. Marked'
  BY <1>1, <1>2 DEF Chains, Marked, In
<1>7. TimerSparesRestored'
  BY <1>1, <1>2 DEF Chains, TimerSparesRestored
<1>8. ResetsKeep'
  <2> SUFFICES ASSUME NEW q \in Requests, NEW t \in Sessions,
                      requests'[q].kind \in Resets, requests'[q].session = t
               PROVE  Keeps(q, t)'
    BY DEF ResetsKeep
  <2>1. requests[q].kind \in Resets /\ requests[q].session = t
    BY <1>2
  <2>2. Keeps(q, t)
    BY <2>1 DEF Chains, ResetsKeep
  <2>3. CASE q = r
    <3>1. queued'[t] = {} /\ durable'[t] = {}
      BY <1>1, <2>1, <2>3 DEF Typed
    <3> QED
      BY <1>1, <1>2, <2>2, <2>3, <3>1 DEF Keeps
  <2>4. CASE q # r
    <3>1. CASE requests[r].kind = "global"
      <4>1. requests[r].stage # "claimed" /\ Claims(q)
        BY <1>1, <2>1 DEF Claims
      <4> QED
        BY <3>1, <4>1 DEF Exclusive, Waited
    <3>2. CASE requests[r].kind \in Resets
      <4>1. t # s
        BY <1>3, <2>1, <2>4, <3>2 DEF Exclusive, PhasesOwned, Claims
      <4>2. durable'[t] = durable[t] /\ queued'[t] = queued[t]
        BY <1>1, <3>2, <4>1 DEF Typed
      <4> QED
        BY <1>1, <1>2, <2>2, <2>4, <4>2, KeepsKept
    <3> QED
      BY <1>1, <3>1, <3>2
  <2> QED
    BY <2>3, <2>4
<1>9. GlobalKeeps'
  <2> SUFFICES ASSUME NEW q \in Requests, requests'[q].kind = "global", requests'[q].stage = "cleared"
               PROVE  \A t \in Sessions : queued'[t] = {} /\ durable'[t] = {}
    BY DEF GlobalKeeps, In
  <2>1. requests[q].kind = "global"
    BY <1>2
  <2>2. CASE q = r
    BY <1>1, <2>1, <2>2
  <2>3. CASE q # r
    <3>1. requests[q].stage = "cleared"
      BY <1>2, <2>3
    <3>2. ~Claims(r) /\ requests[r].kind # "global"
      BY <2>1, <2>3, <3>1 DEF Exclusive, Waited, PhasesOwned
    <3> QED
      BY <1>1, <3>2 DEF Claims
  <2> QED
    BY <2>2, <2>3
<1> QED
  BY <1>5, <1>6, <1>7, <1>8, <1>9 DEF Chains

\* The sessions a step leaves alone or evicts for capacity, but for s itself.
LEMMA BystandersData ==
  ASSUME IInv, NEW s \in Sessions, NEW t \in Sessions \ {s},
         \/ live'[t] = live[t] /\ history'[t] = history[t] /\ expired'[t] = expired[t]
         \/ /\ live[t] # Absent /\ ~live[t].restored
            /\ live'[t] = Absent /\ history'[t] = {} /\ expired'[t] = live[t].owner,
         queued'[t] = queued[t], durable'[t] = durable[t], Erased(t) => Erased(t)'
  PROVE  DataOf(t)'
<1>1. DataOf(t) /\ Stored(t)' = Stored(t) /\ Typed
  BY DEF IInv, Chains, Stored
<1> QED
  BY <1>1, DataKept, DataEvicted

\* A reset of t keeps what it knows of t: nobody evicts a session under reset.
LEMMA BystandersKeep ==
  ASSUME IInv, NEW q \in Requests, NEW t \in Sessions,
         requests[q].kind \in Resets, requests[q].session = t, requests'[q] = requests[q],
         \/ live'[t] = live[t] /\ expired'[t] = expired[t]
         \/ phase[t] = "open",
         queued'[t] = queued[t], durable'[t] = durable[t]
  PROVE  Keeps(q, t)'
<1>1. Keeps(q, t) /\ phase[t] = "resetting"
  BY DEF IInv, Chains, ResetsKeep, Exclusive, PhasesOwned
<1> QED
  BY <1>1, KeepsKept

\* A thought that is committed (W = {o}), or a read (W = {}).
LEMMA AccessChains ==
  ASSUME IInv, NEW s \in Sessions, NEW o \in Writers, NEW W \in SUBSET {o},
         Authorized(s, o), Access(s, o, W), durable' = durable,
         queued'[s] = queued[s] \cup W, \A t \in Sessions \ {s} : queued'[t] = queued[t],
         \A q \in Requests : requests'[q] # requests[q] =>
           requests[q].kind = "thought" /\ requests'[q] = NoRequest,
         W # {} => \E q \in Requests : requests[q].kind = "thought" /\ requests[q].session = s
  PROVE  Chains'
<1> USE DEF IInv
<1>1. /\ live' \in [Sessions -> Session \cup {Absent}]
      /\ live'[s] # Absent /\ expired'[s] = Unmarked /\ expired[s] = Unmarked
      /\ live[s] = Absent => live'[s] = Fresh(o) /\ history'[s] = W
      /\ live[s] # Absent => live'[s] = Bound(s, o) /\ history'[s] = history[s] \cup W
  BY AccessEffect
<1>2. \A t \in Sessions \ {s} :
        \/ live'[t] = live[t] /\ history'[t] = history[t] /\ expired'[t] = expired[t]
        \/ /\ live[t] # Absent /\ ~live[t].restored /\ phase[t] = "open"
           /\ live'[t] = Absent /\ history'[t] = {} /\ expired'[t] = live[t].owner
  <2>1. W \in SUBSET Writers
    OBVIOUS
  <2> QED
    BY <2>1, AccessEffect
<1>3. live'[s].restored => live[s] # Absent /\ live[s].restored
  <2>1. Fresh(o).restored = FALSE
    BY NewSessions
  <2>2. live[s] # Absent => Bound(s, o).restored = live[s].restored
    BY BoundFacts
  <2> QED
    BY <1>1, <2>1, <2>2
<1>4. \A q \in Requests : requests[q].kind # "thought" => requests'[q] = requests[q]
  OBVIOUS
<1>5. \A q \in Requests : requests'[q].kind \notin {"none", "thought"} => requests'[q] = requests[q]
  BY NoRequestIsRequest
<1>6. \A q \in Requests : requests[q].stage = "cleared" => requests'[q] = requests[q]
  BY <1>4 DEF Exclusive, Kinds
<1>7. \A t \in Sessions : Erased(t) => Erased(t)'
  BY <1>6 DEF Erased
<1>8. ASSUME NEW t \in Sessions
      PROVE  DataOf(t)'
  <2>1. CASE t = s
    <3>1. DataOf(s) /\ Stored(s)' = Stored(s) \cup W
      BY DEF Chains, Stored
    <3> QED
      BY <1>1, <1>7, <2>1, <3>1, DataAccessed
  <2>2. CASE t # s
    BY <1>2, <1>7, <2>2, BystandersData
  <2> QED
    BY <2>1, <2>2
<1>9. Marked'
  <2> SUFFICES ASSUME NEW t \in Sessions, expired'[t] # Unmarked, live'[t] # Absent
               PROVE  \E q \in Requests : In(q, Resets, "replaced")' /\ requests'[q].session = t
    BY DEF Marked
  <2>1. expired[t] # Unmarked /\ live[t] # Absent
    BY <1>1, <1>2
  <2>2. PICK q \in Requests : In(q, Resets, "replaced") /\ requests[q].session = t
    BY <2>1 DEF Chains, Marked
  <2>3. requests'[q] = requests[q]
    BY <1>4, <2>2 DEF In, Resets
  <2> QED
    BY <2>2, <2>3 DEF In
<1>10. ResetsKeep'
  <2> SUFFICES ASSUME NEW q \in Requests, NEW t \in Sessions,
                      requests'[q].kind \in Resets, requests'[q].session = t
               PROVE  Keeps(q, t)'
    BY DEF ResetsKeep
  <2>1. requests'[q] = requests[q] /\ requests[q].kind \in Resets /\ requests[q].session = t
    BY <1>5 DEF Resets
  <2>2. CASE t = s
    <3>1. Keeps(q, s)
      BY <2>1, <2>2 DEF Chains, ResetsKeep
    <3>2. requests[q].stage \in {"cleared", "replaced"} => W = {}
      BY <2>1, <2>2 DEF Exclusive, Waited, Claims
    <3>3. requests[q].stage = "replaced" =>
            queued[s] = {} /\ durable[s] = {} /\ live[s] # Absent /\ ~live[s].restored
      BY <3>1 DEF Keeps
    <3>4. requests[q].stage = "cleared" => queued[s] = {} /\ durable[s] = {}
      BY <3>1 DEF Keeps
    <3>5. requests[q].stage = "replaced" =>
            queued'[s] = {} /\ durable'[s] = {} /\ live'[s] # Absent /\ ~live'[s].restored
      BY <1>1, <1>3, <3>2, <3>3
    <3>6. requests[q].stage = "cleared" => queued'[s] = {} /\ durable'[s] = {}
      BY <3>2, <3>4
    <3> QED
      BY <1>1, <2>1, <2>2, <3>5, <3>6 DEF Keeps
  <2>3. CASE t # s
    BY <1>2, <2>1, <2>3, BystandersKeep
  <2> QED
    BY <2>2, <2>3
<1>11. GlobalKeeps'
  <2> SUFFICES ASSUME NEW q \in Requests, In(q, {"global"}, "cleared")', NEW t \in Sessions
               PROVE  queued'[t] = {} /\ durable'[t] = {}
    BY DEF GlobalKeeps
  <2>1. In(q, {"global"}, "cleared")
    BY <1>5 DEF In
  <2>2. queued[t] = {} /\ durable[t] = {}
    BY <2>1 DEF Chains, GlobalKeeps
  <2>3. W = {}
    BY <2>1 DEF In, Exclusive, Waited
  <2> QED
    BY <2>2, <2>3
<1>12. TimerSparesRestored'
  <2> SUFFICES ASSUME NEW q \in Requests, NEW t \in Sessions,
                      requests'[q].kind = "evict", requests'[q].session = t
               PROVE  live'[t] = Absent \/ ~live'[t].restored
    BY DEF TimerSparesRestored
  <2>1. requests'[q] = requests[q]
    BY <1>5
  <2>2. live[t] = Absent \/ ~live[t].restored
    BY <2>1 DEF Chains, TimerSparesRestored
  <2> QED
    BY <1>2, <1>3, <2>2
<1> QED
  BY <1>8, <1>9, <1>10, <1>11, <1>12 DEF Chains

\* A reset that replaces the live session: both halves of it are empty now.
LEMMA ReplaceChains ==
  ASSUME IInv, NEW r \in Requests, Replace(r)
  PROVE  Chains'
<1> USE DEF IInv
<1>0. PICK s : s = requests[r].session
  OBVIOUS
<1>1. /\ s \in Sessions /\ requests[r].kind \in Resets /\ requests[r].stage = "cleared"
      /\ live'[s] = Fresh(requests[r].preserved) /\ history'[s] = {}
      /\ expired'[s] = expired[s] /\ queued'[s] = {}
      /\ \A t \in Sessions \ {s} :
           /\ queued'[t] = queued[t]
           /\ \/ live'[t] = live[t] /\ history'[t] = history[t] /\ expired'[t] = expired[t]
              \/ /\ live[t] # Absent /\ ~live[t].restored /\ phase[t] = "open"
                 /\ live'[t] = Absent /\ history'[t] = {} /\ expired'[t] = live[t].owner
  BY <1>0, ReplaceEffect
<1>2. durable' = durable /\ Moved(r, "replaced")
  BY DEF Replace
<1>3. /\ \A q \in Requests \ {r} : requests'[q] = requests[q]
      /\ requests'[r].kind = requests[r].kind /\ requests'[r].session = s
      /\ requests'[r].owner = requests[r].owner /\ requests'[r].preserved = requests[r].preserved
      /\ requests'[r].stage = "replaced"
  BY <1>0, <1>2, Moves
<1>4. durable[s] = {} /\ Claims(r)
  BY <1>0, <1>1 DEF Chains, ResetsKeep, Keeps, Claims
<1>5. requests[r].preserved \in Writers
  BY DEF Typed, Request
<1>6. /\ live'[s] # Absent /\ ~live'[s].restored /\ live'[s].owner = requests[r].preserved
  BY <1>1, <1>5, NewSessions
<1>7. ASSUME NEW t \in Sessions
      PROVE  DataOf(t)'
  <2>1. CASE t = s
    <3>1. Stored(s)' = {}
      BY <1>1, <1>2, <1>4 DEF Stored
    <3> QED
      BY <1>1, <1>6, <2>1, <3>1 DEF DataOf
  <2>2. CASE t # s
    <3>1. s # NoSession
      BY <1>1, ConstantsAssumption
    <3>2. Erased(t) => Erased(t)'
      BY <1>0, <1>3, <2>2, <3>1 DEF Erased
    <3> QED
      BY <1>1, <1>2, <2>2, <3>2, BystandersData
  <2> QED
    BY <2>1, <2>2
<1>8. Marked'
  BY <1>1, <1>3 DEF Chains, Marked, In
<1>9. ResetsKeep'
  <2> SUFFICES ASSUME NEW q \in Requests, NEW t \in Sessions,
                      requests'[q].kind \in Resets, requests'[q].session = t
               PROVE  Keeps(q, t)'
    BY DEF ResetsKeep
  <2>1. CASE q = r
    <3>1. t = s
      BY <1>3, <2>1
    <3>2. requests'[q].stage = "replaced" /\ requests'[q].preserved = requests[q].preserved
          /\ requests'[q].owner = requests[q].owner
      BY <1>3, <2>1
    <3>3. expired[s] # Unmarked =>
            requests[q].preserved = IF expired[s] = NoOwner THEN requests[q].owner ELSE expired[s]
      BY <1>0, <1>1, <2>1 DEF Chains, ResetsKeep, Keeps
    <3>4. queued'[t] = {} /\ durable'[t] = {} /\ live'[t] # Absent /\ ~live'[t].restored
          /\ live'[t].owner = requests[q].preserved /\ expired'[t] = expired[t]
      BY <1>1, <1>2, <1>4, <1>6, <2>1, <3>1
    <3> QED
      BY <3>1, <3>2, <3>3, <3>4 DEF Keeps
  <2>2. CASE q # r
    <3>1. requests'[q] = requests[q] /\ Claims(q) /\ requests[q].session = t
      BY <1>3, <2>2 DEF Claims
    <3>2. t # s
      BY <1>0, <1>4, <2>2, <3>1 DEF Exclusive, PhasesOwned
    <3> QED
      BY <1>1, <1>2, <3>1, <3>2, BystandersKeep
  <2> QED
    BY <2>1, <2>2
<1>10. GlobalKeeps'
  <2>1. \A q \in Requests : ~In(q, {"global"}, "cleared")
    BY <1>4 DEF In, Exclusive, Waited
  <2> QED
    BY <1>1, <1>3, <2>1 DEF GlobalKeeps, In, Resets
<1>11. TimerSparesRestored'
  <2> SUFFICES ASSUME NEW q \in Requests, NEW t \in Sessions,
                      requests'[q].kind = "evict", requests'[q].session = t
               PROVE  live'[t] = Absent \/ ~live'[t].restored
    BY DEF TimerSparesRestored
  <2>1. requests[q].kind = "evict" /\ requests[q].session = t
    BY <1>0, <1>3
  <2>2. live[t] = Absent \/ ~live[t].restored
    BY <2>1 DEF Chains, TimerSparesRestored
  <2> QED
    BY <1>1, <1>6, <2>2
<1> QED
  BY <1>7, <1>8, <1>9, <1>10, <1>11 DEF Chains

\* The end of a reset: the marker goes, and the first thought of a replacement comes.
LEMMA FinishChains ==
  ASSUME IInv, NEW r \in Requests,
         FinishReset(r) \/ (FailReset(r) /\ requests[r].stage = "replaced")
  PROVE  Chains'
<1> USE DEF IInv
<1>0. PICK s, o : s = requests[r].session /\ o = requests[r].owner
  OBVIOUS
<1>1. /\ s \in Sessions /\ o \in Writers
      /\ requests[r].kind \in Resets /\ requests[r].stage = "replaced"
      /\ live[s] # Absent /\ expired'[s] = Unmarked
      /\ \/ live'[s] = live[s] /\ history'[s] = history[s] /\ queued'[s] = queued[s]
         \/ /\ ResetAuthorized(s, o)
            /\ live'[s] = Bound(s, o) /\ history'[s] = {o} /\ queued'[s] = {o}
      /\ \A t \in Sessions \ {s} : /\ live'[t] = live[t] /\ history'[t] = history[t]
                                   /\ expired'[t] = expired[t] /\ queued'[t] = queued[t]
  <2>1. CASE FinishReset(r)
    <3>1. Typed /\ Exclusive /\ Chains
      OBVIOUS
    <3> HIDE DEF IInv
    <3> QED
      BY <1>0, <2>1, <3>1, FinishEffect
  <2>2. CASE FailReset(r) /\ requests[r].stage = "replaced"
    <3>1. /\ requests[r].kind \in Resets /\ expired' = [expired EXCEPT ![s] = Unmarked]
          /\ UNCHANGED <<live, history, queued>>
      BY <1>0, <2>2 DEF FailReset, bufferVars
    <3>2. s \in Sessions /\ o \in Writers
      BY <1>0, <3>1 DEF Exclusive, Kinds, Maintenance, Typed, Request
    <3>3. live[s] # Absent
      BY <1>0, <2>2, <3>1, <3>2 DEF Chains, ResetsKeep, Keeps
    <3> QED
      BY <2>2, <3>1, <3>2, <3>3 DEF Typed
  <2> QED
    BY <2>1, <2>2
<1>2. durable' = durable /\ Ended(r)
  BY <1>1 DEF FinishReset, FailReset, bufferVars
<1>3. /\ \A q \in Requests \ {r} : requests'[q] = requests[q]
      /\ requests'[r].kind = "none" /\ requests'[r].stage = "idle"
  BY <1>2, Ends
<1>4. /\ queued[s] = {} /\ durable[s] = {} /\ ~live[s].restored /\ Claims(r)
      /\ expired[s] # Unmarked =>
           live[s].owner = IF expired[s] = NoOwner THEN o ELSE expired[s]
  BY <1>0, <1>1 DEF Chains, ResetsKeep, Keeps, Claims
<1>5. ASSUME NEW t \in Sessions
      PROVE  Erased(t) => Erased(t)'
  BY <1>1, <1>3 DEF Erased
<1>6. ASSUME NEW t \in Sessions
      PROVE  DataOf(t)'
  <2>1. CASE t = s /\ live'[s] = live[s] /\ history'[s] = history[s] /\ queued'[s] = queued[s]
    <3>1. DataOf(s) /\ Stored(s)' = Stored(s) /\ (Erased(s) => Erased(s)')
      BY <1>1, <1>2, <1>5, <2>1 DEF Chains, Stored
    <3> QED
      BY <1>1, <2>1, <3>1 DEF DataOf
  <2>2. CASE t = s /\ ResetAuthorized(s, o) /\ live'[s] = Bound(s, o)
                   /\ history'[s] = {o} /\ queued'[s] = {o}
    <3>1. Stored(s)' = {o} /\ (history[s] \cup Stored(s))' = {o}
      BY <1>2, <1>4, <2>2 DEF Stored
    <3>2. /\ live'[s] # Absent /\ ~live'[s].restored
          /\ live'[s].owner = IF live[s].owner = NoOwner THEN o ELSE live[s].owner
      <4>1. Bound(s, o) \in Session /\ Bound(s, o).restored = live[s].restored
        BY <1>1, BoundFacts
      <4>2. Bound(s, o).owner = IF live[s].owner = NoOwner THEN o ELSE live[s].owner
        BY <1>1, <1>4, BoundFacts
      <4> QED
        BY <1>4, <2>2, <4>1, <4>2, NewSessions
    <3>3. o # NoOwner => live[s].owner \in {o, NoOwner}
      <4>1. CASE expired[s] = Unmarked
        BY <1>1, <2>2, <4>1 DEF ResetAuthorized, FormerOwner
      <4>2. CASE expired[s] # Unmarked
        BY <1>4, <2>2, <4>2 DEF ResetAuthorized, FormerOwner
      <4> QED
        BY <4>1, <4>2
    <3>4. o \in {live'[s].owner, NoOwner}
      BY <3>2, <3>3
    <3> QED
      BY <2>2, <3>1, <3>2, <3>4 DEF DataOf
  <2>3. CASE t # s
    BY <1>1, <1>2, <1>5, <2>3, BystandersData
  <2> QED
    BY <1>1, <2>1, <2>2, <2>3
<1>7. Marked'
  <2> SUFFICES ASSUME NEW t \in Sessions, expired'[t] # Unmarked, live'[t] # Absent
               PROVE  \E q \in Requests : In(q, Resets, "replaced")' /\ requests'[q].session = t
    BY DEF Marked
  <2>1. t # s /\ expired[t] # Unmarked /\ live[t] # Absent
    BY <1>1
  <2>2. PICK q \in Requests : In(q, Resets, "replaced") /\ requests[q].session = t
    BY <2>1 DEF Chains, Marked
  <2>3. q # r
    BY <1>0, <2>1, <2>2
  <2> QED
    BY <1>3, <2>2, <2>3 DEF In
<1>8. ResetsKeep'
  <2> SUFFICES ASSUME NEW q \in Requests, NEW t \in Sessions,
                      requests'[q].kind \in Resets, requests'[q].session = t
               PROVE  Keeps(q, t)'
    BY DEF ResetsKeep
  <2>1. q # r
    BY <1>3 DEF Resets
  <2>2. requests'[q] = requests[q] /\ Claims(q) /\ requests[q].session = t
    BY <1>3, <2>1 DEF Claims
  <2>3. t # s
    BY <1>0, <1>4, <2>1, <2>2 DEF Exclusive, PhasesOwned
  <2> QED
    BY <1>1, <1>2, <2>2, <2>3, BystandersKeep
<1>9. GlobalKeeps'
  <2>1. \A q \in Requests : ~In(q, {"global"}, "cleared")
    BY <1>4 DEF In, Exclusive, Waited
  <2> QED
    BY <1>3, <2>1 DEF GlobalKeeps, In
<1>10. TimerSparesRestored'
  <2> SUFFICES ASSUME NEW q \in Requests, NEW t \in Sessions,
                      requests'[q].kind = "evict", requests'[q].session = t
               PROVE  live'[t] = Absent \/ ~live'[t].restored
    BY DEF TimerSparesRestored
  <2>1. requests[q].kind = "evict" /\ requests[q].session = t
    BY <1>3
  <2>2. live[t] = Absent \/ ~live[t].restored
    BY <2>1 DEF Chains, TimerSparesRestored
  <2>3. Bound(s, o).restored = live[s].restored
    BY <1>1, BoundFacts
  <2> QED
    BY <1>1, <1>4, <2>2, <2>3
<1> QED
  BY <1>6, <1>7, <1>8, <1>9, <1>10 DEF Chains

\* The end of a TTL eviction: the marker keeps what is stored for its owner.
LEMMA EvictChains ==
  ASSUME IInv, NEW r \in Requests, Evict(r)
  PROVE  Chains'
<1> USE DEF IInv
<1>0. PICK s : s = requests[r].session
  OBVIOUS
<1>1. /\ s \in Sessions /\ requests[r].kind = "evict" /\ requests[r].stage = "draining"
      /\ live'[s] = Absent /\ history'[s] = {}
      /\ expired'[s] = IF live[s] # Absent THEN live[s].owner ELSE expired[s]
      /\ \A t \in Sessions \ {s} : /\ live'[t] = live[t] /\ history'[t] = history[t]
                                   /\ expired'[t] = expired[t]
  BY <1>0, EvictEffect
<1>2. UNCHANGED <<queued, durable>> /\ Ended(r)
  BY DEF Evict, bufferVars
<1>3. /\ \A q \in Requests \ {r} : requests'[q] = requests[q]
      /\ requests'[r].kind = "none" /\ requests'[r].stage = "idle" /\ Claims(r)
  BY <1>1, <1>2, Ends DEF Claims
<1>4. ASSUME NEW t \in Sessions
      PROVE  DataOf(t)'
  <2>1. DataOf(t) /\ Stored(t)' = Stored(t) /\ (Erased(t) => Erased(t)')
    BY <1>1, <1>2, <1>3 DEF Chains, Stored, Erased
  <2>2. CASE t = s /\ live[s] = Absent
    BY <1>1, <2>1, <2>2 DEF DataOf
  <2>3. CASE t = s /\ live[s] # Absent
    <3>1. ~live[s].restored
      BY <1>0, <1>1, <2>3 DEF Chains, TimerSparesRestored
    <3> QED
      BY <1>1, <2>1, <2>3, <3>1, DataEvicted
  <2>4. CASE t # s
    BY <1>1, <2>1, <2>4, DataKept
  <2> QED
    BY <2>2, <2>3, <2>4
<1>5. Marked'
  <2> SUFFICES ASSUME NEW t \in Sessions, expired'[t] # Unmarked, live'[t] # Absent
               PROVE  \E q \in Requests : In(q, Resets, "replaced")' /\ requests'[q].session = t
    BY DEF Marked
  <2>1. expired[t] # Unmarked /\ live[t] # Absent
    BY <1>1
  <2>2. PICK q \in Requests : In(q, Resets, "replaced") /\ requests[q].session = t
    BY <2>1 DEF Chains, Marked
  <2> QED
    BY <1>1, <1>3, <2>2 DEF In
<1>6. ResetsKeep'
  <2> SUFFICES ASSUME NEW q \in Requests, NEW t \in Sessions,
                      requests'[q].kind \in Resets, requests'[q].session = t
               PROVE  Keeps(q, t)'
    BY DEF ResetsKeep
  <2>1. q # r
    BY <1>3 DEF Resets
  <2>2. requests'[q] = requests[q] /\ Claims(q) /\ requests[q].session = t
    BY <1>3, <2>1 DEF Claims
  <2>3. t # s
    BY <1>0, <1>3, <2>1, <2>2 DEF Exclusive, PhasesOwned
  <2> QED
    BY <1>1, <1>2, <2>2, <2>3, BystandersKeep
<1>7. GlobalKeeps'
  <2>1. \A q \in Requests : ~In(q, {"global"}, "cleared")
    BY <1>3 DEF In, Exclusive, Waited
  <2> QED
    BY <1>3, <2>1 DEF GlobalKeeps, In
<1>8. TimerSparesRestored'
  BY <1>1, <1>3 DEF Chains, TimerSparesRestored
<1> QED
  BY <1>4, <1>5, <1>6, <1>7, <1>8 DEF Chains

\* A chain and what remains of deleted ones are of one owner.
LEMMA OneOwner ==
  ASSUME IInv, NEW t \in Sessions
  PROVE  \A a, b \in (history[t] \cup Stored(t) \cup Remains(t)) \ {NoOwner} : a = b
<1>1. DataOf(t) /\ RemainsOf(t)
  BY DEF IInv, Chains, Relics
<1>2. CASE live[t] = Absent
  BY <1>1, <1>2 DEF DataOf, RemainsOf
<1>3. CASE live[t] # Absent /\ ~live[t].restored
  BY <1>1, <1>3 DEF DataOf, RemainsOf
<1>4. CASE live[t] # Absent /\ live[t].restored
  BY <1>1, <1>4 DEF DataOf, RemainsOf
<1> QED
  BY <1>2, <1>3, <1>4

\* Sessions that are all absent, or all restored, with nobody at work on them.
LEMMA FreshStart ==
  ASSUME \A q \in Requests : requests'[q].kind \notin {"evict", "global"} \cup Resets,
         \A q \in Requests : requests'[q].stage # "cleared",
         \A t \in Sessions : /\ queued'[t] = {} /\ history'[t] = durable'[t]
                             /\ expired'[t] = Unmarked
                             /\ live'[t] = Absent => durable'[t] = {}
                             /\ live'[t] # Absent => live'[t].restored
                             /\ \A a, b \in durable'[t] \ {NoOwner} : a = b
  PROVE  Chains'
<1>1. ASSUME NEW t \in Sessions
      PROVE  DataOf(t)'
  <2>1. Stored(t)' = durable'[t]
    BY DEF Stored
  <2> QED
    BY <2>1 DEF DataOf
<1>2. Marked' /\ ResetsKeep' /\ GlobalKeeps' /\ TimerSparesRestored'
  BY DEF Marked, ResetsKeep, GlobalKeeps, TimerSparesRestored, In
<1> QED
  BY <1>1, <1>2 DEF Chains

LEMMA FreshStarts ==
  ASSUME IInv, Restart \/ \E r \in Requests : FinishGlobalReset(r)
  PROVE  Chains'
<1> USE DEF IInv
<1>1. CASE Restart
  <2>1. /\ history' = Backed /\ durable' = Backed /\ live' = RestoredFrom(Backed)
        /\ expired' = [t \in Sessions |-> Unmarked] /\ queued' = [t \in Sessions |-> {}]
        /\ requests' = [q \in Requests |-> NoRequest]
    BY <1>1 DEF Restart
  <2>2. \A t \in Sessions : \A a, b \in Backed[t] \ {NoOwner} : a = b
    BY <2>1, RestoredSession, OneOwner DEF Stored, Remains
  <2> QED
    BY <2>1, <2>2, RestoredSession, NoRequestIsRequest, FreshStart DEF Resets
<1>2. ASSUME NEW r \in Requests, FinishGlobalReset(r)
      PROVE  Chains'
  <2>1. /\ history' = [t \in Sessions |-> {}] /\ durable' = durable
        /\ live' = [t \in Sessions |-> Absent]
        /\ expired' = [t \in Sessions |-> Unmarked] /\ queued' = [t \in Sessions |-> {}]
        /\ In(r, {"global"}, "cleared") /\ Ended(r)
    BY <1>2 DEF FinishGlobalReset
  <2>2. \A t \in Sessions : durable[t] = {}
    BY <2>1 DEF Chains, GlobalKeeps
  <2>3. /\ \A q \in Requests \ {r} : requests'[q] = requests[q]
        /\ requests'[r].kind = "none" /\ requests'[r].stage = "idle"
    BY <2>1, Ends
  <2>4. \A q \in Requests \ {r} : ~Claims(q) /\ requests[q].kind # "global"
    BY <2>1 DEF In, Exclusive, Waited, PhasesOwned
  <2>5. \A q \in Requests \ {r} : requests[q].stage # "cleared" /\ requests[q].kind \notin Resets
    BY <2>4, Deleting DEF Claims
  <2>6. ~\E q \in Requests : requests'[q].kind = "global" \/ requests'[q].kind \in Resets
                             \/ requests'[q].stage = "cleared"
    BY <2>3, <2>4, <2>5 DEF Resets
  <2>7. ASSUME NEW t \in Sessions
        PROVE  DataOf(t)' /\ expired'[t] = Unmarked /\ live'[t] = Absent
    BY <2>1, <2>2 DEF DataOf, Stored
  <2>8. Marked' /\ ResetsKeep' /\ GlobalKeeps' /\ TimerSparesRestored'
    BY <2>6, <2>7 DEF Marked, ResetsKeep, GlobalKeeps, TimerSparesRestored, In
  <2> QED
    BY <2>7, <2>8 DEF Chains
<1> QED
  BY <1>1, <1>2

-----------------------------------------------------------------------------
(* What remains of deleted chains.                                          *)

\* A session whose owner and marker do not change: what remains may have come from its queue.
LEMMA RemainsAged ==
  ASSUME NEW t \in Sessions, DataOf(t), RemainsOf(t),
         live'[t] = live[t], expired'[t] = expired[t] \/ live[t] # Absent,
         Remains(t)' \subseteq Remains(t) \cup queued[t], queued'[t] \subseteq queued[t]
  PROVE  RemainsOf(t)'
<1>1. queued[t] \subseteq Stored(t)
  BY DEF Stored
<1>2. CASE live[t] = Absent
  BY <1>1, <1>2 DEF DataOf, RemainsOf
<1>3. CASE live[t] # Absent /\ ~live[t].restored
  BY <1>1, <1>3 DEF DataOf, RemainsOf
<1>4. CASE live[t] # Absent /\ live[t].restored
  BY <1>4 DEF RemainsOf
<1> QED
  BY <1>2, <1>3, <1>4

\* A session that is evicted, or that o reads or continues.
LEMMA RemainsMoved ==
  ASSUME Typed, NEW t \in Sessions, RemainsOf(t), Remains(t)' = Remains(t), NEW o \in Writers,
         \/ /\ live[t] # Absent /\ ~live[t].restored
            /\ live'[t] = Absent /\ expired'[t] = live[t].owner
         \/ /\ Authorized(t, o) /\ queued'[t] \subseteq queued[t] \cup {o}
            /\ live[t] = Absent => live'[t] = Fresh(o)
            /\ live[t] # Absent => live'[t] = Bound(t, o)
  PROVE  RemainsOf(t)'
<1>1. CASE /\ live[t] # Absent /\ ~live[t].restored
           /\ live'[t] = Absent /\ expired'[t] = live[t].owner
  <2>1. live[t].owner # Unmarked
    BY <1>1, NewSessions DEF Typed, Session
  <2> QED
    BY <1>1, <2>1 DEF RemainsOf
<1>2. CASE /\ Authorized(t, o) /\ queued'[t] \subseteq queued[t] \cup {o}
           /\ live[t] = Absent => live'[t] = Fresh(o)
           /\ live[t] # Absent => live'[t] = Bound(t, o)
  <2>1. expired[t] = Unmarked
    BY <1>2 DEF Authorized
  <2>2. CASE live[t] = Absent
    <3>1. Remains(t) = {}
      BY <2>1, <2>2 DEF RemainsOf
    <3>2. live'[t] # Absent /\ ~live'[t].restored
      BY <1>2, <2>2, NewSessions
    <3> QED
      BY <3>1, <3>2 DEF RemainsOf
  <2>3. CASE live[t] # Absent
    <3>1. /\ live'[t] # Absent /\ live'[t].restored = live[t].restored
          /\ live'[t].owner = IF live[t].owner = NoOwner /\ ~live[t].restored THEN o ELSE live[t].owner
      BY <1>2, <2>3, BoundFacts, NewSessions
    <3>2. o # NoOwner => ~live[t].restored
      BY <1>2, <2>3 DEF Authorized, ResetAuthorized
    <3> QED
      BY <1>2, <2>3, <3>1, <3>2 DEF RemainsOf
  <2> QED
    BY <2>2, <2>3
<1> QED
  BY <1>1, <1>2

\* A step that leaves each request that resets alone, or moves it without adding to what
\* it leaves behind.
LEMMA RelicsFrame ==
  ASSUME IInv, \A t \in Sessions : RemainsOf(t)',
         \A t \in Sessions : leftover'[t] # {} =>
           \/ leftover[t] # {} /\ (phase[t] \in {"resetting", "reset_failed"} =>
                                     phase'[t] \in {"resetting", "reset_failed"})
           \/ phase'[t] = "resetting" \/ \E q \in Requests : In(q, {"global"}, "cleared")',
         \A q \in Requests : In(q, {"global"}, "cleared") => requests'[q] = requests[q],
         \A q \in Requests : requests'[q] # requests[q] =>
           /\ requests'[q].kind \in Resets => Leaves(q, requests[q].session)'
           /\ In(q, {"global"}, "cleared")' =>
                \A t \in Sessions : (late[t] = {} /\ revived[t] = {} /\ (leftover[t] = {} \/ t \in stuck))',
         \A q \in Requests, t \in Sessions :
           /\ requests'[q] = requests[q]
           /\ requests[q].kind \in Resets /\ requests[q].session = t
           /\ requests[q].stage \in {"draining", "cleared", "replaced"}
           => /\ (Remains(t) \cup queued[t])' \subseteq Remains(t) \cup queued[t]
              /\ leftover'[t] \subseteq leftover[t],
         \A q \in Requests, t \in Sessions : In(q, {"global"}, "cleared") =>
           /\ late'[t] \subseteq late[t] /\ revived'[t] \subseteq revived[t]
           /\ leftover'[t] \subseteq leftover[t] /\ (t \in stuck => t \in stuck')
  PROVE  Relics'
<1> USE DEF IInv
<1>1. ASSUME NEW t \in Sessions
      PROVE  LeftoverClosed(t)'
  <2>1. CASE ~\E q \in Requests : In(q, {"global"}, "cleared")
    BY <2>1 DEF Relics, LeftoverClosed
  <2>2. ASSUME NEW q \in Requests, In(q, {"global"}, "cleared")
        PROVE  LeftoverClosed(t)'
    <3>1. In(q, {"global"}, "cleared")'
      BY <2>2 DEF In
    <3> QED
      BY <3>1 DEF LeftoverClosed
  <2> QED
    BY <2>1, <2>2
<1>2. ResetsLeave'
  <2> SUFFICES ASSUME NEW q \in Requests, NEW t \in Sessions,
                      requests'[q].kind \in Resets, requests'[q].session = t
               PROVE  Leaves(q, t)'
    BY DEF ResetsLeave
  <2>1. CASE requests'[q] = requests[q]
    <3>1. Leaves(q, t)
      BY <2>1 DEF Relics, ResetsLeave
    <3>2. requests[q].stage \in {"draining", "cleared", "replaced"} =>
            /\ (Remains(t) \cup queued[t])' \subseteq Remains(t) \cup queued[t]
            /\ leftover'[t] \subseteq leftover[t]
      BY <2>1
    <3> QED
      BY <2>1, <3>1, <3>2 DEF Leaves
  <2>2. CASE requests'[q] # requests[q]
    BY <2>2
  <2> QED
    BY <2>1, <2>2
<1>3. GlobalForgets'
  <2> SUFFICES ASSUME NEW q \in Requests, In(q, {"global"}, "cleared")', NEW t \in Sessions
               PROVE  (late[t] = {} /\ revived[t] = {} /\ (leftover[t] = {} \/ t \in stuck))'
    BY DEF GlobalForgets
  <2>1. CASE requests'[q] # requests[q]
    BY <2>1
  <2>2. CASE requests'[q] = requests[q]
    <3>1. In(q, {"global"}, "cleared")
      BY <2>2 DEF In
    <3> QED
      BY <3>1 DEF Relics, GlobalForgets
  <2> QED
    BY <2>1, <2>2
<1> QED
  BY <1>1, <1>2, <1>3 DEF Relics

\* While a global reset has deleted everything, no other maintenance is under way.
LEMMA GlobalAlone ==
  ASSUME Exclusive, NEW q \in Requests, In(q, {"global"}, "cleared"), NEW r \in Requests
  PROVE  /\ ~Claims(r) /\ requests[r].kind # "thought"
         /\ globalPhase = "resetting" /\ requests[r].kind = "global" => r = q
BY DEF Exclusive, Waited, PhasesOwned, In

\* The steps that move a request and leave the sessions and the buffer's work alone.
LEMMA RelicsQuiet ==
  ASSUME IInv, NEW r \in Requests,
         \/ Begin(r)
         \/ RejectThought(r) \/ PlanReset(r) \/ FailReset(r)
         \/ ClaimEviction(r) \/ DrainEviction(r) \/ FailEviction(r)
         \/ DrainAll(r) \/ FailGlobalReset(r)
  PROVE  Relics'
<1> USE DEF IInv
<1> DEFINE s == requests[r].session
<1>1. /\ UNCHANGED <<live, queued, leftover, late, revived>>
      /\ expired' = expired \/ (FailReset(r) /\ requests[r].stage = "replaced"
                                /\ expired' = [expired EXCEPT ![s] = Unmarked])
  <2>1. CASE Begin(r)
    BY <2>1 DEF Begin, BeginGlobalReset, PlanEviction, BeginThought, BeginReset,
                sessionVars, bufferVars, remainsVars
  <2>2. CASE FailReset(r)
    BY <2>2 DEF FailReset, bufferVars, remainsVars
  <2>3. CASE PlanReset(r) \/ DrainEviction(r) \/ DrainAll(r)
    BY <2>3 DEF PlanReset, DrainEviction, DrainAll, sessionVars, remainsVars
  <2>4. CASE RejectThought(r) \/ ClaimEviction(r) \/ FailEviction(r) \/ FailGlobalReset(r)
    BY <2>4 DEF RejectThought, ClaimEviction, FailEviction, FailGlobalReset,
                sessionVars, bufferVars, remainsVars
  <2> QED
    BY <2>1, <2>2, <2>3, <2>4
<1>2. ASSUME NEW t \in Sessions
      PROVE  RemainsOf(t)'
  <2>1. expired'[t] = expired[t] \/ live[t] # Absent
    <3>1. CASE FailReset(r) /\ requests[r].stage = "replaced" /\ t = s
      BY <3>1 DEF FailReset, Chains, ResetsKeep, Keeps
    <3>2. CASE ~(FailReset(r) /\ requests[r].stage = "replaced" /\ t = s)
      BY <1>1, <3>2 DEF Typed
    <3> QED
      BY <3>1, <3>2
  <2>2. Remains(t)' = Remains(t)
    BY <1>1 DEF Remains
  <2> QED
    BY <1>1, <2>1, <2>2, RemainsAged DEF Chains, Relics
<1>3. /\ \A q \in Requests \ {r} : requests'[q] = requests[q]
      /\ ~In(r, {"global"}, "cleared") /\ ~In(r, {"global"}, "cleared")'
      /\ requests'[r].kind \in Resets => requests'[r].stage = "claimed" \/ PlanReset(r)
      /\ stuck' = stuck \/ Claims(r) \/ requests[r].kind = "global"
      /\ \A t \in Sessions : phase[t] \in {"resetting", "reset_failed"} =>
                               phase'[t] \in {"resetting", "reset_failed"}
  <2>1. CASE Begin(r)
    <3>1. /\ requests[r] = NoRequest
          /\ \A q \in Requests \ {r} : requests'[q] = requests[q]
          /\ requests'[r].stage \in {"planned", "admitted", "claimed"}
          /\ requests'[r].kind \in Resets => requests'[r].stage = "claimed"
      <4>1. NoOwner \in Writers
        BY NewSessions
      <4>2. CASE BeginGlobalReset(r)
        BY <4>1, <4>2, Starts DEF BeginGlobalReset
      <4>3. ASSUME NEW t \in Sessions, PlanEviction(r, t)
            PROVE  <3>1!:
        BY <4>1, <4>3, Starts DEF PlanEviction, Resets, Maintenance
      <4>4. ASSUME NEW t \in Sessions, NEW o \in Writers, BeginThought(r, t, o)
            PROVE  <3>1!:
        BY <4>4, Starts DEF BeginThought, Resets
      <4>5. ASSUME NEW t \in Sessions, NEW o \in Writers, NEW k \in Resets, BeginReset(r, t, o, k)
            PROVE  <3>1!:
        BY <4>5, Starts DEF BeginReset, Maintenance
      <4> QED
        BY <2>1, <4>2, <4>3, <4>4, <4>5 DEF Begin
    <3>2. stuck' = stuck /\ (phase' = phase \/ \E t \in Sessions : phase' = [phase EXCEPT ![t] = "resetting"])
      BY <2>1 DEF Begin, BeginGlobalReset, PlanEviction, BeginThought, BeginReset, bufferVars
    <3> QED
      BY <3>1, <3>2, NoRequestIsRequest DEF In, Typed
  <2>2. CASE RejectThought(r) \/ FailGlobalReset(r)
    <3>1. /\ Ended(r) /\ UNCHANGED <<stuck, phase>>
          /\ requests[r].stage \in {"admitted", "draining"}
      BY <2>2 DEF RejectThought, FailGlobalReset, bufferVars, In
    <3> QED
      BY <3>1, Ends DEF In, Resets
  <2>3. CASE PlanReset(r)
    <3>1. /\ requests[r].kind \in Resets /\ requests[r].stage = "claimed" /\ phase' = phase
          /\ \A q \in Requests \ {r} : requests'[q] = requests[q]
          /\ requests'[r].stage = "draining"
      BY <2>3 DEF PlanReset, In, Typed, Request
    <3> QED
      BY <2>3, <3>1 DEF In, Claims
  <2>4. CASE FailReset(r)
    <3>1. /\ Ended(r) /\ stuck' = stuck /\ requests[r].kind \in Resets
          /\ phase' = [phase EXCEPT ![s] = "reset_failed"]
      BY <2>4 DEF FailReset, bufferVars
    <3> QED
      BY <3>1, Ends DEF In, Resets, Typed
  <2>5. CASE ClaimEviction(r)
    <3>1. /\ Ended(r) \/ Moved(r, "claimed")
          /\ stuck' = stuck /\ requests[r].kind = "evict"
          /\ phase' = phase \/ (phase[s] = "open" /\ phase' = [phase EXCEPT ![s] = "evicting"])
      BY <2>5 DEF ClaimEviction, In, bufferVars
    <3> QED
      BY <3>1, Ends, Moves DEF In, Resets, Typed
  <2>6. CASE DrainEviction(r) \/ DrainAll(r)
    <3>1. /\ Moved(r, "draining") /\ phase' = phase /\ requests[r].stage = "claimed"
          /\ requests[r].kind \in {"evict", "global"}
      BY <2>6 DEF DrainEviction, DrainAll, In
    <3> QED
      BY <3>1, Moves DEF In, Resets, Claims
  <2>7. CASE FailEviction(r)
    <3>1. /\ Ended(r) /\ stuck' = stuck /\ requests[r].kind = "evict" /\ Claims(r)
          /\ phase' = [phase EXCEPT ![s] = "eviction_failed"]
      BY <2>7 DEF FailEviction, In, bufferVars, Claims
    <3>2. phase[s] = "evicting"
      BY <3>1 DEF Exclusive, PhasesOwned
    <3> QED
      BY <3>1, <3>2, Ends DEF In, Resets, Typed
  <2> QED
    BY <2>1, <2>2, <2>3, <2>4, <2>5, <2>6, <2>7
<1>4. PlanReset(r) => Leaves(r, s)' /\ requests'[r].session = s
  <2> SUFFICES ASSUME PlanReset(r)
               PROVE  Leaves(r, s)' /\ requests'[r].session = s
    OBVIOUS
  <2> DEFINE o == requests[r].owner
  <2>1. /\ requests[r].kind \in Resets /\ requests[r].stage = "claimed"
        /\ requests' = [requests EXCEPT ![r].stage = "draining", ![r].preserved = Preserved(s, o)]
    BY DEF PlanReset, In
  <2>2. s \in Sessions
    BY <2>1 DEF Exclusive, Kinds, Maintenance
  <2>3. requests'[r].session = s /\ requests'[r].stage = "draining" /\ requests'[r].preserved = Preserved(s, o)
    BY <2>1 DEF Typed, Request
  <2>4. Remains(s) \cup queued[s] \subseteq {Preserved(s, o), NoOwner}
    <3>1. DataOf(s) /\ RemainsOf(s) /\ queued[s] \subseteq Stored(s)
      BY <2>2 DEF Chains, Relics, Stored
    <3>2. CASE live[s] = Absent
      BY <3>1, <3>2 DEF DataOf, RemainsOf, Preserved, FormerOwner
    <3>3. CASE live[s] # Absent /\ live[s].restored
      BY <3>1, <3>3 DEF RemainsOf
    <3>4. CASE live[s] # Absent /\ ~live[s].restored
      <4>1. expired[s] = Unmarked
        <5>1. \A q \in Requests : In(q, Resets, "replaced") => requests[q].session # s
          BY <2>1 DEF Exclusive, PhasesOwned, Claims, In
        <5> QED
          BY <2>2, <3>4, <5>1 DEF Chains, Marked
      <4> QED
        BY <3>1, <3>4, <4>1 DEF DataOf, RemainsOf, Preserved, FormerOwner
    <3> QED
      BY <3>2, <3>3, <3>4
  <2>5. (Remains(s) \cup queued[s])' = Remains(s) \cup queued[s]
    BY <1>1, <2>2, <2>3 DEF Remains
  <2> QED
    BY <2>3, <2>4, <2>5 DEF Leaves
<1>5. requests'[r].kind \in Resets => Leaves(r, requests[r].session)'
  <2>1. requests'[r].stage = "claimed" => Leaves(r, requests[r].session)'
    BY DEF Leaves
  <2> QED
    BY <1>3, <1>4, <2>1
<1>6. ASSUME NEW q \in Requests, In(q, {"global"}, "cleared")
      PROVE  stuck' = stuck /\ q # r
  BY <1>3, <1>6, GlobalAlone DEF Exclusive, PhasesOwned, In
<1>7. \A t \in Sessions : Remains(t)' = Remains(t)
  BY <1>1 DEF Remains
<1> QED
  BY <1>1, <1>2, <1>3, <1>5, <1>6, <1>7, RelicsFrame

\* A thought that is committed (W = {o}), or a read (W = {}).
LEMMA RelicsAccess ==
  ASSUME IInv, NEW s \in Sessions, NEW o \in Writers, NEW W \in SUBSET {o},
         Authorized(s, o), Access(s, o, W), UNCHANGED <<leftover, late, revived, stuck, phase>>,
         queued'[s] = queued[s] \cup W, \A t \in Sessions \ {s} : queued'[t] = queued[t],
         \A q \in Requests : requests'[q] # requests[q] =>
           requests[q].kind = "thought" /\ requests'[q] = NoRequest,
         W # {} => \E q \in Requests : requests[q].kind = "thought" /\ requests[q].session = s
  PROVE  Relics'
<1> USE DEF IInv
<1>1. \A t \in Sessions : Remains(t)' = Remains(t)
  BY DEF Remains
<1>2. ASSUME NEW t \in Sessions
      PROVE  RemainsOf(t)'
  <2>1. W \in SUBSET Writers /\ DataOf(t) /\ RemainsOf(t)
    BY DEF Chains, Relics
  <2>2. CASE t = s
    <3>1. /\ live[s] = Absent => live'[s] = Fresh(o)
          /\ live[s] # Absent => live'[s] = Bound(s, o)
          /\ queued'[s] \subseteq queued[s] \cup {o}
      BY <2>1, AccessEffect
    <3> QED
      BY <1>1, <2>1, <2>2, <3>1, RemainsMoved
  <2>3. CASE t # s
    <3>1. \/ live'[t] = live[t] /\ expired'[t] = expired[t]
          \/ /\ live[t] # Absent /\ ~live[t].restored
             /\ live'[t] = Absent /\ expired'[t] = live[t].owner
      BY <2>1, <2>3, AccessEffect
    <3>2. CASE live'[t] = live[t] /\ expired'[t] = expired[t]
      BY <1>1, <2>1, <2>3, <3>2, RemainsAged
    <3>3. CASE /\ live[t] # Absent /\ ~live[t].restored
               /\ live'[t] = Absent /\ expired'[t] = live[t].owner
      BY <1>1, <2>1, <3>3, RemainsMoved
    <3> QED
      BY <3>1, <3>2, <3>3
  <2> QED
    BY <2>2, <2>3
<1>3. ASSUME NEW q \in Requests, requests'[q] # requests[q]
      PROVE  /\ requests'[q].kind \notin Resets /\ ~In(q, {"global"}, "cleared")
             /\ ~In(q, {"global"}, "cleared")'
  BY <1>3, NoRequestIsRequest DEF In, Resets
<1>4. ASSUME NEW q \in Requests, NEW t \in Sessions, requests[q].kind \in Resets,
             requests[q].session = t, requests[q].stage \in {"draining", "cleared", "replaced"}
      PROVE  queued'[t] = queued[t]
  <2>1. t = s => W = {}
    BY <1>4 DEF Exclusive, Waited, Claims
  <2> QED
    BY <2>1
<1> QED
  BY <1>1, <1>2, <1>3, <1>4, RelicsFrame

\* The durable half of a reset, of one session or of all: what the queue still holds
\* remains of a deleted chain.
LEMMA RelicsErasure ==
  ASSUME IInv, NEW r \in Requests, ClearDurable(r) \/ ClearAllDurable(r)
  PROVE  Relics'
<1> USE DEF IInv
<1> DEFINE s == requests[r].session
<1>1. /\ UNCHANGED <<live, expired, stuck, late, phase>> /\ Moved(r, "cleared")
      /\ requests[r].stage = "draining" /\ requests[r].kind \in {"global"} \cup Resets
  BY DEF ClearDurable, ClearAllDurable, In, sessionVars, Resets
<1>2. /\ \A q \in Requests \ {r} : requests'[q] = requests[q]
      /\ requests'[r].kind = requests[r].kind /\ requests'[r].session = s
      /\ requests'[r].preserved = requests[r].preserved /\ requests'[r].stage = "cleared"
  BY <1>1, Moves
<1>3. \A t \in Sessions :
        /\ Remains(t)' \subseteq Remains(t) \cup queued[t] /\ queued'[t] \subseteq queued[t]
        /\ leftover'[t] = leftover[t] \/ requests[r].kind = "global" \/ t = s
  <2>1. CASE ClearAllDurable(r)
    BY <2>1 DEF ClearAllDurable, Backlog, Remains, In
  <2>2. CASE ClearDurable(r)
    BY <2>2 DEF ClearDurable, Backlog, Remains, Typed
  <2> QED
    BY <2>1, <2>2
<1>4. ASSUME NEW t \in Sessions
      PROVE  RemainsOf(t)'
  BY <1>1, <1>3, RemainsAged DEF Chains, Relics
<1>5. requests[r].kind \in Resets => s \in Sessions /\ Claims(r) /\ phase[s] = "resetting"
  BY DEF Exclusive, Kinds, PhasesOwned, Claims, Maintenance
<1>6. requests[r].kind = "global" =>
        \A t \in Sessions : (late[t] = {} /\ revived[t] = {} /\ (leftover[t] = {} \/ t \in stuck))'
  BY DEF ClearAllDurable, ClearDurable, In, Resets, Settled, Backlog
<1>7. requests[r].kind \in Resets => Leaves(r, s)'
  <2>1. requests[r].kind \in Resets =>
          Remains(s) \cup queued[s] \subseteq {requests[r].preserved, NoOwner}
    BY <1>1, <1>5 DEF Relics, ResetsLeave, Leaves
  <2> QED
    BY <1>2, <1>3, <1>5, <2>1 DEF Leaves
<1>8. ASSUME NEW q \in Requests
      PROVE  ~In(q, {"global"}, "cleared")
  BY <1>1, <1>5, GlobalAlone DEF Exclusive, PhasesOwned, In
<1>9. ASSUME NEW q \in Requests \ {r}, requests[q].kind \in Resets,
             requests[q].stage \in {"draining", "cleared", "replaced"}
      PROVE  requests[r].kind # "global" /\ requests[q].session # s
  BY <1>1, <1>5, <1>9 DEF Exclusive, Waited, PhasesOwned, Claims
<1>10. ASSUME NEW t \in Sessions, leftover'[t] # {}
       PROVE  \/ leftover[t] # {} /\ phase'[t] = phase[t]
              \/ phase'[t] = "resetting" \/ \E q \in Requests : In(q, {"global"}, "cleared")'
  BY <1>1, <1>2, <1>3, <1>5, <1>10 DEF In
<1>11. ASSUME NEW q \in Requests, requests'[q] # requests[q]
       PROVE  /\ requests'[q].kind \in Resets => Leaves(q, requests[q].session)'
              /\ In(q, {"global"}, "cleared")' =>
                   \A t \in Sessions : (late[t] = {} /\ revived[t] = {} /\ (leftover[t] = {} \/ t \in stuck))'
  BY <1>2, <1>6, <1>7, <1>11 DEF In
<1>12. ASSUME NEW q \in Requests, NEW t \in Sessions, requests'[q] = requests[q],
              requests[q].kind \in Resets, requests[q].session = t,
              requests[q].stage \in {"draining", "cleared", "replaced"}
       PROVE  /\ (Remains(t) \cup queued[t])' \subseteq Remains(t) \cup queued[t]
              /\ leftover'[t] \subseteq leftover[t]
  BY <1>1, <1>2, <1>3, <1>9, <1>12
<1> QED
  BY <1>1, <1>4, <1>8, <1>10, <1>11, <1>12, RelicsFrame

\* A reset that replaces the live session, and one that ends.
LEMMA RelicsReset ==
  ASSUME IInv, NEW r \in Requests, Replace(r) \/ FinishReset(r)
  PROVE  Relics'
<1> USE DEF IInv
<1>0. PICK s, p, o : s = requests[r].session /\ p = requests[r].preserved /\ o = requests[r].owner
  OBVIOUS
<1>1. /\ s \in Sessions /\ p \in Writers /\ o \in Writers /\ Claims(r)
      /\ requests[r].kind \in Resets /\ Leaves(r, s)
  BY <1>0 DEF Replace, FinishReset, In, Exclusive, Kinds, Maintenance, Typed, Request, Claims,
              Relics, ResetsLeave
<1>2. ASSUME NEW q \in Requests
      PROVE  ~In(q, {"global"}, "cleared")
  BY <1>1, GlobalAlone
<1>3. ASSUME NEW q \in Requests \ {r}, requests[q].kind \in Resets
      PROVE  requests[q].session # s
  BY <1>0, <1>1, <1>3 DEF Exclusive, PhasesOwned, Claims
<1>4. CASE Replace(r)
  <2>1. /\ live'[s] = Fresh(p) /\ queued'[s] = {} /\ leftover'[s] = {}
        /\ late'[s] \subseteq late[s] \cup leftover[s] /\ requests[r].stage = "cleared"
        /\ \A t \in Sessions \ {s} :
             /\ queued'[t] = queued[t] /\ leftover'[t] = leftover[t] /\ late'[t] = late[t]
             /\ \/ live'[t] = live[t] /\ expired'[t] = expired[t]
                \/ /\ live[t] # Absent /\ ~live[t].restored
                   /\ live'[t] = Absent /\ expired'[t] = live[t].owner
    BY <1>0, <1>4, ReplaceEffect
  <2>2. UNCHANGED <<revived, phase>> /\ Moved(r, "replaced")
    BY <1>4 DEF Replace
  <2>3. /\ \A q \in Requests \ {r} : requests'[q] = requests[q]
        /\ requests'[r].kind = requests[r].kind /\ requests'[r].session = s
        /\ requests'[r].stage = "replaced"
    BY <1>0, <2>2, Moves
  <2>4. \A t \in Sessions \ {s} : Remains(t)' = Remains(t)
    BY <2>1, <2>2 DEF Remains
  <2>5. RemainsOf(s)'
    <3>1. Remains(s)' \subseteq Remains(s) /\ Remains(s) \subseteq {p, NoOwner}
      BY <1>0, <1>1, <2>1, <2>2 DEF Remains, Leaves
    <3>2. live'[s] # Absent /\ ~live'[s].restored /\ live'[s].owner = p
      BY <1>1, <2>1, NewSessions
    <3> QED
      BY <3>1, <3>2 DEF RemainsOf
  <2>6. ASSUME NEW t \in Sessions \ {s}
        PROVE  RemainsOf(t)'
    <3>1. CASE live'[t] = live[t] /\ expired'[t] = expired[t]
      BY <2>1, <2>4, <3>1, RemainsAged DEF Chains, Relics
    <3>2. CASE /\ live[t] # Absent /\ ~live[t].restored
               /\ live'[t] = Absent /\ expired'[t] = live[t].owner
      BY <1>1, <2>4, <3>2, RemainsMoved DEF Relics
    <3> QED
      BY <2>1, <3>1, <3>2
  <2>7. Leaves(r, s)'
    BY <2>1, <2>3 DEF Leaves
  <2>8. ASSUME NEW q \in Requests, requests'[q] # requests[q]
        PROVE  /\ requests'[q].kind \in Resets => Leaves(q, requests[q].session)'
               /\ ~In(q, {"global"}, "cleared")'
    BY <1>1, <2>3, <2>7, <2>8 DEF In, Resets
  <2>9. ASSUME NEW q \in Requests, NEW t \in Sessions, requests'[q] = requests[q],
               requests[q].kind \in Resets, requests[q].session = t
        PROVE  /\ (Remains(t) \cup queued[t])' \subseteq Remains(t) \cup queued[t]
               /\ leftover'[t] \subseteq leftover[t]
    <3>1. q # r
      BY <2>1, <2>3, <2>9
    <3> QED
      BY <1>3, <2>1, <2>4, <2>9, <3>1
  <2>10. ASSUME NEW t \in Sessions, leftover'[t] # {}
         PROVE  leftover[t] # {} /\ phase'[t] = phase[t]
    BY <2>1, <2>2, <2>10
  <2> QED
    BY <1>2, <2>5, <2>6, <2>8, <2>9, <2>10, RelicsFrame
<1>5. CASE FinishReset(r)
  <2>1. /\ requests[r].stage = "replaced" /\ live[s] # Absent
        /\ \/ live'[s] = live[s] /\ queued'[s] = queued[s]
           \/ live'[s] = Bound(s, o)
        /\ \A t \in Sessions \ {s} : /\ live'[t] = live[t] /\ expired'[t] = expired[t]
                                     /\ queued'[t] = queued[t]
    <3>1. Typed /\ Exclusive /\ Chains
      OBVIOUS
    <3> HIDE DEF IInv
    <3> QED
      BY <1>0, <1>5, <3>1, FinishEffect
  <2>2. /\ UNCHANGED <<leftover, late, revived, stuck>> /\ Ended(r)
        /\ phase' = [phase EXCEPT ![s] = "open"]
    BY <1>0, <1>5 DEF FinishReset, remainsVars
  <2>3. requests'[r].kind = "none" /\ \A q \in Requests \ {r} : requests'[q] = requests[q]
    BY <2>2, Ends
  <2>4. \A t \in Sessions : Remains(t)' = Remains(t)
    BY <2>2 DEF Remains
  <2>5. leftover[s] = {} /\ ~live[s].restored
    BY <1>0, <1>1, <2>1 DEF Leaves, Chains, ResetsKeep, Keeps
  <2>6. RemainsOf(s)'
    <3>1. CASE live'[s] = live[s]
      BY <1>1, <2>1, <2>4, <2>5, <3>1 DEF Relics, RemainsOf
    <3>2. CASE live'[s] = Bound(s, o)
      <4>1. /\ live'[s] # Absent /\ live'[s].restored = live[s].restored
            /\ live'[s].owner = IF live[s].owner = NoOwner /\ ~live[s].restored THEN o ELSE live[s].owner
        BY <1>1, <2>1, <3>2, BoundFacts, NewSessions
      <4>2. Remains(s) \subseteq {live[s].owner, NoOwner}
        BY <1>1, <2>1, <2>5 DEF Relics, RemainsOf
      <4> QED
        BY <1>1, <2>4, <2>5, <4>1, <4>2 DEF RemainsOf
    <3> QED
      BY <2>1, <3>1, <3>2
  <2>7. ASSUME NEW t \in Sessions \ {s}
        PROVE  RemainsOf(t)'
    BY <2>1, <2>4, RemainsAged DEF Chains, Relics
  <2>8. ASSUME NEW q \in Requests, requests'[q] # requests[q]
        PROVE  requests'[q].kind \notin Resets /\ ~In(q, {"global"}, "cleared")'
    BY <2>3, <2>8 DEF In, Resets
  <2>9. ASSUME NEW q \in Requests, NEW t \in Sessions, requests'[q] = requests[q],
               requests[q].kind \in Resets, requests[q].session = t
        PROVE  (Remains(t) \cup queued[t])' \subseteq Remains(t) \cup queued[t]
    <3>1. q # r
      BY <2>3, <2>9 DEF Resets
    <3> QED
      BY <1>3, <2>1, <2>4, <2>9, <3>1
  <2>10. ASSUME NEW t \in Sessions, leftover'[t] # {}
         PROVE  leftover[t] # {} /\ phase'[t] = phase[t]
    BY <2>2, <2>5, <2>10 DEF Typed
  <2> QED
    BY <1>2, <2>2, <2>6, <2>7, <2>8, <2>9, <2>10, RelicsFrame
<1> QED
  BY <1>4, <1>5

\* The end of a TTL eviction.
LEMMA RelicsEvict ==
  ASSUME IInv, NEW r \in Requests, Evict(r)
  PROVE  Relics'
<1> USE DEF IInv
<1>0. PICK s : s = requests[r].session
  OBVIOUS
<1>1. /\ s \in Sessions /\ requests[r].kind = "evict" /\ requests[r].stage = "draining"
      /\ live'[s] = Absent
      /\ expired'[s] = IF live[s] # Absent THEN live[s].owner ELSE expired[s]
      /\ \A t \in Sessions \ {s} : live'[t] = live[t] /\ expired'[t] = expired[t]
  BY <1>0, EvictEffect
<1>2. /\ UNCHANGED <<queued, leftover, late, revived, stuck>> /\ Ended(r)
      /\ phase' = [phase EXCEPT ![s] = "open"] /\ leftover[s] = {}
  BY <1>0 DEF Evict, Quiescent, Backlog, bufferVars, remainsVars
<1>3. /\ requests'[r].kind = "none" /\ \A q \in Requests \ {r} : requests'[q] = requests[q]
      /\ Claims(r)
  BY <1>1, <1>2, Ends DEF Claims
<1>4. \A t \in Sessions : Remains(t)' = Remains(t)
  BY <1>2 DEF Remains
<1>5. ASSUME NEW t \in Sessions
      PROVE  RemainsOf(t)'
  <2>1. CASE t = s /\ live[s] # Absent
    <3>1. ~live[s].restored
      BY <1>0, <1>1, <2>1 DEF Chains, TimerSparesRestored
    <3>2. NoOwner \in Writers
      BY NewSessions
    <3> QED
      BY <1>1, <1>4, <2>1, <3>1, <3>2, RemainsMoved DEF Relics
  <2>2. CASE t # s \/ live[s] = Absent
    BY <1>1, <1>2, <1>4, <2>2, RemainsAged DEF Chains, Relics
  <2> QED
    BY <2>1, <2>2
<1>6. ASSUME NEW q \in Requests
      PROVE  ~In(q, {"global"}, "cleared")
  BY <1>3, GlobalAlone
<1>7. ASSUME NEW q \in Requests, requests'[q] # requests[q]
      PROVE  requests'[q].kind \notin Resets /\ ~In(q, {"global"}, "cleared")'
  BY <1>3, <1>7 DEF In, Resets
<1>8. ASSUME NEW t \in Sessions, leftover'[t] # {}
      PROVE  leftover[t] # {} /\ phase'[t] = phase[t]
  BY <1>2, <1>8 DEF Typed
<1> QED
  BY <1>2, <1>4, <1>5, <1>6, <1>7, <1>8, RelicsFrame

\* The buffer's own steps.
LEMMA RelicsBuffer ==
  ASSUME IInv, NEW s \in Sessions, Persist(s) \/ Rearm(s)
  PROVE  Relics'
<1> USE DEF IInv
<1>1. UNCHANGED <<live, expired, phase, requests>>
  BY DEF Persist, Flush, FlushFails, LateSave, Rearm, sessionVars
<1>2. \A t \in Sessions : /\ Remains(t)' \subseteq Remains(t) /\ queued'[t] \subseteq queued[t]
                          /\ leftover'[t] \subseteq leftover[t]
  <2>1. CASE Flush(s)
    <3>1. /\ queued' = [queued EXCEPT ![s] = {}] /\ leftover' = [leftover EXCEPT ![s] = {}]
          /\ revived' = [revived EXCEPT ![s] = revived[s] \cup leftover[s]] /\ late' = late
      BY <2>1 DEF Flush
    <3> QED
      BY <3>1 DEF Remains, Typed
  <2>2. CASE FlushFails(s) \/ Rearm(s)
    BY <2>2 DEF FlushFails, Rearm, remainsVars, Remains
  <2>3. CASE LateSave(s)
    <3>1. /\ UNCHANGED <<queued, leftover>> /\ late' = [late EXCEPT ![s] = {}]
          /\ revived' = revived \/ revived' = [revived EXCEPT ![s] = revived[s] \cup late[s]]
      BY <2>3 DEF LateSave
    <3> QED
      BY <3>1 DEF Remains, Typed
  <2> QED
    BY <2>1, <2>2, <2>3 DEF Persist
<1>3. ASSUME NEW t \in Sessions
      PROVE  RemainsOf(t)'
  BY <1>1, <1>2, RemainsAged DEF Chains, Relics
<1>4. ASSUME NEW q \in Requests, In(q, {"global"}, "cleared"), NEW t \in Sessions
      PROVE  UNCHANGED <<late, revived>> /\ (t \in stuck => t \in stuck')
  <2>1. queued[s] = {} /\ late[s] = {} /\ (leftover[s] = {} \/ s \in stuck)
    BY <1>4 DEF Chains, GlobalKeeps, Relics, GlobalForgets
  <2>2. ~Flush(s) /\ ~LateSave(s)
    BY <2>1 DEF Flush, LateSave, Backlog
  <2>3. ~Rearm(s)
    BY <1>4 DEF Rearm, GlobalBarred, In
  <2> QED
    BY <2>2, <2>3 DEF Persist, FlushFails, remainsVars
<1>5. \A q \in Requests : In(q, {"global"}, "cleared") => requests'[q] = requests[q]
  BY <1>1
<1> QED
  BY <1>1, <1>2, <1>3, <1>4, <1>5, RelicsFrame

\* A restart and a global reset leave nothing.
LEMMA RelicsFresh ==
  ASSUME IInv, Restart \/ \E r \in Requests : FinishGlobalReset(r),
         \A q \in Requests : requests'[q].kind \notin Resets /\ ~In(q, {"global"}, "cleared")'
  PROVE  Relics'
<1> USE DEF IInv
<1>1. \A t \in Sessions : queued'[t] = {} /\ leftover'[t] = {} /\ late'[t] = {} /\ revived'[t] = {}
  <2>1. CASE Restart
    BY <2>1 DEF Restart
  <2>2. ASSUME NEW r \in Requests, FinishGlobalReset(r)
        PROVE  <1>1
    <3>1. \A t \in Sessions : late[t] = {} /\ revived[t] = {}
      BY <2>2 DEF FinishGlobalReset, Relics, GlobalForgets
    <3> QED
      BY <2>2, <3>1 DEF FinishGlobalReset
  <2> QED
    BY <2>1, <2>2
<1>2. ASSUME NEW t \in Sessions
      PROVE  RemainsOf(t)' /\ LeftoverClosed(t)'
  BY <1>1 DEF RemainsOf, LeftoverClosed, Remains
<1>3. ResetsLeave' /\ GlobalForgets'
  BY DEF ResetsLeave, GlobalForgets
<1> QED
  BY <1>2, <1>3 DEF Relics

-----------------------------------------------------------------------------
(* The invariant.                                                           *)

LEMMA ProceedChains ==
  ASSUME IInv, Exclusive', NEW r \in Requests, Proceed(r)
  PROVE  Chains'
<1>0. Kinds'
  BY DEF Exclusive
<1>1. CASE \/ RejectThought(r) \/ PlanReset(r) \/ (FailReset(r) /\ requests[r].stage # "replaced")
           \/ ClaimEviction(r) \/ DrainEviction(r) \/ FailEviction(r)
           \/ DrainAll(r) \/ FailGlobalReset(r)
  BY <1>0, <1>1, QuietSteps
<1>2. CASE CommitThought(r)
  <2> DEFINE s == requests[r].session
             o == requests[r].owner
             W == {o}
  <2>1. /\ requests[r].kind = "thought"
        /\ Authorized(s, o) /\ Access(s, o, W) /\ Ended(r)
        /\ queued' = [queued EXCEPT ![s] = queued[s] \cup W]
        /\ durable' = durable
    BY <1>2 DEF CommitThought, In
  <2>2. s \in Sessions /\ o \in Writers /\ W \in SUBSET {o} /\ Typed
    BY <2>1 DEF IInv, Exclusive, Kinds, Typed, Request
  <2>3. queued'[s] = queued[s] \cup W /\ \A t \in Sessions \ {s} : queued'[t] = queued[t]
    BY <2>1, <2>2 DEF Typed
  <2>4. \A q \in Requests : requests'[q] # requests[q] =>
          requests[q].kind = "thought" /\ requests'[q] = NoRequest
    BY <2>1, <2>2, Ends
  <2>5. \E q \in Requests : requests[q].kind = "thought" /\ requests[q].session = s
    BY <2>1
  <2> HIDE DEF s, o, W
  <2> QED
    BY <2>1, <2>2, <2>3, <2>4, <2>5, AccessChains
<1>3. CASE ClearDurable(r) \/ ClearAllDurable(r)
  BY <1>3, ErasureChains
<1>4. CASE Replace(r)
  BY <1>4, ReplaceChains
<1>5. CASE FinishReset(r) \/ (FailReset(r) /\ requests[r].stage = "replaced")
  BY <1>5, FinishChains
<1>6. CASE Evict(r)
  BY <1>6, EvictChains
<1>7. CASE FinishGlobalReset(r)
  BY <1>7, FreshStarts
<1> QED
  BY <1>1, <1>2, <1>3, <1>4, <1>5, <1>6, <1>7 DEF Proceed

LEMMA ProceedRelics ==
  ASSUME IInv, NEW r \in Requests, Proceed(r)
  PROVE  Relics'
<1> USE DEF IInv
<1>1. CASE \/ RejectThought(r) \/ PlanReset(r) \/ FailReset(r)
           \/ ClaimEviction(r) \/ DrainEviction(r) \/ FailEviction(r)
           \/ DrainAll(r) \/ FailGlobalReset(r)
  BY <1>1, RelicsQuiet
<1>2. CASE CommitThought(r)
  <2> DEFINE s == requests[r].session
             o == requests[r].owner
             W == {o}
  <2>1. /\ requests[r].kind = "thought"
        /\ Authorized(s, o) /\ Access(s, o, W) /\ Ended(r)
        /\ queued' = [queued EXCEPT ![s] = queued[s] \cup W]
        /\ UNCHANGED <<leftover, late, revived, stuck, phase>>
    BY <1>2 DEF CommitThought, In, remainsVars
  <2>2. s \in Sessions /\ o \in Writers /\ W \in SUBSET {o}
    BY <2>1 DEF Exclusive, Kinds, Typed, Request
  <2>3. queued'[s] = queued[s] \cup W /\ \A t \in Sessions \ {s} : queued'[t] = queued[t]
    BY <2>1, <2>2 DEF Typed
  <2>4. \A q \in Requests : requests'[q] # requests[q] =>
          requests[q].kind = "thought" /\ requests'[q] = NoRequest
    BY <2>1, Ends
  <2>5. \E q \in Requests : requests[q].kind = "thought" /\ requests[q].session = s
    BY <2>1
  <2> HIDE DEF s, o, W, IInv
  <2> QED
    BY <2>1, <2>2, <2>3, <2>4, <2>5, RelicsAccess
<1>3. CASE ClearDurable(r) \/ ClearAllDurable(r)
  BY <1>3, RelicsErasure
<1>4. CASE Replace(r) \/ FinishReset(r)
  BY <1>4, RelicsReset
<1>5. CASE Evict(r)
  BY <1>5, RelicsEvict
<1>6. CASE FinishGlobalReset(r)
  <2>1. In(r, {"global"}, "cleared") /\ Ended(r)
    BY <1>6 DEF FinishGlobalReset
  <2>2. requests'[r].kind = "none" /\ \A q \in Requests \ {r} : requests'[q] = requests[q]
    BY <2>1, Ends
  <2>3. \A q \in Requests \ {r} : requests[q].kind \notin Resets /\ requests[q].kind # "global"
    BY <2>1 DEF In, Exclusive, Waited, PhasesOwned, Claims
  <2>4. \A q \in Requests : requests'[q].kind \notin Resets /\ ~In(q, {"global"}, "cleared")'
    BY <2>2, <2>3 DEF In, Resets
  <2> QED
    BY <1>6, <2>4, RelicsFresh
<1> QED
  BY <1>1, <1>2, <1>3, <1>4, <1>5, <1>6 DEF Proceed

LEMMA RelicsStep ==
  ASSUME IInv, [Next]_vars
  PROVE  Relics'
<1>1. CASE \E r \in Requests : Begin(r)
  BY <1>1, RelicsQuiet
<1>2. CASE \E r \in Requests : Proceed(r)
  BY <1>2, ProceedRelics
<1>3. CASE \E s \in Sessions : Persist(s) \/ Rearm(s)
  BY <1>3, RelicsBuffer
<1>4. ASSUME NEW s \in Sessions, NEW o \in Writers, Read(s, o)
      PROVE  Relics'
  <2>1. PICK W \in SUBSET {o} : W = {}
    OBVIOUS
  <2>2. /\ Authorized(s, o) /\ Access(s, o, W)
        /\ UNCHANGED <<queued, leftover, late, revived, stuck, phase, requests>>
    BY <1>4, <2>1 DEF Read, bufferVars, remainsVars
  <2>3. queued'[s] = queued[s] \cup W
    BY <2>1, <2>2
  <2> QED
    BY <2>1, <2>2, <2>3, RelicsAccess
<1>5. CASE Restart
  <2>1. \A q \in Requests : requests'[q] = NoRequest
    BY <1>5 DEF Restart
  <2>2. \A q \in Requests : requests'[q].kind \notin Resets /\ ~In(q, {"global"}, "cleared")'
    BY <2>1, NoRequestIsRequest DEF In, Resets
  <2> QED
    BY <1>5, <2>2, RelicsFresh
<1>6. CASE UNCHANGED vars
  BY <1>6 DEF vars, sessionVars, bufferVars, remainsVars, IInv, Relics, RemainsOf, Remains,
              LeftoverClosed, ResetsLeave, Leaves, GlobalForgets, In
<1> QED
  BY <1>1, <1>2, <1>3, <1>4, <1>5, <1>6 DEF Next

LEMMA StepInv ==
  ASSUME IInv, [Next]_vars
  PROVE  IInv'
<1>1. Typed' /\ Exclusive' /\ Relics'
  BY TypedStep, ExclusiveStep, RelicsStep DEF IInv
<1>2. Kinds'
  BY <1>1 DEF Exclusive
<1>3. CASE \E r \in Requests : Begin(r)
  BY <1>1, <1>2, <1>3, QuietSteps DEF IInv
<1>4. CASE \E r \in Requests : Proceed(r)
  BY <1>1, <1>4, ProceedChains DEF IInv
<1>5. CASE \E s \in Sessions : Persist(s) \/ Rearm(s)
  BY <1>1, <1>5, BufferChains DEF IInv
<1>6. ASSUME NEW s \in Sessions, NEW o \in Writers, Read(s, o)
      PROVE  IInv'
  <2>1. PICK W \in SUBSET {o} : W = {}
    OBVIOUS
  <2>2. /\ Authorized(s, o) /\ Access(s, o, W) /\ UNCHANGED <<queued, durable, requests>>
    BY <1>6, <2>1 DEF Read, bufferVars
  <2>3. queued'[s] = queued[s] \cup W
    BY <2>1, <2>2
  <2> QED
    BY <1>1, <2>1, <2>2, <2>3, AccessChains DEF IInv
<1>7. CASE Restart
  BY <1>1, <1>7, FreshStarts DEF IInv
<1>8. CASE UNCHANGED vars
  <2>1. UNCHANGED <<live, history, expired, queued, durable, requests>>
    BY <1>8 DEF vars, sessionVars, bufferVars
  <2> QED
    BY <1>1, <1>2, <2>1, QuietStep DEF IInv
<1> QED
  BY <1>3, <1>4, <1>5, <1>6, <1>7, <1>8 DEF Next

LEMMA InitInv ==
  ASSUME Init
  PROVE  IInv
<1>1. \A r \in Requests : requests[r] = NoRequest /\ requests[r].kind = "none"
                          /\ requests[r].stage = "idle"
  BY NoRequestIsRequest DEF Init
<1>2. Typed
  BY NoRequestIsRequest DEF Init, Typed
<1>3. Exclusive
  BY <1>1 DEF Exclusive, Kinds, PhasesOwned, Waited, Claims, Resets, Maintenance
<1>4. ASSUME NEW s \in Sessions
      PROVE  DataOf(s)
  BY DEF Init, DataOf, Stored
<1>5. Marked
  BY DEF Init, Marked
<1>6. ResetsKeep /\ GlobalKeeps /\ TimerSparesRestored
  BY <1>1 DEF ResetsKeep, GlobalKeeps, TimerSparesRestored, In, Resets
<1>7. Relics
  BY <1>1 DEF Init, Relics, RemainsOf, Remains, LeftoverClosed, ResetsLeave, GlobalForgets, In, Resets
<1> QED
  BY <1>2, <1>3, <1>4, <1>5, <1>6, <1>7 DEF IInv, Chains

\* The inductive invariant holds.  Requests and phases say who may be deleting what;
\* Chains says what a deletion that is half done, and a marker, know of a session.
THEOREM Invariance == Spec => []IInv
BY InitInv, StepInv, PTL DEF Spec

\* Every variable but recency keeps its type (sessions, markers, phases and requests).
THEOREM TypeCorrect == Spec => []Typed
<1>1. IInv => Typed
  BY DEF IInv
<1> QED
  BY <1>1, Invariance, PTL

\* A deletion under way shows in the phase of the session, or in the global one.
LEMMA ServingNotErased ==
  ASSUME IInv, NEW s \in Sessions, Serving(s)
  PROVE  ~Erased(s)
<1> SUFFICES ASSUME NEW q \in Requests, requests[q].stage = "cleared",
                    requests[q].session \in {s, NoSession}
             PROVE  FALSE
  BY DEF Erased
<1>1. \/ requests[q].kind \in Resets /\ requests[q].session = s
      \/ requests[q].kind = "global"
  BY Deleting, ConstantsAssumption DEF IInv
<1> QED
  BY <1>1 DEF IInv, Exclusive, PhasesOwned, Serving

LEMMA AtMostOne ==
  ASSUME NEW S, \A a, b \in S : a = b
  PROVE  Cardinality(S) <= 1
<1>1. CASE S = {}
  BY <1>1, FS_EmptySet
<1>2. CASE S # {}
  <2>1. PICK a \in S : TRUE
    BY <1>2
  <2>2. S = {a}
    BY <2>1
  <2>3. Cardinality({a}) = 1
    BY FS_Singleton
  <2> QED
    BY <2>2, <2>3
<1> QED
  BY <1>1, <1>2

\* docs/reliability-contract.md:88, whatever the interleaving of thoughts, reads, resets,
\* evictions, failed writes and restarts (HistoryManager, SessionManager and
\* SessionResetCoordinator): nobody reads or continues the chain of another owner.
THEOREM OwnersAreIsolated == Spec => []ChainIsolation
<1>1. ASSUME IInv
      PROVE  ChainIsolation
  <2> SUFFICES ASSUME NEW s \in Sessions,
                      NEW kept, kept = Stored(s) \cup Remains(s)
               PROVE  /\ Cardinality((history[s] \cup kept) \ {NoOwner}) <= 1
                      /\ live[s] # Absent /\ ~live[s].restored =>
                           /\ history[s] \subseteq {live[s].owner, NoOwner}
                           /\ Serving(s) => kept \subseteq {live[s].owner, NoOwner}
                      /\ live[s] = Absent /\ Serving(s) =>
                           kept \subseteq IF expired[s] = Unmarked THEN {} ELSE {expired[s], NoOwner}
    BY DEF ChainIsolation
  <2>1. DataOf(s) /\ RemainsOf(s)
    BY <1>1 DEF IInv, Chains, Relics
  <2>2. \A a, b \in (history[s] \cup kept) \ {NoOwner} : a = b
    BY <1>1, OneOwner
  <2>3. Cardinality((history[s] \cup kept) \ {NoOwner}) <= 1
    BY <2>2, AtMostOne
  <2> QED
    BY <2>1, <2>3 DEF DataOf, RemainsOf
<1> QED
  BY <1>1, Invariance, PTL

\* A session that serves shows what the backend holds or the buffer still owes it:
\* no eviction, failed write, reset or restart separates the live chain from the stored one.
THEOREM LiveIsStored == Spec => []LiveMatchesStored
<1>1. ASSUME IInv
      PROVE  LiveMatchesStored
  <2> SUFFICES ASSUME NEW s \in Sessions, Serving(s)
               PROVE  (live[s] # Absent => history[s] = Stored(s)) /\ leftover[s] = {}
    BY DEF LiveMatchesStored
  <2>1. live[s] # Absent => history[s] = Stored(s)
    BY <1>1, ServingNotErased DEF IInv, Chains, DataOf
  <2>2. \A q \in Requests : ~In(q, {"global"}, "cleared")
    BY <1>1 DEF IInv, Exclusive, PhasesOwned, Serving, In
  <2>3. leftover[s] = {}
    BY <1>1, <2>2 DEF IInv, Relics, LeftoverClosed, Serving
  <2> QED
    BY <2>1, <2>3
<1> QED
  BY <1>1, Invariance, PTL

-----------------------------------------------------------------------------
(* Evictions.                                                               *)

\* What a step does to the live state and the marker of a session t: nothing; an access or
\* a reset that leaves it live; an eviction, which nobody's thought is in the way of; a
\* global reset; a restart.
MovesSession(t) ==
  \/ live'[t] = live[t] /\ expired'[t] = expired[t]
  \/ live'[t] # Absent /\ (expired[t] = Unmarked \/ phase[t] = "resetting")
  \/ /\ live'[t] = Absent /\ (live[t] = Absent => expired'[t] = expired[t])
     /\ \A q \in Requests : In(q, {"thought"}, "admitted") => requests[q].session # t
  \/ /\ globalPhase = "resetting"
     /\ \A q \in Requests : ~In(q, {"thought"}, "admitted")
  \/ live' = RestoredFrom(Backed) /\ requests' = [q \in Requests |-> NoRequest]

LEMMA SessionStep ==
  ASSUME IInv, [Next]_vars, NEW t \in Sessions
  PROVE  MovesSession(t)
<1> USE DEF IInv, MovesSession
<1>1. CASE UNCHANGED <<live, expired>>
  BY <1>1
<1>2. ASSUME Admitted(t) = {}, NEW q \in Requests, In(q, {"thought"}, "admitted")
      PROVE  requests[q].session # t
  BY <1>2 DEF Admitted
<1>3. ASSUME NEW s \in Sessions, NEW o \in Writers, NEW W \in SUBSET Writers,
             Authorized(s, o), Access(s, o, W)
      PROVE  MovesSession(t)
  BY <1>2, <1>3, AccessEffect
<1>4. ASSUME NEW r \in Requests, CommitThought(r)
      PROVE  MovesSession(t)
  <2>1. PICK s, o : s = requests[r].session /\ o = requests[r].owner
    OBVIOUS
  <2>2. PICK W : W = {o}
    OBVIOUS
  <2>3. Authorized(s, o) /\ Access(s, o, W) /\ requests[r].kind = "thought"
    BY <1>4, <2>1, <2>2 DEF CommitThought, In
  <2>4. s \in Sessions /\ o \in Writers /\ W \in SUBSET Writers
    BY <2>1, <2>2, <2>3 DEF Exclusive, Kinds, Typed, Request
  <2> QED
    BY <1>3, <2>3, <2>4
<1>5. ASSUME NEW s \in Sessions, NEW o \in Writers, Read(s, o)
      PROVE  MovesSession(t)
  <2>1. PICK W \in SUBSET Writers : W = {}
    OBVIOUS
  <2> QED
    BY <1>3, <1>5, <2>1 DEF Read
<1>6. ASSUME NEW r \in Requests, Replace(r)
      PROVE  MovesSession(t)
  <2>1. PICK s : s = requests[r].session
    OBVIOUS
  <2>2. requests[r].preserved \in Writers
    BY DEF Typed, Request
  <2>3. CASE t = s
    BY <1>6, <2>1, <2>2, <2>3, ReplaceEffect, NewSessions DEF Exclusive, PhasesOwned
  <2>4. CASE t # s
    BY <1>2, <1>6, <2>1, <2>4, ReplaceEffect
  <2> QED
    BY <2>3, <2>4
<1>7. ASSUME NEW r \in Requests, FinishReset(r)
      PROVE  MovesSession(t)
  <2>1. PICK s, o : s = requests[r].session /\ o = requests[r].owner
    OBVIOUS
  <2>2. CASE t = s
    <3>1. phase[t] = "resetting" /\ live[s] # Absent /\ s \in Sessions /\ o \in Writers
          /\ (live'[s] = live[s] \/ live'[s] = Bound(s, o))
      BY <1>7, <2>1, <2>2, FinishEffect DEF Exclusive, PhasesOwned
    <3> QED
      BY <2>2, <3>1, BoundFacts, NewSessions
  <2>3. CASE t # s
    BY <1>7, <2>1, <2>3, FinishEffect
  <2> QED
    BY <2>2, <2>3
<1>8. ASSUME NEW r \in Requests, FailReset(r)
      PROVE  MovesSession(t)
  <2> DEFINE s == requests[r].session
  <2>1. /\ live' = live /\ requests[r].kind \in Resets
        /\ \/ expired' = expired
           \/ requests[r].stage = "replaced" /\ expired' = [expired EXCEPT ![s] = Unmarked]
    BY <1>8 DEF FailReset
  <2>2. CASE t = s /\ requests[r].stage = "replaced"
    BY <2>1, <2>2 DEF Chains, ResetsKeep, Keeps, Exclusive, PhasesOwned
  <2>3. CASE t # s \/ requests[r].stage # "replaced"
    BY <2>1, <2>3 DEF Typed
  <2> QED
    BY <2>2, <2>3
<1>9. ASSUME NEW r \in Requests, Evict(r)
      PROVE  MovesSession(t)
  <2>1. PICK s : s = requests[r].session
    OBVIOUS
  <2>2. CASE t = s
    <3>1. Claims(r) /\ requests[r].stage # "claimed"
      BY <1>9 DEF Evict, In, Claims
    <3>2. \A q \in Requests : In(q, {"thought"}, "admitted") => requests[q].session # t
      BY <2>1, <2>2, <3>1 DEF Exclusive, Waited, In
    <3> QED
      BY <1>9, <2>1, <2>2, <3>2, EvictEffect
  <2>3. CASE t # s
    BY <1>9, <2>1, <2>3, EvictEffect
  <2> QED
    BY <2>2, <2>3
<1>10. ASSUME NEW r \in Requests, FinishGlobalReset(r)
       PROVE  MovesSession(t)
  <2>1. requests[r].kind = "global" /\ requests[r].stage = "cleared"
    BY <1>10 DEF FinishGlobalReset, In
  <2> QED
    BY <2>1 DEF Exclusive, Waited, PhasesOwned, In
<1>11. CASE Restart
  BY <1>11 DEF Restart
<1>12. ASSUME NEW r \in Requests, Begin(r)
       PROVE  UNCHANGED <<live, expired>>
  BY <1>12 DEF Begin, BeginGlobalReset, PlanEviction, BeginThought, BeginReset, sessionVars
<1>13. ASSUME NEW r \in Requests,
              \/ RejectThought(r) \/ PlanReset(r) \/ ClearDurable(r)
              \/ ClaimEviction(r) \/ DrainEviction(r) \/ FailEviction(r)
              \/ DrainAll(r) \/ ClearAllDurable(r) \/ FailGlobalReset(r)
       PROVE  UNCHANGED <<live, expired>>
  BY <1>13 DEF RejectThought, PlanReset, ClearDurable, ClaimEviction, DrainEviction, FailEviction,
               DrainAll, ClearAllDurable, FailGlobalReset, sessionVars
<1>14. ASSUME NEW s \in Sessions, Persist(s) \/ Rearm(s)
       PROVE  UNCHANGED <<live, expired>>
  BY <1>14 DEF Persist, Flush, FlushFails, LateSave, Rearm, sessionVars
<1>15. CASE UNCHANGED vars
  BY <1>1, <1>15 DEF vars, sessionVars
<1> QED
  BY <1>1, <1>4, <1>5, <1>6, <1>7, <1>8, <1>9, <1>10, <1>11, <1>12, <1>13, <1>14, <1>15
  DEF Next, Proceed

\* An eviction, for capacity or by the timer (_isCapacityEvictionEligible, _evictSession),
\* never takes a session in use; and what it evicted stays closed: until a reset or a
\* restart its marker stays and it is not live.
THEOREM EvictionsAreOrderly == Spec => EvictionsRespectUse
<1>1. ASSUME IInv, [Next]_vars
      PROVE  \A r \in Requests : LET s == requests[r].session IN
               /\ In(r, {"thought"}, "admitted")
               /\ requests'[r] = requests[r]
               /\ live[s] # Absent
               => live'[s] # Absent
  <2> SUFFICES ASSUME NEW r \in Requests, NEW s, s = requests[r].session,
                      In(r, {"thought"}, "admitted"), requests'[r] = requests[r], live[s] # Absent
               PROVE  live'[s] # Absent
    OBVIOUS
  <2>1. s \in Sessions
    BY <1>1 DEF In, IInv, Exclusive, Kinds
  <2>2. requests' # [q \in Requests |-> NoRequest]
    BY NoRequestIsRequest DEF In
  <2> QED
    BY <1>1, <2>1, <2>2, SessionStep DEF MovesSession
<1>2. ASSUME IInv, [Next]_vars
      PROVE  \A s \in Sessions : expired[s] # Unmarked =>
               \/ expired'[s] = expired[s] /\ (live'[s] = Absent \/ phase'[s] = "resetting")
               \/ phase[s] = "resetting"
               \/ globalPhase = "resetting"
               \/ live' = RestoredFrom(Backed)
  <2> SUFFICES ASSUME NEW s \in Sessions, expired[s] # Unmarked, phase[s] # "resetting"
               PROVE  \/ expired'[s] = expired[s] /\ live'[s] = Absent
                      \/ globalPhase = "resetting"
                      \/ live' = RestoredFrom(Backed)
    OBVIOUS
  <2>1. live[s] = Absent
    BY <1>2 DEF IInv, Chains, Marked, In, Exclusive, PhasesOwned
  <2> QED
    BY <1>2, <2>1, SessionStep DEF MovesSession
<1> QED
  BY <1>1, <1>2, Invariance, PTL DEF Spec, EvictionsRespectUse, AdmittedKeepsSession, EvictedStaysClosed

=============================================================================
