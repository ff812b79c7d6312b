-------------------------- MODULE PersistenceBuffer --------------------------
(***************************************************************************)
(* PersistenceBuffer and its PersistenceWorkQueue and PersistenceWriter:   *)
(* accepted work, the one joinable drain generation, and the barriers that *)
(* close admission around a session reset, an eviction or a global reset.  *)
(*                                                                         *)
(* A work handle is immutable: the acceptance sequence is its token, and a *)
(* handle in `queue` is the current entry of the code's queue.  Branch,    *)
(* edge and summary entries coalesce at a slot of their session; deleting  *)
(* a branch is one more replacement of its slot.  The durable store keeps  *)
(* the tokens that reached it: thoughts are appended, slots overwritten.   *)
(*                                                                         *)
(* JavaScript runs to the next await, so an action here is the code        *)
(* between two awaits: acknowledging a write, waking the barriers and      *)
(* selecting the next work (or closing the generation) is one step.        *)
(***************************************************************************)
EXTENDS Naturals, Sequences, FiniteSets

CONSTANTS
  Sessions,     \* thought sessions
  Slots,        \* coalescing coordinates of a session: branches, edges, summaries
  Barriers,     \* concurrent barrier calls
  NoDrain,      \* _activeDrain = null
  NoSession,    \* the session of a global barrier
  BufferSize,   \* pending thoughts that trigger a background drain
  MaxRetries,   \* further attempts of a failing write
  MaxWork,      \* bound: work accepted in a behaviour
  MaxCalls      \* bound: that work, and the barriers under way

ASSUME ConstantsAssumption ==
  /\ "thought" \notin Slots
  /\ NoSession \notin Sessions
  /\ MaxRetries \in Nat
  /\ BufferSize \in Nat

VARIABLES
  queue,                \* current entries of the work queue
  failed,               \* entries with a terminalFailure
  nextSequence,         \* _nextSequence
  durable,              \* what the persistence backend holds
  drain,                \* _activeDrain
  settlement,           \* how the latest generation settled
  barriers,             \* the live barrier calls
  sessionBarriers,      \* _sessionBarriers: the FIFO of owners per session
  globalBarriers,       \* the FIFO behind _globalResetTail
  quarantined,          \* _quarantinedSessions
  evictionQuarantined,  \* _evictionQuarantinedSessions
  globalQuarantined     \* _globalQuarantined

\* The variables in groups.
queueVars == <<queue, failed, nextSequence>>
drainVars == <<drain, settlement>>
quarantineVars == <<quarantined, evictionQuarantined, globalQuarantined>>
ownerVars == <<sessionBarriers, globalBarriers>>

vars == <<queueVars, durable, drainVars, barriers, ownerVars, quarantineVars>>

-----------------------------------------------------------------------------

Work == [token : Nat, session : Sessions, slot : Slots \cup {"thought"}]

Drain == [mode     : {"explicit", "background"},
          selected : SUBSET Work,
          work     : Work,
          attempt  : 0..MaxRetries,
          landed   : BOOLEAN]

ASSUME NoDrainAssumption == NoDrain \notin Drain

\* A barrier keeps the generation it joined: the active one, or a settled one of
\* which it still reads the selected tokens.
Barrier == [kind     : {"none", "reset", "eviction", "global_reset"},
            session  : Sessions \cup {NoSession},
            stage    : {"idle", "queued", "waiting", "ready", "rejected",
                        "draining", "operating", "cleared"},
            joined   : {"none", "active", "settled"},
            selected : SUBSET Work]

NoBarrier == [kind |-> "none", session |-> NoSession, stage |-> "idle",
              joined |-> "none", selected |-> {}]

\* Bounds.
CallAllowed == nextSequence + Cardinality({b \in Barriers : barriers[b] # NoBarrier}) <= MaxCalls
WorkAllowed == nextSequence <= MaxWork /\ CallAllowed

Nothing == [thoughts |-> <<>>, slots |-> [k \in Slots |-> 0]]

WorkOf(W, s) == {w \in W : w.session = s}

\* _assertSessionAdmissionOpen
AdmissionOpen(s) ==
  /\ globalBarriers = <<>>
  /\ ~globalQuarantined
  /\ sessionBarriers[s] = <<>>
  /\ s \notin quarantined \cup evictionQuarantined

-----------------------------------------------------------------------------
(* The drain generation.                                                   *)

\* Mutant: an explicit generation skips the retained failures too.
EligibleUnlessFailed(mode, selected, q, f) == {w \in q \ selected : w \notin f}

\* _findEligible over every session: explicit generations re-arm failures.
Eligible(mode, selected, q, f) ==
  {w \in q \ selected : mode = "explicit" \/ w \notin f}

Oldest(W) == CHOOSE w \in W : \A v \in W : w.token <= v.token

\* The part of _runDrain between two awaits: select the next work, or close the
\* generation.  Tokens are never reused, so only those still in the queue are
\* remembered as selected.
Advance(mode, selected, q, f) ==
  LET eligible == Eligible(mode, selected, q, f) IN
  IF eligible = {}
  THEN NoDrain
  ELSE [mode     |-> mode,
        selected |-> (selected \cap q) \cup {Oldest(eligible)},
        work     |-> Oldest(eligible),
        attempt  |-> 0,
        landed   |-> FALSE]

\* _closeGeneration: the result of the generation, if it closes.
Outcome(mode, selected, q, f) ==
  IF Eligible(mode, selected, q, f) # {} THEN "pending"
  ELSE IF selected \cap q \cap f = {} THEN "resolved" ELSE "rejected"

Run(mode, selected) ==
  /\ drain' = Advance(mode, selected, queue', failed')
  /\ settlement' = Outcome(mode, selected, queue', failed')

\* _notifySessionProgress; a generation that closed is settled for its joiners.
Progressed ==
  [b \in Barriers |->
     LET B == barriers[b]
         S == IF B.stage = "waiting" THEN [B EXCEPT !.stage = "ready"] ELSE B
     IN IF drain' = NoDrain /\ B.joined = "active"
        THEN [S EXCEPT !.joined = "settled", !.selected = drain.selected \cap queue']
        ELSE S]

\* _joinOrStart: join the active generation, which an explicit request makes
\* explicit, or start one, which runs up to its first write or closes at once.
JoinOrStart(mode) ==
  IF drain # NoDrain
  THEN /\ drain' = [drain EXCEPT !.mode = IF mode = "explicit" THEN mode ELSE @]
       /\ UNCHANGED settlement
  ELSE Run(mode, {})

\* The barriers after _joinOrStart: a generation that closed at once notifies.
StartProgressed ==
  IF drain = NoDrain /\ drain' = NoDrain THEN Progressed ELSE barriers

Joined == IF drain' = NoDrain THEN "settled" ELSE "active"

-----------------------------------------------------------------------------
(* Accepting work.                                                         *)

Accepted(s, k) == [token |-> nextSequence, session |-> s, slot |-> k]

\* The queue once the entry at a coordinate is replaced by the next accepted one.
Replaced(s, k) ==
  {w \in queue : w.session # s \/ w.slot # k} \cup {Accepted(s, k)}

Thoughts(q) == {w \in q : w.slot = "thought"}

\* bufferThought and bufferBacktrack, with the drain a full buffer triggers.
BufferThought(s) ==
  /\ AdmissionOpen(s)
  /\ WorkAllowed
  /\ queue' = queue \cup {Accepted(s, "thought")}
  /\ UNCHANGED failed
  /\ nextSequence' = nextSequence + 1
  /\ IF Cardinality(Thoughts(queue')) >= BufferSize
     THEN JoinOrStart("background") /\ barriers' = StartProgressed
     ELSE UNCHANGED <<drainVars, barriers>>
  /\ UNCHANGED <<durable, ownerVars, quarantineVars>>

\* bufferBranch, deleteBranch, bufferEdges and bufferSummaries.
BufferSnapshot(s, k) ==
  /\ AdmissionOpen(s)
  /\ WorkAllowed
  /\ queue' = Replaced(s, k)
  /\ failed' = failed \cap queue'
  /\ nextSequence' = nextSequence + 1
  /\ UNCHANGED <<durable, drainVars, barriers, ownerVars, quarantineVars>>

\* drain(), flush() and drainSession(); the flush timer.
RequestDrain(mode) ==
  /\ UNCHANGED queueVars
  /\ JoinOrStart(mode)
  /\ barriers' = StartProgressed
  /\ UNCHANGED <<durable, ownerVars, quarantineVars>>

-----------------------------------------------------------------------------
(* Writing: PersistenceWriter.write and the loop of _runDrain.             *)

Writing == drain # NoDrain /\ ~drain.landed

\* What the backend holds once w is saved.
Saved(d, w) ==
  IF w.slot = "thought"
  THEN [d EXCEPT ![w.session].thoughts = Append(@, w.token)]
  ELSE [d EXCEPT ![w.session].slots[w.slot] = w.token]

\* The backend applies the write; its promise settles later.
WriteLands ==
  /\ Writing
  /\ durable' = Saved(durable, drain.work)
  /\ drain' = [drain EXCEPT !.landed = TRUE]
  /\ UNCHANGED <<queueVars, settlement, barriers, ownerVars, quarantineVars>>

\* The entry of w is still the one that was selected: same token, same version.
IsCurrent(w) == w \in queue

\* An attempt fails and another one is left.
RetryWrite ==
  /\ Writing
  /\ drain.attempt < MaxRetries
  /\ drain' = [drain EXCEPT !.attempt = @ + 1]
  /\ UNCHANGED <<queueVars, durable, settlement, barriers, ownerVars, quarantineVars>>

\* Mutant: success removes whatever is queued at the coordinate of the write.
AcknowledgeCoordinate ==
  /\ drain # NoDrain
  /\ drain.landed
  /\ queue' = {w \in queue : w.session # drain.work.session \/ w.slot # drain.work.slot}
  /\ failed' = failed \cap queue'
  /\ Run(drain.mode, drain.selected)
  /\ barriers' = Progressed
  /\ UNCHANGED <<nextSequence, durable, ownerVars, quarantineVars>>

\* acknowledgeSuccess: an entry that was replaced meanwhile stays queued.
WriteSucceeds ==
  /\ drain # NoDrain
  /\ drain.landed
  /\ queue' = queue \ {drain.work}
  /\ failed' = failed \ {drain.work}
  /\ Run(drain.mode, drain.selected)
  /\ barriers' = Progressed
  /\ UNCHANGED <<nextSequence, durable, ownerVars, quarantineVars>>

\* acknowledgeFailure: only the current entry is marked.
WriteFails ==
  /\ Writing
  /\ drain.attempt = MaxRetries
  /\ failed' = IF IsCurrent(drain.work) THEN failed \cup {drain.work} ELSE failed
  /\ UNCHANGED <<queue, nextSequence>>
  /\ Run(drain.mode, drain.selected)
  /\ barriers' = Progressed
  /\ UNCHANGED <<durable, ownerVars, quarantineVars>>

-----------------------------------------------------------------------------
(* Session barriers: withSessionResetBarrier, withSessionEvictionBarrier.  *)

BeginSessionBarrier(b, s, kind) ==
  /\ barriers[b] = NoBarrier /\ CallAllowed
  /\ globalBarriers = <<>>
  /\ ~globalQuarantined
  /\ kind = "eviction" => s \notin quarantined
  /\ barriers' = [barriers EXCEPT ![b] = [NoBarrier EXCEPT !.kind = kind,
                                                            !.session = s,
                                                            !.stage = "queued"]]
  /\ sessionBarriers' = [sessionBarriers EXCEPT ![s] = Append(@, b)]
  /\ UNCHANGED <<queueVars, durable, drainVars, globalBarriers, quarantineVars>>

\* Mutant: quiescence means an empty queue, so retained failures are waited for.
NextStageAwaitingFailures(kind, s, g, mode, selected) ==
  IF (g # NoDrain /\ g.work.session = s) \/ WorkOf(queue, s) # {}
  THEN "waiting"
  ELSE "operating"

\* _sessionQuiescence, and what the barrier does with it: a reset goes on over
\* the session's retained failures, an eviction is rejected.  g is the joined
\* generation while it is active, NoDrain once it has settled.
NextStage(kind, s, g, mode, selected) ==
  IF \/ g # NoDrain /\ g.work.session = s
     \/ WorkOf(Eligible(mode, selected, queue, failed), s) # {}
  THEN "waiting"
  ELSE IF kind = "eviction" /\ WorkOf(selected \cap failed, s) # {}
       THEN "rejected" ELSE "operating"

\* The barrier becomes the head of its FIFO: _awaitSessionQuiescence up to its
\* first wait.
StartSessionBarrier(b) ==
  LET s == barriers[b].session
      kind == barriers[b].kind
      selected == IF drain' = NoDrain THEN {} ELSE drain'.selected
  IN
  /\ kind \in {"reset", "eviction"}
  /\ barriers[b].stage = "queued"
  /\ Head(sessionBarriers[s]) = b
  /\ UNCHANGED queueVars
  /\ JoinOrStart("explicit")
  /\ barriers' = [StartProgressed EXCEPT
       ![b].joined = Joined,
       ![b].stage = NextStage(kind, s, drain', "explicit", selected)]
  /\ UNCHANGED <<durable, ownerVars, quarantineVars>>

\* The loop of _awaitSessionQuiescence after a notification.
ResumeSessionBarrier(b) ==
  LET B == barriers[b] IN
  /\ B.stage = "ready"
  /\ barriers' = [barriers EXCEPT ![b].stage =
       IF B.joined = "active"
       THEN NextStage(B.kind, B.session, drain, drain.mode, drain.selected)
       ELSE NextStage(B.kind, B.session, NoDrain, "explicit", B.selected)]
  /\ UNCHANGED <<queueVars, durable, drainVars, ownerVars, quarantineVars>>

\* The finally block, and the settlement that starts the next owner.
ReleaseSession(b) ==
  /\ barriers' = [barriers EXCEPT ![b] = NoBarrier]
  /\ sessionBarriers' = [sessionBarriers EXCEPT ![barriers[b].session] = Tail(@)]
  /\ UNCHANGED globalBarriers

\* The backend applies clearSession.
ClearSession(b) ==
  /\ barriers[b].kind = "reset"
  /\ barriers[b].stage = "operating"
  /\ durable' = [durable EXCEPT ![barriers[b].session] = Nothing]
  /\ barriers' = [barriers EXCEPT ![b].stage = "cleared"]
  /\ UNCHANGED <<queueVars, drainVars, ownerVars, quarantineVars>>

\* discardSession
Discarded(s) == {w \in queue : w.session # s}

\* The reset operation resolves.
CommitSessionReset(b) ==
  LET s == barriers[b].session IN
  /\ barriers[b].kind = "reset"
  /\ barriers[b].stage = "cleared"
  /\ queue' = Discarded(s)
  /\ failed' = failed \cap queue'
  /\ quarantined' = quarantined \ {s}
  /\ evictionQuarantined' = evictionQuarantined \ {s}
  /\ ReleaseSession(b)
  /\ UNCHANGED <<nextSequence, durable, drainVars, globalQuarantined>>

\* clearSession rejects, or the live replacement throws after it.
FailSessionReset(b) ==
  /\ barriers[b].kind = "reset"
  /\ barriers[b].stage \in {"operating", "cleared"}
  /\ quarantined' = quarantined \cup {barriers[b].session}
  /\ ReleaseSession(b)
  /\ UNCHANGED <<queueVars, durable, drainVars, evictionQuarantined, globalQuarantined>>

\* The eviction callback (_removeLiveSession) returns, or throws.
FinishEviction(b, ok) ==
  LET s == barriers[b].session IN
  /\ barriers[b].kind = "eviction"
  /\ \/ barriers[b].stage = "operating"
     \/ barriers[b].stage = "rejected" /\ ~ok
  /\ evictionQuarantined' = IF ok THEN evictionQuarantined \ {s}
                            ELSE evictionQuarantined \cup {s}
  /\ ReleaseSession(b)
  /\ UNCHANGED <<queueVars, durable, drainVars, quarantined, globalQuarantined>>

-----------------------------------------------------------------------------
(* The global reset: withGlobalResetBarrier.                               *)

BeginGlobalReset(b) ==
  /\ barriers[b] = NoBarrier /\ CallAllowed
  /\ barriers' = [barriers EXCEPT ![b] = [NoBarrier EXCEPT !.kind = "global_reset",
                                                            !.stage = "queued"]]
  /\ globalBarriers' = Append(globalBarriers, b)
  /\ UNCHANGED <<queueVars, durable, drainVars, sessionBarriers, quarantineVars>>

\* Mutant: the session barriers are not waited for.
StartGlobalResetAtOnce(b) ==
  /\ barriers[b].kind = "global_reset"
  /\ barriers[b].stage = "queued"
  /\ Head(globalBarriers) = b
  /\ UNCHANGED queueVars
  /\ JoinOrStart("explicit")
  /\ barriers' = [StartProgressed EXCEPT ![b].stage = "draining", ![b].joined = Joined]
  /\ UNCHANGED <<durable, ownerVars, quarantineVars>>

\* The tails of the session barriers have settled; drain().
StartGlobalReset(b) ==
  /\ barriers[b].kind = "global_reset"
  /\ barriers[b].stage = "queued"
  /\ Head(globalBarriers) = b
  /\ \A s \in Sessions : sessionBarriers[s] = <<>>
  /\ UNCHANGED queueVars
  /\ JoinOrStart("explicit")
  /\ barriers' = [StartProgressed EXCEPT ![b].stage = "draining", ![b].joined = Joined]
  /\ UNCHANGED <<durable, ownerVars, quarantineVars>>

\* The generation settled; its failures do not stop the reset.
GlobalDrained(b) ==
  /\ barriers[b].kind = "global_reset"
  /\ barriers[b].stage = "draining"
  /\ barriers[b].joined = "settled"
  /\ barriers' = [barriers EXCEPT ![b].stage = "operating"]
  /\ UNCHANGED <<queueVars, durable, drainVars, ownerVars, quarantineVars>>

\* The backend applies clearAll.
ClearAll(b) ==
  /\ barriers[b].kind = "global_reset"
  /\ barriers[b].stage = "operating"
  /\ durable' = [s \in Sessions |-> Nothing]
  /\ barriers' = [barriers EXCEPT ![b].stage = "cleared"]
  /\ UNCHANGED <<queueVars, drainVars, ownerVars, quarantineVars>>

ReleaseGlobal(b) ==
  /\ barriers' = [barriers EXCEPT ![b] = NoBarrier]
  /\ globalBarriers' = Tail(globalBarriers)
  /\ UNCHANGED sessionBarriers

\* discardAll
CommitGlobalReset(b) ==
  /\ barriers[b].kind = "global_reset"
  /\ barriers[b].stage = "cleared"
  /\ queue' = {}
  /\ failed' = {}
  /\ quarantined' = {}
  /\ evictionQuarantined' = {}
  /\ globalQuarantined' = FALSE
  /\ ReleaseGlobal(b)
  /\ UNCHANGED <<nextSequence, durable, drainVars>>

FailGlobalReset(b) ==
  /\ barriers[b].kind = "global_reset"
  /\ barriers[b].stage \in {"operating", "cleared"}
  /\ globalQuarantined' = TRUE
  /\ ReleaseGlobal(b)
  /\ UNCHANGED <<queueVars, durable, drainVars, quarantined, evictionQuarantined>>

-----------------------------------------------------------------------------

QueueInit ==
  /\ queue = {}
  /\ failed = {}
  /\ nextSequence = 1

Init ==
  /\ QueueInit
  /\ durable = [s \in Sessions |-> Nothing]
  /\ drain = NoDrain
  /\ settlement = "resolved"
  /\ barriers = [b \in Barriers |-> NoBarrier]
  /\ sessionBarriers = [s \in Sessions |-> <<>>]
  /\ globalBarriers = <<>>
  /\ quarantined = {}
  /\ evictionQuarantined = {}
  /\ globalQuarantined = FALSE

Write == WriteLands \/ RetryWrite \/ WriteSucceeds \/ WriteFails

\* What a barrier does once it has begun.
Proceed(b) ==
  \/ StartSessionBarrier(b) \/ ResumeSessionBarrier(b)
  \/ ClearSession(b) \/ CommitSessionReset(b) \/ FailSessionReset(b)
  \/ \E ok \in BOOLEAN : FinishEviction(b, ok)
  \/ StartGlobalReset(b) \/ GlobalDrained(b)
  \/ ClearAll(b) \/ CommitGlobalReset(b) \/ FailGlobalReset(b)

Next ==
  \/ \E s \in Sessions :
       \/ BufferThought(s)
       \/ \E k \in Slots : BufferSnapshot(s, k)
  \/ \E mode \in {"explicit", "background"} : RequestDrain(mode)
  \/ Write
  \/ \E b \in Barriers :
       \/ \E s \in Sessions, kind \in {"reset", "eviction"} : BeginSessionBarrier(b, s, kind)
       \/ BeginGlobalReset(b)
       \/ Proceed(b)

Spec == Init /\ [][Next]_vars

\* The backend settles every write, the runtime runs every continuation, and
\* the timer that the server starts keeps firing.
Fairness ==
  /\ WF_vars(Write)
  /\ \A b \in Barriers : WF_vars(Proceed(b))
  /\ WF_vars(RequestDrain("background"))

FairSpec == Spec /\ Fairness

-----------------------------------------------------------------------------
(***************************************************************************)
(* Properties.                                                             *)
(***************************************************************************)

\* Every variable has its type.
TypeOK ==
  /\ queue \in SUBSET Work
  /\ failed \in SUBSET queue
  /\ nextSequence \in Nat \ {0}
  /\ durable \in [Sessions -> [thoughts : Seq(Nat), slots : [Slots -> Nat]]]
  /\ drain \in Drain \cup {NoDrain}
  /\ settlement \in {"pending", "resolved", "rejected"}
  /\ barriers \in [Barriers -> Barrier]
  /\ sessionBarriers \in [Sessions -> Seq(Barriers)]
  /\ globalBarriers \in Seq(Barriers)
  /\ quarantined \in SUBSET Sessions
  /\ evictionQuarantined \in SUBSET Sessions
  /\ globalQuarantined \in BOOLEAN

Operating(b) == barriers[b].stage \in {"operating", "cleared"}

\* One owner at a time: two barriers never operate on the same session, and
\* nothing operates beside a global reset.
OneOwner ==
  \A b, c \in Barriers : Operating(b) /\ Operating(c) /\ b # c =>
    /\ barriers[b].kind # "global_reset"
    /\ barriers[b].session # barriers[c].session

\* An eviction removes the live session only when everything accepted for it is
\* durable: no entry is queued, none is being written.
EvictionIsQuiescent ==
  \A b \in Barriers : Operating(b) /\ barriers[b].kind = "eviction" =>
    /\ WorkOf(queue, barriers[b].session) = {}
    /\ drain # NoDrain => drain.work.session # barriers[b].session

\* While a reset clears a session, all that is left of the session's work, queued
\* or being written, has failed terminally before: the reset waited for the
\* rest and nothing was admitted since.
ResetOwnsSession ==
  \A b \in Barriers : Operating(b) /\ barriers[b].kind = "reset" =>
    /\ WorkOf(queue, barriers[b].session) \subseteq failed
    /\ drain # NoDrain /\ drain.work.session = barriers[b].session =>
         drain.work \in failed

\* What a barrier promises while its operation runs: no other owner beside it, an
\* eviction that finds the session quiescent, a reset that finds only failures.
BarriersOwn == OneOwner /\ EvictionIsQuiescent /\ ResetOwnsSession

\* A thought is appended to the durable history once, however often its
\* generation is joined, retried or started again.
NoDuplicateThought ==
  \A s \in Sessions : \A i, j \in DOMAIN durable[s].thoughts :
    durable[s].thoughts[i] = durable[s].thoughts[j] => i = j

Reached(d, w) ==
  IF w.slot = "thought"
  THEN \E i \in DOMAIN d[w.session].thoughts : d[w.session].thoughts[i] = w.token
  ELSE d[w.session].slots[w.slot] >= w.token

\* Sessions whose durable data a reset has cleared and not yet settled, or
\* that a failed reset has left quarantined.
BeingReset(s) ==
  \/ s \in quarantined
  \/ globalQuarantined
  \/ \E b \in Barriers : /\ barriers[b].stage = "cleared"
                         /\ barriers[b].session \in {s, NoSession}

\* Accepted work leaves the queue only when the backend holds it, when newer
\* work of its coordinate replaces it, or by a reset.
WorkNotLost ==
  [][\A w \in queue \ queue' :
       \/ Reached(durable', w)
       \/ \E v \in queue' : v.session = w.session /\ v.slot = w.slot /\ v.token > w.token
       \/ BeingReset(w.session)]_vars

\* A durable snapshot is never overwritten by an older one: failed snapshots that
\* were replaced do not come back.
SlotsNeverRegress ==
  [][\A s \in Sessions, k \in Slots :
       durable'[s].slots[k] \in {0} \cup {n \in Nat : n >= durable[s].slots[k]}]_vars

\* What was accepted is made durable once: nothing leaves the queue unwritten and
\* unreplaced, no thought is appended twice, and nothing durable is overwritten by
\* what was accepted before it.
AcceptedWorkEndures == []NoDuplicateThought /\ WorkNotLost /\ SlotsNeverRegress

\* An explicit drain that resolves leaves nothing accepted behind.
ResolvedDrainIsComplete ==
  [][/\ drain # NoDrain
     /\ drain.mode = "explicit"
     /\ settlement' = "resolved"
     => queue' = {}]_vars

\* docs/reliability-contract.md:57: "Thought writes preserve accepted order."
ThoughtsInOrder ==
  \A s \in Sessions : \A i, j \in DOMAIN durable[s].thoughts :
    i < j => durable[s].thoughts[i] < durable[s].thoughts[j]

\* Every barrier settles.
EveryBarrierSettles ==
  \A b \in Barriers : barriers[b].stage # "idle" ~> barriers[b].stage = "idle"

\* Again and again nothing accepted is left unattempted: work is written, fails
\* terminally, or is replaced or reset.
WorkSettles == []<>(queue \subseteq failed)

\* Nobody waits for ever: neither the caller of a barrier nor accepted work.
EverythingSettles == EveryBarrierSettles /\ WorkSettles

=============================================================================
