-------------------------- MODULE SessionLifecycle --------------------------
(***************************************************************************)
(* SessionLifecycleCoordinator: admission of session operations, exclusive *)
(* session maintenance (reset, eviction), the global reset and shutdown.   *)
(*                                                                         *)
(* A call of the coordinator is an element of Calls.  It remembers the     *)
(* call whose callback made it (parent), which is what the code reads back *)
(* from AsyncLocalStorage: the store of a callback is the kind and session *)
(* of the innermost call it runs in.  Callbacks await the calls they make, *)
(* one at a time.                                                          *)
(*                                                                         *)
(* A promise the coordinator waits on is edge-triggered: a call that finds *)
(* its scope busy is "waiting" until somebody resolves it, then "ready"    *)
(* until the microtask that resumes it runs.  A lost wake-up is therefore  *)
(* a behaviour of this model, not excluded by it.                          *)
(***************************************************************************)
EXTENDS Naturals, FiniteSets

CONSTANTS
  Sessions,             \* thought session identifiers
  Calls,                \* concurrent calls of the coordinator
  NoSession,            \* the session of a global call
  NoCall,               \* the parent of a call made outside any callback
  ShutdownFromContext   \* may a callback call shutdown()?

ASSUME ConstantsAssumption ==
  /\ IsFiniteSet(Calls)
  /\ NoCall \notin Calls
  /\ NoSession \notin Sessions
  /\ ShutdownFromContext \in BOOLEAN

VARIABLES
  calls,                \* the live calls
  phase,                \* _sessions: phase per session, "open" when absent
  active,               \* _sessions: activeOperations per session
  globalPhase,          \* _globalPhase
  activeOperations,     \* _activeOperations
  maintenanceOwners,    \* _maintenanceOwners
  shutdownCalled        \* _shutdownPromise # null

vars == <<calls, phase, active, globalPhase, activeOperations,
          maintenanceOwners, shutdownCalled>>

-----------------------------------------------------------------------------

GlobalPhases == {"open", "resetting", "reset_failed",
                 "shutting_down", "stopped", "shutdown_failed"}

SessionPhases == {"open", "resetting", "reset_failed",
                  "evicting", "eviction_failed"}

SessionExclusives == {"reset", "eviction"}
GlobalExclusives == {"global_reset", "shutdown"}

\* RESET_EXCLUSIVE and EVICTION_EXCLUSIVE.
ActivePhase(x) == IF x = "reset" THEN "resetting" ELSE "evicting"
FailedPhase(x) == IF x = "reset" THEN "reset_failed" ELSE "eviction_failed"

\* A caller of shutdown() that was handed the memoised promise is a
\* "shutdown_join": it runs nothing and waits for the settlement.
Kinds == {"none", "operation", "shutdown_join"}
           \cup SessionExclusives \cup GlobalExclusives

Call == [kind    : Kinds,
         session : Sessions \cup {NoSession},
         parent  : Calls \cup {NoCall},
         stage   : {"idle", "waiting", "ready", "running"}]

NoActivity == [kind |-> "none", session |-> NoSession,
               parent |-> NoCall, stage |-> "idle"]

Live(c, k) == calls[c].kind = k
LiveOn(c, K, s) == calls[c].kind \in K /\ calls[c].session = s

HasChild(c) == \E d \in Calls : calls[d].stage # "idle" /\ calls[d].parent = c

\* Code that may call the coordinator now: a top-level caller, or the callback
\* of a running call that is not awaiting a nested one.
Caller(p) ==
  \/ p = NoCall
  \/ /\ p \in Calls
     /\ calls[p].stage = "running"
     /\ ~HasChild(p)

\* Mutant: the context is trusted without comparing its session.
ContextOwnsAnySession(p, s) == p \in Calls

\* _contextOwnsSession
ContextOwnsSession(p, s) ==
  /\ p \in Calls
  /\ calls[p].kind \in GlobalExclusives \/ calls[p].session = s

\* _admissionError
AdmissionOpen(s) == globalPhase = "open" /\ phase[s] = "open"

\* runMutation: the guard of a direct synchronous mutation.  The admission it
\* takes is released in the same step, so only the guard is visible.
MutationAdmitted(p, s) == ContextOwnsSession(p, s) \/ AdmissionOpen(s)

\* isIdle
IsIdle(s) == phase[s] = "open" /\ active[s] = 0

\* The resolvers held by _sessionIdleWaiters and _globalIdleWaiters.
SessionWaiters(s) ==
  {c \in Calls : LiveOn(c, SessionExclusives, s) /\ calls[c].stage = "waiting"}
GlobalWaiters ==
  {c \in Calls : calls[c].kind \in GlobalExclusives /\ calls[c].stage = "waiting"}

\* _waitSessionIdle and _waitGlobalIdle: an already resolved promise, or a
\* new waiter.
SessionWaitStage(s) == IF active[s] = 0 THEN "ready" ELSE "waiting"
GlobalWaitStage ==
  IF activeOperations = 0 /\ maintenanceOwners = 0 THEN "ready" ELSE "waiting"

\* Mutant: _release tests the count it read before the decrement.
ReleasedBeforeDecrement(s, remaining) ==
  IF remaining + 1 = 0 THEN SessionWaiters(s) ELSE {}

\* The waiters _release resolves when a session has `remaining` operations.
ReleasedSessionWaiters(s, remaining) ==
  IF remaining = 0 THEN SessionWaiters(s) ELSE {}

\* Mutant: maintenance that is still running is not waited for.
NotifiedOperationsIdle(operations, owners) ==
  IF operations = 0 THEN GlobalWaiters ELSE {}

\* _notifyGlobalIdle
NotifiedGlobalIdle(operations, owners) ==
  IF operations = 0 /\ owners = 0 THEN GlobalWaiters ELSE {}

\* The calls in `ended` return to their callers and the promises of `resolved`
\* settle.
Settle(ended, resolved) ==
  [c \in Calls |->
     IF c \in ended THEN NoActivity
     ELSE IF c \in resolved THEN [calls[c] EXCEPT !.stage = "ready"]
     ELSE calls[c]]

StartCall(c, k, s, p, st) ==
  /\ calls[c] = NoActivity
  /\ calls' = [calls EXCEPT ![c] = [kind |-> k, session |-> s,
                                    parent |-> p, stage |-> st]]

-----------------------------------------------------------------------------

Init ==
  /\ calls = [c \in Calls |-> NoActivity]
  /\ phase = [s \in Sessions |-> "open"]
  /\ active = [s \in Sessions |-> 0]
  /\ globalPhase = "open"
  /\ activeOperations = 0
  /\ maintenanceOwners = 0
  /\ shutdownCalled = FALSE

\* runOperation: admission is synchronous and does not look at the context, so
\* a callback may admit an operation of any open session.
RunOperation(c, p, s) ==
  /\ Caller(p)
  /\ AdmissionOpen(s)
  /\ StartCall(c, "operation", s, p, "running")
  /\ active' = [active EXCEPT ![s] = @ + 1]
  /\ activeOperations' = activeOperations + 1
  /\ UNCHANGED <<phase, globalPhase, maintenanceOwners, shutdownCalled>>

\* The finally block of runOperation: _release.
CompleteOperation(c) ==
  LET s == calls[c].session IN
  /\ Live(c, "operation")
  /\ ~HasChild(c)
  /\ active' = [active EXCEPT ![s] = @ - 1]
  /\ activeOperations' = activeOperations - 1
  /\ calls' = Settle({c}, ReleasedSessionWaiters(s, active[s] - 1) \cup
                          NotifiedGlobalIdle(activeOperations - 1, maintenanceOwners))
  /\ UNCHANGED <<phase, globalPhase, maintenanceOwners, shutdownCalled>>

\* Mutant: an admitted operation may upgrade to an exclusive of its session.
EveryUpgradeAllowed(p, s) == TRUE

\* The context checks of _startSessionExclusive that end in a rejection: an
\* admitted operation and the exclusive of another session may not upgrade.
SessionUpgradeAllowed(p, s) ==
  p # NoCall => ~Live(p, "operation") /\ ContextOwnsSession(p, s)

\* Mutant: a reset takes over what a failed eviction left.
StartableFromAnyFailure(x, s, retryFailed) ==
  \/ phase[s] = "open"
  \/ phase[s] \in {"reset_failed", "eviction_failed"} /\ (x = "reset" \/ retryFailed)

\* The phase a session exclusive starts from: open, or its own failure when
\* a retry is allowed (always for a reset, on request for an eviction).
Startable(x, s, retryFailed) ==
  \/ phase[s] = "open"
  \/ phase[s] = FailedPhase(x) /\ (x = "reset" \/ retryFailed)

\* withSessionReset and withSessionEviction, up to the first await.  (Called
\* again by the callback of the same running exclusive they run inline and
\* change nothing.)
BeginSessionExclusive(c, p, s, x, retryFailed) ==
  /\ Caller(p)
  /\ SessionUpgradeAllowed(p, s)
  /\ globalPhase = "open"
  /\ Startable(x, s, retryFailed)
  /\ phase' = [phase EXCEPT ![s] = ActivePhase(x)]
  /\ maintenanceOwners' = maintenanceOwners + 1
  /\ StartCall(c, x, s, p, SessionWaitStage(s))
  /\ UNCHANGED <<active, globalPhase, activeOperations, shutdownCalled>>

\* The microtask that resumes _runSessionExclusive, _runGlobalReset or
\* _runShutdown after its wait and enters the callback.
Enter(c) ==
  /\ calls[c].stage = "ready"
  /\ calls' = [calls EXCEPT ![c].stage = "running"]
  /\ UNCHANGED <<phase, active, globalPhase, activeOperations,
                 maintenanceOwners, shutdownCalled>>

\* The rest of _runSessionExclusive: success forgets the session's entry,
\* failure leaves the failed phase; both release the maintenance owner.
CompleteSessionExclusive(c, ok) ==
  LET s == calls[c].session
      x == calls[c].kind
  IN
  /\ x \in SessionExclusives
  /\ calls[c].stage = "running"
  /\ ~HasChild(c)
  /\ phase' = [phase EXCEPT ![s] = IF ok THEN "open" ELSE FailedPhase(x)]
  /\ active' = IF ok THEN [active EXCEPT ![s] = 0] ELSE active
  /\ maintenanceOwners' = maintenanceOwners - 1
  /\ calls' = Settle({c}, NotifiedGlobalIdle(activeOperations, maintenanceOwners - 1))
  /\ UNCHANGED <<globalPhase, activeOperations, shutdownCalled>>

\* tryEvictIdleSessions: synchronous, so it starts and ends in one step.
TryEvictIdleSessions(S, ok) ==
  /\ globalPhase = "open"
  /\ \A s \in S : IsIdle(s)
  /\ phase' = [s \in Sessions |->
                 IF s \notin S THEN phase[s]
                 ELSE IF ok THEN "open" ELSE "eviction_failed"]
  /\ active' = [s \in Sessions |-> IF ok /\ s \in S THEN 0 ELSE active[s]]
  /\ calls' = Settle({}, NotifiedGlobalIdle(activeOperations, maintenanceOwners))
  /\ UNCHANGED <<globalPhase, activeOperations, maintenanceOwners, shutdownCalled>>

\* The phases withGlobalReset and shutdown start from.
GlobalStartable == globalPhase \in {"open", "reset_failed"}

\* withGlobalReset, up to the first await; rejected in any context.
BeginGlobalReset(c) ==
  /\ GlobalStartable
  /\ globalPhase' = "resetting"
  /\ StartCall(c, "global_reset", NoSession, NoCall, GlobalWaitStage)
  /\ UNCHANGED <<phase, active, activeOperations, maintenanceOwners, shutdownCalled>>

CompleteGlobalReset(c, ok) ==
  /\ Live(c, "global_reset")
  /\ calls[c].stage = "running"
  /\ ~HasChild(c)
  /\ globalPhase' = IF ok THEN "open" ELSE "reset_failed"
  /\ phase' = IF ok THEN [s \in Sessions |-> "open"] ELSE phase
  /\ active' = IF ok THEN [s \in Sessions |-> 0] ELSE active
  /\ calls' = Settle({c}, {})
  /\ UNCHANGED <<activeOperations, maintenanceOwners, shutdownCalled>>

\* The first accepted shutdown(); a rejected one is not memoised.
BeginShutdown(c) ==
  /\ ~shutdownCalled
  /\ GlobalStartable
  /\ globalPhase' = "shutting_down"
  /\ shutdownCalled' = TRUE
  /\ StartCall(c, "shutdown", NoSession, NoCall, GlobalWaitStage)
  /\ UNCHANGED <<phase, active, activeOperations, maintenanceOwners>>

\* A later shutdown() returns the memoised promise before the context check.
JoinShutdown(c, p) ==
  /\ Caller(p)
  /\ ShutdownFromContext \/ p = NoCall
  /\ shutdownCalled
  /\ globalPhase = "shutting_down"
  /\ StartCall(c, "shutdown_join", NoSession, p, "waiting")
  /\ UNCHANGED <<phase, active, globalPhase, activeOperations,
                 maintenanceOwners, shutdownCalled>>

CompleteShutdown(c, ok) ==
  /\ Live(c, "shutdown")
  /\ calls[c].stage = "running"
  /\ ~HasChild(c)
  /\ globalPhase' = IF ok THEN "stopped" ELSE "shutdown_failed"
  /\ calls' = Settle({c} \cup {d \in Calls : Live(d, "shutdown_join")}, {})
  /\ UNCHANGED <<phase, active, activeOperations, maintenanceOwners, shutdownCalled>>

Complete(c) ==
  \/ CompleteOperation(c)
  \/ \E ok \in BOOLEAN :
       \/ CompleteSessionExclusive(c, ok)
       \/ CompleteGlobalReset(c, ok)
       \/ CompleteShutdown(c, ok)

Begin(c) ==
  \/ BeginGlobalReset(c)
  \/ BeginShutdown(c)
  \/ \E p \in Calls \cup {NoCall} :
       \/ JoinShutdown(c, p)
       \/ \E s \in Sessions :
            \/ RunOperation(c, p, s)
            \/ \E x \in SessionExclusives, retryFailed \in BOOLEAN :
                 BeginSessionExclusive(c, p, s, x, retryFailed)

Next ==
  \/ \E c \in Calls : Begin(c) \/ Enter(c) \/ Complete(c)
  \/ \E S \in SUBSET Sessions, ok \in BOOLEAN : TryEvictIdleSessions(S, ok)

Spec == Init /\ [][Next]_vars

\* Resumed microtasks run, and every callback settles.  A callback that makes
\* nested calls can settle only between them, hence strong fairness.
Fairness == \A c \in Calls : WF_vars(Enter(c)) /\ SF_vars(Complete(c))

FairSpec == Spec /\ Fairness

-----------------------------------------------------------------------------
(***************************************************************************)
(* Properties.                                                             *)
(***************************************************************************)

\* Every variable has its type (the fields of SessionLifecycleCoordinator).
TypeOK ==
  /\ calls \in [Calls -> Call]
  /\ phase \in [Sessions -> SessionPhases]
  /\ active \in [Sessions -> Nat]
  /\ globalPhase \in GlobalPhases
  /\ activeOperations \in Nat
  /\ maintenanceOwners \in Nat
  /\ shutdownCalled \in BOOLEAN

Running(c, K) == calls[c].kind \in K /\ calls[c].stage = "running"

\* While a reset or eviction callback of a session runs, no operation of that
\* session is admitted and no other exclusive of it runs; while a global reset
\* or shutdown callback runs, no other callback of the coordinator runs
\* (_waitSessionIdle and _waitGlobalIdle against every admission path).
Exclusion ==
  \A c, d \in Calls : c # d =>
    /\ Running(c, SessionExclusives) =>
         ~(Running(d, SessionExclusives \cup {"operation"}) /\
           calls[d].session = calls[c].session)
    /\ Running(c, GlobalExclusives) =>
         ~Running(d, GlobalExclusives \cup SessionExclusives \cup {"operation"})

\* While an exclusive callback runs, runMutation lets nobody but that callback
\* mutate what it owns: neither a top-level caller nor a callback of another
\* session that kept its context.
MutationIsolation ==
  \A c \in Calls, s \in Sessions, p \in Calls \cup {NoCall} :
    /\ \/ Running(c, SessionExclusives) /\ calls[c].session = s
       \/ Running(c, GlobalExclusives)
    /\ Caller(p)
    /\ MutationAdmitted(p, s)
    => p = c

\* A call that sleeps in _waitSessionIdle or _waitGlobalIdle still has someone
\* left to wake it: its scope is not idle.  (_release and _notifyGlobalIdle are
\* the only places that resolve the waiters.)
NoLostWakeup ==
  \A c \in Calls : calls[c].stage = "waiting" =>
    /\ calls[c].kind \in SessionExclusives => active[calls[c].session] > 0
    /\ calls[c].kind \in GlobalExclusives => activeOperations + maintenanceOwners > 0
    /\ calls[c].kind = "shutdown_join" => \E d \in Calls : Live(d, "shutdown")

\* The counters the waits are decided on count the calls that really run: no
\* path (success, failure, deletion of the session entry) loses or repeats a
\* release.
CountersAgree ==
  /\ \A s \in Sessions : active[s] = Cardinality({c \in Calls : LiveOn(c, {"operation"}, s)})
  /\ activeOperations = Cardinality({c \in Calls : Live(c, "operation")})
  /\ maintenanceOwners = Cardinality({c \in Calls : calls[c].kind \in SessionExclusives})

\* A phase in which maintenance runs is owned by exactly one live call, and the
\* other way round: a session cannot be left "resetting" with nobody resetting.
PhaseOwned ==
  /\ \A s \in Sessions, x \in SessionExclusives :
       phase[s] = ActivePhase(x) <=> \E c \in Calls : LiveOn(c, {x}, s)
  /\ globalPhase = "resetting" <=> \E c \in Calls : Live(c, "global_reset")
  /\ globalPhase = "shutting_down" <=> \E c \in Calls : Live(c, "shutdown")

\* The shape of a call: which kinds have a session and which stages they reach.
WellFormed ==
  \A c \in Calls :
    /\ calls[c].kind = "none" => calls[c] = NoActivity
    /\ calls[c].kind # "none" => calls[c].stage # "idle"
    /\ calls[c].kind \in SessionExclusives \cup {"operation"} => calls[c].session \in Sessions
    /\ calls[c].kind = "operation" => calls[c].stage = "running"
    /\ calls[c].kind = "shutdown_join" => calls[c].stage = "waiting"

\* One owner per maintained session and one global owner.
SingleOwner ==
  \A c, d \in Calls :
    /\ /\ calls[c].kind \in SessionExclusives
       /\ calls[d].kind \in SessionExclusives
       /\ calls[c].session = calls[d].session
       => c = d
    /\ calls[c].kind \in GlobalExclusives /\ calls[d].kind \in GlobalExclusives => c = d

\* A call whose wait is over found its scope idle, and it stays idle.
WaitOver ==
  \A c \in Calls : calls[c].stage \in {"ready", "running"} =>
    /\ calls[c].kind \in SessionExclusives => active[calls[c].session] = 0
    /\ calls[c].kind \in GlobalExclusives => activeOperations = 0 /\ maintenanceOwners = 0

\* The inductive invariant behind Exclusion, MutationIsolation and the lock.
IInv ==
  /\ TypeOK
  /\ WellFormed
  /\ CountersAgree
  /\ PhaseOwned
  /\ SingleOwner
  /\ WaitOver
  /\ NoLostWakeup

\* A failed reset or eviction is repaired only by a retry of the same kind or by
\* a committed global reset (docs/reliability-contract.md:77-82): the session is
\* never reopened, or given to the other kind of maintenance, in between.
FailureSticky ==
  [][\A s \in Sessions, x \in SessionExclusives :
       phase[s] = FailedPhase(x) =>
         \/ phase'[s] \in {FailedPhase(x), ActivePhase(x)}
         \/ globalPhase = "resetting" /\ globalPhase' = "open"]_vars

\* Shutdown is final: once accepted, no reset in progress and no later caller
\* reopens admission, and its callback is entered at most once.
ShutdownFinal ==
  [][shutdownCalled =>
       /\ globalPhase' \in {"shutting_down", "stopped", "shutdown_failed"}
       /\ globalPhase # "shutting_down" => globalPhase' = globalPhase]_vars

\* Outcomes stand: a failed session stays closed until its own retry or a
\* committed global reset, and shutdown is never undone.
OutcomesStand == FailureSticky /\ ShutdownFinal

\* Every call settles: exclusives get their turn although admissions are not
\* queued, and no set of calls waits on each other.
EveryCallSettles ==
  \A c \in Calls : calls[c].stage # "idle" ~> calls[c].stage = "idle"

\* The lifecycle implements a two-level readers-writer lock whose holders are
\* the callbacks that run.
LockOperations == [s \in Sessions |-> {c \in Calls : LiveOn(c, {"operation"}, s)}]
LockMaintainer ==
  [s \in Sessions |->
     IF \E c \in Calls : Running(c, SessionExclusives) /\ calls[c].session = s
     THEN CHOOSE c \in Calls : Running(c, SessionExclusives) /\ calls[c].session = s
     ELSE NoCall]
LockGlobalOwner ==
  IF \E c \in Calls : Running(c, GlobalExclusives)
  THEN CHOOSE c \in Calls : Running(c, GlobalExclusives)
  ELSE NoCall

Lock == INSTANCE ScopedExclusion
  WITH Holders <- Calls, NoHolder <- NoCall, operations <- LockOperations,
       maintainer <- LockMaintainer, globalOwner <- LockGlobalOwner

LockSpec == Lock!Spec

=============================================================================
