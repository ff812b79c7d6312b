--------------------------- MODULE ConnectionPool ---------------------------
(***************************************************************************)
(* ConnectionPool and its Session: slots with a child server each, created *)
(* one at a time, used by operations, closed by callers, timeouts, the     *)
(* clean-up timer and dispose().                                           *)
(*                                                                         *)
(* A name stands for one Session object while the pool owns it; an id is   *)
(* random and never returns in the code, so a free name is a new id.       *)
(***************************************************************************)
EXTENDS Naturals, FiniteSets

CONSTANTS
  Sessions,      \* names of slots
  Callers,       \* concurrent createSession and runWithSession calls
  NoSession,     \* no slot
  NoCaller,      \* nobody
  MaxSessions    \* _maxSessions

ASSUME ConstantsAssumption ==
  /\ IsFiniteSet(Sessions)
  /\ NoSession \notin Sessions
  /\ NoCaller \notin Callers
  /\ MaxSessions \in Nat \ {0}

VARIABLES
  live,         \* _sessions: the slots that admit operations
  owned,        \* _ownedSessions: the slots whose server may run
  closing,      \* the attempt of each slot in _closingSessions, or "none"
  calls,        \* what each caller does, and on which slot
  creator,      \* the holder of _createSessionLock
  terminated,   \* _terminated
  generation,   \* _terminationGeneration: "none", "running", or "resolved"
  attempts,     \* outcome of the generation's attempt per slot
  awaited       \* the creation the generation waits for

vars == <<live, owned, closing, calls, creator, terminated, generation, attempts, awaited>>

poolVars == <<creator, terminated, generation, awaited>>

Idle == [stage |-> "idle", session |-> NoSession]

Is(c, stage) == calls[c].stage = stage

\* _activeOperationCount of s counts these callers.
Operating(s) == {c \in Callers : calls[c] = [stage |-> "operating", session |-> s]}

Becomes(c, stage, s) == calls' = [calls EXCEPT ![c] = [stage |-> stage, session |-> s]]

Init ==
  /\ live = {}
  /\ owned = {}
  /\ closing = [s \in Sessions |-> "none"]
  /\ calls = [c \in Callers |-> Idle]
  /\ creator = NoCaller
  /\ terminated = FALSE
  /\ generation = "none"
  /\ attempts = [s \in Sessions |-> "none"]
  /\ awaited = NoCaller

-----------------------------------------------------------------------------
(* Closing.                                                                *)

\* Session.close: the server stops when the last operation has ended.
Close(s) == IF Operating(s) = {} THEN "stopping" ELSE "draining"

\* The slots of S leave _sessions; a slot that is being closed joins its attempt.
ClosingAfter(S) ==
  [s \in Sessions |-> IF s \in S /\ closing[s] = "none" THEN Close(s) ELSE closing[s]]

\* _coordinateCleanup of the slots in S, for the generation if there is one.
\* An attempt of the generation is not repeated.
CoordinateCleanup(S) ==
  LET T == {s \in S : generation = "none" \/ attempts[s] = "none"} IN
  /\ live' = live \ T
  /\ closing' = ClosingAfter(T)
  /\ attempts' = [s \in Sessions |->
                    IF s \in T /\ generation # "none" THEN "pending" ELSE attempts[s]]

\* closeSession, or the timeout of a slot.
CloseSession(s) ==
  /\ s \in owned
  /\ CoordinateCleanup({s})
  /\ UNCHANGED <<owned, calls, poolVars>>

\* The clean-up timer; dispose() clears it.
CleanupTimedOutSessions(S) ==
  /\ ~terminated
  /\ S \subseteq owned
  /\ live' = live \ S
  /\ closing' = ClosingAfter(S)
  /\ UNCHANGED <<owned, calls, attempts, poolVars>>

\* server.stop() settles: a failure leaves the slot owned, to be closed again.
StopSettles(s, ok) ==
  /\ closing[s] = "stopping"
  /\ closing' = [closing EXCEPT ![s] = "none"]
  /\ owned' = IF ok THEN owned \ {s} ELSE owned
  /\ attempts' = [attempts EXCEPT ![s] =
                    IF @ = "pending" THEN IF ok THEN "closed" ELSE "failed" ELSE @]
  /\ UNCHANGED <<live, calls, poolVars>>

-----------------------------------------------------------------------------
(* Creation.                                                               *)

\* Mutant: the slots that admit operations are counted.
RoomAmongLive == Cardinality(live) < MaxSessions

\* Slots count until their server has stopped.
Room == Cardinality(owned) < MaxSessions

\* createSession waits for the creation in progress.
QueueCreate(c) ==
  /\ Is(c, "idle")
  /\ creator # NoCaller
  /\ Becomes(c, "queued", NoSession)
  /\ UNCHANGED <<live, owned, closing, attempts, poolVars>>

\* The lock is free: refuse, or take it and call the factory.
CreateSession(c) ==
  /\ Is(c, "idle") \/ Is(c, "queued")
  /\ creator = NoCaller
  /\ IF ~terminated /\ Room
     THEN Becomes(c, "creating", NoSession) /\ creator' = c
     ELSE Is(c, "queued") /\ calls' = [calls EXCEPT ![c] = Idle] /\ UNCHANGED creator
  /\ UNCHANGED <<live, owned, closing, attempts, terminated, generation, awaited>>

\* The finally block of createSession: whoever waits for the lock may go on.
EndCreate(c) ==
  /\ calls' = [calls EXCEPT ![c] = Idle]
  /\ creator' = NoCaller
  /\ awaited' = IF awaited = c THEN NoCaller ELSE awaited

FactoryFails(c) ==
  /\ Is(c, "creating")
  /\ EndCreate(c)
  /\ UNCHANGED <<live, owned, closing, attempts, terminated, generation>>

\* Mutant: a server that arrives after dispose() is published all the same.
FactoryReturnsLate(c, s) ==
  /\ Is(c, "creating")
  /\ s \notin owned
  /\ owned' = owned \cup {s}
  /\ live' = live \cup {s}
  /\ EndCreate(c)
  /\ UNCHANGED <<closing, attempts, terminated, generation>>

\* The server has started: the slot is published, or closed if dispose() came
\* meanwhile; createSession then awaits that attempt.
FactoryReturns(c, s) ==
  /\ Is(c, "creating")
  /\ s \notin owned
  /\ Operating(s) = {} /\ attempts[s] = "none"   \* a free name
  /\ owned' = owned \cup {s}
  /\ IF terminated
     THEN /\ CoordinateCleanup({s})
          /\ Becomes(c, "aborting", s)
          /\ UNCHANGED <<creator, awaited>>
     ELSE /\ live' = live \cup {s}
          /\ EndCreate(c)
          /\ UNCHANGED <<closing, attempts>>
  /\ UNCHANGED <<terminated, generation>>

\* The attempt on the slot that came too late has settled.
AbortCreate(c) ==
  /\ Is(c, "aborting")
  /\ attempts[calls[c].session] \in {"closed", "failed"}
  /\ EndCreate(c)
  /\ UNCHANGED <<live, owned, closing, attempts, terminated, generation>>

-----------------------------------------------------------------------------
(* Operations.                                                             *)

\* _runWithSession admits an operation; nested ones run inside its count.
RunWithSession(c, s) ==
  /\ Is(c, "idle")
  /\ s \in live
  /\ Becomes(c, "operating", s)
  /\ UNCHANGED <<live, owned, closing, attempts, poolVars>>

\* Mutant: the count is looked at before it is decremented.
DrainedBefore(c, s) == FALSE

\* The last operation resolves _operationDrain.
DrainedBy(c, s) == Operating(s) = {c}

\* runWhileActive's finally; the server of a drained slot is stopped.
EndOperation(c) ==
  LET s == calls[c].session IN
  /\ Is(c, "operating")
  /\ calls' = [calls EXCEPT ![c] = Idle]
  /\ closing' = [closing EXCEPT ![s] = IF @ = "draining" /\ DrainedBy(c, s) THEN "stopping" ELSE @]
  /\ UNCHANGED <<live, owned, attempts, poolVars>>

-----------------------------------------------------------------------------
(* Disposal.                                                               *)

\* dispose() without a generation: a first call, or one after a failure.
Dispose ==
  /\ generation = "none"
  /\ generation' = "running"
  /\ terminated' = TRUE
  /\ awaited' = creator
  /\ live' = live \ owned
  /\ closing' = ClosingAfter(owned)
  /\ attempts' = [s \in Sessions |-> IF s \in owned THEN "pending" ELSE "none"]
  /\ UNCHANGED <<owned, calls, creator>>

\* _completeTerminationGeneration: the awaited creation is over, and every
\* attempt has settled.  A failed generation gives way to the next dispose().
CompleteDisposal ==
  /\ generation = "running"
  /\ awaited = NoCaller
  /\ \A s \in Sessions : attempts[s] # "pending"
  /\ IF \E s \in Sessions : attempts[s] = "failed"
     THEN generation' = "none" /\ attempts' = [s \in Sessions |-> "none"]
     ELSE generation' = "resolved" /\ UNCHANGED attempts
  /\ UNCHANGED <<live, owned, closing, calls, creator, terminated, awaited>>

-----------------------------------------------------------------------------

Proceed(c) ==
  \/ Is(c, "queued") /\ CreateSession(c)
  \/ FactoryFails(c) \/ AbortCreate(c) \/ EndOperation(c)
  \/ \E s \in Sessions : FactoryReturns(c, s)

Next ==
  \/ \E c \in Callers :
       \/ CreateSession(c) \/ QueueCreate(c)
       \/ FactoryFails(c) \/ AbortCreate(c) \/ EndOperation(c)
       \/ \E s \in Sessions : FactoryReturns(c, s) \/ RunWithSession(c, s)
  \/ \E s \in Sessions :
       \/ CloseSession(s)
       \/ \E ok \in BOOLEAN : StopSettles(s, ok)
  \/ \E S \in SUBSET owned : CleanupTimedOutSessions(S)
  \/ Dispose
  \/ CompleteDisposal

Spec == Init /\ [][Next]_vars

\* Factories, operations and stop() settle, and continuations run.  Waiting
\* creations resume in the order in which they began to wait, so each gets its
\* turn at the lock although others take it in between.
Fairness ==
  /\ \A c \in Callers : SF_vars(Proceed(c))
  /\ \A s \in Sessions : WF_vars(\E ok \in BOOLEAN : StopSettles(s, ok))
  /\ WF_vars(CompleteDisposal)

FairSpec == Spec /\ Fairness

-----------------------------------------------------------------------------
(* Properties.                                                             *)

\* Every variable has its type.
TypeOK ==
  /\ live \in SUBSET owned
  /\ owned \in SUBSET Sessions
  /\ closing \in [Sessions -> {"none", "draining", "stopping"}]
  /\ calls \in [Callers -> [stage : {"idle", "queued", "creating"}, session : {NoSession}]
                            \cup [stage : {"aborting", "operating"}, session : Sessions]]
  /\ creator \in Callers \cup {NoCaller}
  /\ terminated \in BOOLEAN
  /\ generation \in {"none", "running", "resolved"}
  /\ attempts \in [Sessions -> {"none", "pending", "closed", "failed"}]
  /\ awaited \in Callers \cup {NoCaller}

\* _maxSessions bounds the child servers that may run: published slots, slots that
\* drain or whose stop failed, and the one the factory is starting.
CapacityHeld ==
  Cardinality(owned) + Cardinality({c \in Callers : Is(c, "creating")}) <= MaxSessions

\* A server is stopped, or given up, only when no operation runs on it, and no
\* operation is admitted to a slot from its first close on.
ServersStopIdle ==
  \A s \in Sessions :
    /\ closing[s] = "stopping" \/ s \notin owned => Operating(s) = {}
    /\ closing[s] # "none" => s \in owned \ live

\* A disposal that resolves leaves no server behind, not even one that the
\* factory was starting when it began.
DisposalIsComplete ==
  generation = "resolved" =>
    owned = {} /\ \A c \in Callers : calls[c].stage \in {"idle", "queued"}

\* The creation lock is held exactly while a creation is under way, and a
\* creation under way has kept its room.
CreationIsAlone ==
  /\ \A c \in Callers : calls[c].stage \in {"creating", "aborting"} <=> creator = c
  /\ Cardinality(owned) <= MaxSessions
  /\ \A c \in Callers : Is(c, "creating") => Cardinality(owned) < MaxSessions

\* A generation has tried every slot, and waits for the creation that was under
\* way; no creation outlives the generation that saw it.
GenerationIsComplete ==
  /\ generation # "none" =>
       /\ terminated
       /\ \A s \in owned : attempts[s] \in {"pending", "failed"}
       /\ creator # NoCaller => awaited = creator
  /\ terminated /\ generation = "none" => creator = NoCaller
  /\ generation = "resolved" => owned = {} /\ creator = NoCaller

\* The inductive invariant behind the three safety properties.
IInv ==
  /\ TypeOK
  /\ ServersStopIdle
  /\ CreationIsAlone
  /\ GenerationIsComplete

\* Every creation, closing attempt and disposal settles.
EveryWaitEnds ==
  /\ \A c \in Callers : calls[c].stage # "idle" ~> calls[c].stage = "idle"
  /\ \A s \in Sessions : closing[s] # "none" ~> closing[s] = "none"
  /\ generation = "running" ~> generation # "running"

=============================================================================
