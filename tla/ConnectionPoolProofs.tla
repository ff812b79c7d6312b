------------------------ MODULE ConnectionPoolProofs ------------------------
(***************************************************************************)
(* Theorems about ConnectionPool, for any finite set of names, any callers *)
(* and any limit: the inductive invariant IInv and what follows from it.   *)
(***************************************************************************)
EXTENDS ConnectionPool, FiniteSetTheorems, TLAPS

\* The sets of slots and of creations are finite.
LEMMA OwnedIsFinite ==
  ASSUME owned \in SUBSET Sessions
  PROVE  IsFiniteSet(owned) /\ Cardinality(owned) \in Nat
BY ConstantsAssumption, FS_Subset, FS_CardinalityType

\* Giving up a slot makes room, publishing one takes it.
LEMMA OwnedCount ==
  ASSUME owned \in SUBSET Sessions, NEW s \in Sessions
  PROVE  /\ s \in owned => Cardinality(owned \ {s}) = Cardinality(owned) - 1
         /\ s \notin owned => Cardinality(owned \cup {s}) = Cardinality(owned) + 1
BY OwnedIsFinite, FS_AddElement, FS_RemoveElement

\* Nothing is owned, used or closed at first.
LEMMA InitIInv == Init => IInv
<1> SUFFICES ASSUME Init PROVE IInv
  OBVIOUS
<1>1. TypeOK
  BY ConstantsAssumption DEF Init, TypeOK, Idle
<1>2. ServersStopIdle
  BY ConstantsAssumption DEF Init, ServersStopIdle, Operating, Idle
<1>3. CreationIsAlone
  BY ConstantsAssumption, FS_EmptySet DEF Init, CreationIsAlone, Idle, Is
<1>4. GenerationIsComplete
  BY DEF Init, GenerationIsComplete
<1> QED
  BY <1>1, <1>2, <1>3, <1>4 DEF IInv

\* Closing slots: whoever asks, a slot leaves the admitting set as its closing begins.
LEMMA ClosingStep ==
  ASSUME IInv, NEW S, S \subseteq owned,
         live' = live \ S, closing' = ClosingAfter(S),
         attempts' \in [Sessions -> {"none", "pending", "closed", "failed"}],
         UNCHANGED <<owned, calls, creator, terminated, awaited>>
  PROVE  /\ ServersStopIdle' /\ CreationIsAlone'
         /\ generation' \in {"none", "running", "resolved"} => TypeOK'
<1>1. owned' = owned /\ calls' = calls /\ S \subseteq Sessions
  BY DEF IInv, TypeOK
<1>2. closing' \in [Sessions -> {"none", "draining", "stopping"}]
  BY DEF IInv, TypeOK, ClosingAfter, Close
<1>3. ASSUME NEW s \in Sessions PROVE Operating(s)' = Operating(s)
  BY <1>1 DEF Operating
<1>4. ServersStopIdle'
  <2> SUFFICES ASSUME NEW s \in Sessions
               PROVE  /\ closing'[s] = "stopping" \/ s \notin owned' => Operating(s)' = {}
                      /\ closing'[s] # "none" => s \in owned' \ live'
    BY DEF ServersStopIdle
  <2>1. CASE s \in S /\ closing[s] = "none"
    BY <1>1, <1>3, <2>1 DEF ClosingAfter, Close
  <2>2. CASE ~(s \in S /\ closing[s] = "none")
    <3>1. closing'[s] = closing[s]
      BY <2>2 DEF ClosingAfter
    <3> QED
      BY <1>1, <1>3, <3>1 DEF IInv, ServersStopIdle
  <2> QED
    BY <2>1, <2>2
<1>5. CreationIsAlone'
  BY <1>1 DEF IInv, CreationIsAlone, Is
<1>6. generation' \in {"none", "running", "resolved"} => TypeOK'
  BY <1>1, <1>2 DEF IInv, TypeOK
<1> QED
  BY <1>4, <1>5, <1>6

\* A caller or a timeout closes a slot.
LEMMA CloseSessionStep ==
  ASSUME IInv, NEW s \in Sessions, CloseSession(s)
  PROVE  IInv'
<1>1. PICK T \in SUBSET {s} :
        /\ live' = live \ T
        /\ closing' = ClosingAfter(T)
        /\ attempts' = [q \in Sessions |->
                          IF q \in T /\ generation # "none" THEN "pending" ELSE attempts[q]]
  BY DEF CloseSession, CoordinateCleanup
<1>2. attempts' \in [Sessions -> {"none", "pending", "closed", "failed"}]
  BY <1>1 DEF IInv, TypeOK
<1>3. ServersStopIdle' /\ CreationIsAlone' /\ TypeOK'
  BY <1>1, <1>2, ClosingStep DEF CloseSession, poolVars, IInv, TypeOK
<1>4. GenerationIsComplete'
  BY <1>1 DEF IInv, TypeOK, CloseSession, poolVars, GenerationIsComplete
<1> QED
  BY <1>3, <1>4 DEF IInv

\* The clean-up timer closes the slots that have timed out.
LEMMA CleanupStep ==
  ASSUME IInv, NEW S, CleanupTimedOutSessions(S)
  PROVE  IInv'
<1>1. ServersStopIdle' /\ CreationIsAlone' /\ TypeOK'
  BY ClosingStep DEF CleanupTimedOutSessions, poolVars, IInv, TypeOK
<1>2. GenerationIsComplete'
  BY DEF IInv, CleanupTimedOutSessions, poolVars, GenerationIsComplete
<1> QED
  BY <1>1, <1>2 DEF IInv

\* A disposal closes every slot and remembers the creation under way.
LEMMA DisposeStep ==
  ASSUME IInv, Dispose
  PROVE  IInv'
<1>1. owned' = owned /\ calls' = calls /\ creator' = creator
  BY DEF Dispose
<1>2. closing' \in [Sessions -> {"none", "draining", "stopping"}]
  BY DEF IInv, TypeOK, Dispose, ClosingAfter, Close
<1>3. attempts' \in [Sessions -> {"none", "pending", "closed", "failed"}]
  BY DEF Dispose
<1>4. TypeOK'
  BY <1>1, <1>2, <1>3 DEF IInv, TypeOK, Dispose
<1>5. ServersStopIdle'
  <2> SUFFICES ASSUME NEW s \in Sessions
               PROVE  /\ closing'[s] = "stopping" \/ s \notin owned' => Operating(s)' = {}
                      /\ closing'[s] # "none" => s \in owned' \ live'
    BY DEF ServersStopIdle
  <2>1. Operating(s)' = Operating(s)
    BY <1>1 DEF Operating
  <2>2. live' = live \ owned
    BY DEF Dispose
  <2>3. closing'[s] = IF s \in owned /\ closing[s] = "none" THEN Close(s) ELSE closing[s]
    BY DEF Dispose, ClosingAfter
  <2> QED
    BY <1>1, <2>1, <2>2, <2>3 DEF IInv, ServersStopIdle, Close
<1>6. CreationIsAlone'
  BY <1>1 DEF IInv, CreationIsAlone, Is
<1>7. GenerationIsComplete'
  BY DEF IInv, TypeOK, Dispose, GenerationIsComplete
<1> QED
  BY <1>4, <1>5, <1>6, <1>7 DEF IInv

\* A generation that ends has no creation left to wait for.
LEMMA CompleteDisposalStep ==
  ASSUME IInv, CompleteDisposal
  PROVE  IInv'
<1>1. TypeOK'
  BY DEF IInv, TypeOK, CompleteDisposal
<1>2. ServersStopIdle' /\ CreationIsAlone'
  BY DEF IInv, CompleteDisposal, ServersStopIdle, CreationIsAlone, Operating, Is
<1>3. creator = NoCaller
  BY ConstantsAssumption DEF IInv, TypeOK, CompleteDisposal, GenerationIsComplete
<1>4. GenerationIsComplete'
  BY <1>3 DEF IInv, TypeOK, CompleteDisposal, GenerationIsComplete
<1> QED
  BY <1>1, <1>2, <1>4 DEF IInv

\* A stop settles, and the slot is given up if it succeeded.
LEMMA StopSettlesStep ==
  ASSUME IInv, NEW s \in Sessions, NEW ok \in BOOLEAN, StopSettles(s, ok)
  PROVE  IInv'
<1>1. calls' = calls /\ creator' = creator /\ live' = live /\ owned' \subseteq owned
  BY DEF StopSettles, poolVars
<1>2. s \in owned \ live /\ Operating(s) = {}
  BY DEF StopSettles, IInv, ServersStopIdle
<1>3. TypeOK'
  <2>1. live' \subseteq owned'
    BY <1>1, <1>2 DEF IInv, TypeOK, StopSettles
  <2>2. attempts' \in [Sessions -> {"none", "pending", "closed", "failed"}]
    BY DEF IInv, TypeOK, StopSettles
  <2> QED
    BY <1>1, <2>1, <2>2 DEF IInv, TypeOK, StopSettles, poolVars
<1>4. ServersStopIdle'
  <2> SUFFICES ASSUME NEW q \in Sessions
               PROVE  /\ closing'[q] = "stopping" \/ q \notin owned' => Operating(q)' = {}
                      /\ closing'[q] # "none" => q \in owned' \ live'
    BY DEF ServersStopIdle
  <2>1. Operating(q)' = Operating(q)
    BY <1>1 DEF Operating
  <2>2. closing'[q] = IF q = s THEN "none" ELSE closing[q]
    BY DEF IInv, TypeOK, StopSettles
  <2> QED
    BY <1>1, <1>2, <2>1, <2>2 DEF IInv, ServersStopIdle, StopSettles
<1>5. CreationIsAlone'
  <2>1. Cardinality(owned') <= Cardinality(owned)
    BY <1>1, OwnedIsFinite, FS_Subset DEF IInv, TypeOK
  <2>2. Cardinality(owned') \in Nat /\ Cardinality(owned) \in Nat
    BY <1>1, OwnedIsFinite, FS_Subset, FS_CardinalityType DEF IInv, TypeOK
  <2> QED
    BY <1>1, <2>1, <2>2, ConstantsAssumption DEF IInv, CreationIsAlone, Is
<1>6. GenerationIsComplete'
  BY <1>1 DEF IInv, TypeOK, StopSettles, poolVars, GenerationIsComplete
<1> QED
  BY <1>3, <1>4, <1>5, <1>6 DEF IInv

\* A caller waits for the lock, or comes to nothing.
LEMMA QueueCreateStep ==
  ASSUME IInv, NEW c \in Callers, QueueCreate(c)
  PROVE  IInv'
<1>1. calls' = [calls EXCEPT ![c] = [stage |-> "queued", session |-> NoSession]]
  BY DEF QueueCreate, Becomes
<1>2. TypeOK'
  BY <1>1 DEF IInv, TypeOK, QueueCreate, poolVars
<1>3. \A s \in Sessions : Operating(s)' \subseteq Operating(s)
  BY <1>1 DEF IInv, TypeOK, Operating
<1>4. ServersStopIdle'
  BY <1>3 DEF IInv, ServersStopIdle, QueueCreate
<1>5. CreationIsAlone'
  BY <1>1 DEF IInv, TypeOK, CreationIsAlone, QueueCreate, poolVars, Is
<1>6. GenerationIsComplete'
  BY DEF IInv, GenerationIsComplete, QueueCreate, poolVars
<1> QED
  BY <1>2, <1>4, <1>5, <1>6 DEF IInv

\* A caller takes the lock when there is room, or is refused.
LEMMA CreateSessionStep ==
  ASSUME IInv, NEW c \in Callers, CreateSession(c)
  PROVE  IInv'
<1>1. calls[c].stage \in {"idle", "queued"}
  BY DEF CreateSession, Is
<1>2. PICK x \in {"creating", "idle"} :
        /\ calls' = [calls EXCEPT ![c] = [stage |-> x, session |-> NoSession]]
        /\ x = "creating" => creator' = c /\ ~terminated /\ Room
        /\ x = "idle" => creator' = creator
  BY DEF CreateSession, Becomes, Idle
<1>3. TypeOK'
  BY <1>2 DEF IInv, TypeOK, CreateSession
<1>4. \A s \in Sessions : Operating(s)' \subseteq Operating(s)
  BY <1>2 DEF IInv, TypeOK, Operating
<1>5. ServersStopIdle'
  BY <1>4 DEF IInv, ServersStopIdle, CreateSession
<1>6. creator = NoCaller /\ owned' = owned
  BY DEF CreateSession
<1>7. CreationIsAlone'
  <2>1. \A d \in Callers : calls'[d].stage \in {"creating", "aborting"} <=> creator' = d
    BY <1>1, <1>2, <1>6, ConstantsAssumption DEF IInv, TypeOK, CreationIsAlone
  <2>2. \A d \in Callers : calls'[d].stage = "creating" => Cardinality(owned) < MaxSessions
    BY <1>1, <1>2 DEF IInv, TypeOK, CreationIsAlone, Is, Room
  <2> QED
    BY <1>6, <2>1, <2>2 DEF IInv, CreationIsAlone, Is
<1>8. GenerationIsComplete'
  BY <1>2, <1>6 DEF IInv, GenerationIsComplete, CreateSession
<1> QED
  BY <1>3, <1>5, <1>7, <1>8 DEF IInv

\* A creation that ends without a slot releases the lock.
LEMMA EndCreateStep ==
  ASSUME IInv, NEW c \in Callers, creator = c, EndCreate(c),
         UNCHANGED <<live, owned, closing, attempts, terminated, generation>>
  PROVE  IInv'
<1>1. calls' = [calls EXCEPT ![c] = [stage |-> "idle", session |-> NoSession]]
  BY DEF EndCreate, Idle
<1>2. TypeOK'
  BY <1>1 DEF IInv, TypeOK, EndCreate
<1>3. \A s \in Sessions : Operating(s)' \subseteq Operating(s)
  BY <1>1 DEF IInv, TypeOK, Operating
<1>4. ServersStopIdle'
  BY <1>3 DEF IInv, ServersStopIdle
<1>5. CreationIsAlone'
  BY <1>1, ConstantsAssumption DEF IInv, TypeOK, CreationIsAlone, EndCreate, Is
<1>6. GenerationIsComplete'
  BY DEF IInv, GenerationIsComplete, EndCreate
<1> QED
  BY <1>2, <1>4, <1>5, <1>6 DEF IInv

\* The slot of a new server is published, or closed if a disposal came first.
LEMMA FactoryReturnsStep ==
  ASSUME IInv, NEW c \in Callers, NEW s \in Sessions, FactoryReturns(c, s)
  PROVE  IInv'
<1>1. creator = c /\ calls[c].stage = "creating"
  BY DEF IInv, CreationIsAlone, FactoryReturns, Is
<1>2. Cardinality(owned') <= MaxSessions /\ owned' = owned \cup {s} /\ s \notin owned
  <2>1. Cardinality(owned) < MaxSessions
    BY <1>1 DEF IInv, CreationIsAlone, Is
  <2>2. owned' = owned \cup {s} /\ s \notin owned
    BY DEF FactoryReturns
  <2> QED
    BY <2>1, <2>2, OwnedCount, OwnedIsFinite, ConstantsAssumption DEF IInv, TypeOK
<1>3. closing[s] = "none" /\ Operating(s) = {}
  BY <1>2 DEF IInv, TypeOK, ServersStopIdle
<1>4. CASE terminated
  <2>1. calls' = [calls EXCEPT ![c] = [stage |-> "aborting", session |-> s]]
    BY <1>4 DEF FactoryReturns, Becomes
  <2>2. UNCHANGED <<creator, awaited, terminated, generation>>
    BY <1>4 DEF FactoryReturns
  <2>3. generation = "running" /\ awaited = c
    BY <1>1, <1>4, ConstantsAssumption DEF IInv, TypeOK, GenerationIsComplete
  <2>4. attempts[s] = "none"
    BY DEF FactoryReturns
  <2>5. /\ live' = live \ {s}
        /\ closing' = [closing EXCEPT ![s] = "stopping"]
        /\ attempts' = [attempts EXCEPT ![s] = "pending"]
    <3>1. {q \in {s} : generation = "none" \/ attempts[q] = "none"} = {s}
      BY <2>4
    <3>2. live' = live \ {s} /\ closing' = ClosingAfter({s})
      BY <1>4, <3>1 DEF FactoryReturns, CoordinateCleanup
    <3>3. ClosingAfter({s}) = [closing EXCEPT ![s] = "stopping"]
      BY <1>3 DEF ClosingAfter, Close, IInv, TypeOK
    <3>4. attempts' = [attempts EXCEPT ![s] = "pending"]
      BY <1>4, <2>3, <3>1 DEF FactoryReturns, CoordinateCleanup, IInv, TypeOK
    <3> QED
      BY <3>2, <3>3, <3>4
  <2>6. TypeOK'
    BY <1>2, <2>1, <2>2, <2>5 DEF IInv, TypeOK
  <2>7. \A q \in Sessions : Operating(q)' \subseteq Operating(q)
    BY <2>1 DEF IInv, TypeOK, Operating
  <2>8. ServersStopIdle'
    BY <1>2, <1>3, <2>5, <2>7 DEF IInv, TypeOK, ServersStopIdle
  <2>9. CreationIsAlone'
    <3>1. \A d \in Callers : calls'[d].stage \in {"creating", "aborting"} <=> creator' = d
      BY <1>1, <2>1, <2>2 DEF IInv, TypeOK, CreationIsAlone
    <3>2. \A d \in Callers : calls'[d].stage # "creating"
      BY <1>1, <2>1 DEF IInv, TypeOK, CreationIsAlone
    <3> QED
      BY <1>2, <3>1, <3>2 DEF CreationIsAlone, Is
  <2>10. GenerationIsComplete'
    BY <1>1, <1>2, <2>2, <2>3, <2>5 DEF IInv, TypeOK, GenerationIsComplete
  <2> QED
    BY <2>6, <2>8, <2>9, <2>10 DEF IInv
<1>5. CASE ~terminated
  <2>1. /\ live' = live \cup {s}
        /\ EndCreate(c)
        /\ UNCHANGED <<closing, attempts, terminated, generation>>
    BY <1>5 DEF FactoryReturns
  <2>2. calls' = [calls EXCEPT ![c] = [stage |-> "idle", session |-> NoSession]]
    BY <2>1 DEF EndCreate, Idle
  <2>3. TypeOK'
    BY <1>2, <2>1, <2>2 DEF IInv, TypeOK, EndCreate
  <2>4. \A q \in Sessions : Operating(q)' \subseteq Operating(q)
    BY <2>2 DEF IInv, TypeOK, Operating
  <2>5. ServersStopIdle'
    BY <1>2, <1>3, <2>1, <2>4 DEF IInv, ServersStopIdle
  <2>6. CreationIsAlone'
    <3>1. \A d \in Callers : calls'[d].stage \notin {"creating", "aborting"}
      BY <1>1, <2>2 DEF IInv, TypeOK, CreationIsAlone
    <3> QED
      BY <1>2, <2>1, <3>1, ConstantsAssumption DEF CreationIsAlone, EndCreate, Is
  <2>7. GenerationIsComplete'
    BY <1>5, <2>1 DEF IInv, GenerationIsComplete, EndCreate
  <2> QED
    BY <2>3, <2>5, <2>6, <2>7 DEF IInv
<1> QED
  BY <1>4, <1>5

\* An operation begins on a slot that admits it.
LEMMA RunWithSessionStep ==
  ASSUME IInv, NEW c \in Callers, NEW s \in Sessions, RunWithSession(c, s)
  PROVE  IInv'
<1>1. calls' = [calls EXCEPT ![c] = [stage |-> "operating", session |-> s]]
  BY DEF RunWithSession, Becomes
<1>2. TypeOK'
  BY <1>1 DEF IInv, TypeOK, RunWithSession, poolVars
<1>3. \A q \in Sessions \ {s} : Operating(q)' \subseteq Operating(q)
  BY <1>1 DEF IInv, TypeOK, Operating
<1>4. s \in owned /\ closing[s] = "none"
  BY DEF IInv, TypeOK, ServersStopIdle, RunWithSession
<1>5. ServersStopIdle'
  BY <1>3, <1>4 DEF IInv, ServersStopIdle, RunWithSession
<1>6. CreationIsAlone'
  BY <1>1 DEF IInv, TypeOK, CreationIsAlone, RunWithSession, poolVars, Is
<1>7. GenerationIsComplete'
  BY DEF IInv, GenerationIsComplete, RunWithSession, poolVars
<1> QED
  BY <1>2, <1>5, <1>6, <1>7 DEF IInv

\* An operation ends; the last one on a closing slot hands over to the stop.
LEMMA EndOperationStep ==
  ASSUME IInv, NEW c \in Callers, EndOperation(c)
  PROVE  IInv'
<1>1. PICK s : /\ s = calls[c].session
               /\ calls[c].stage = "operating"
               /\ calls' = [calls EXCEPT ![c] = [stage |-> "idle", session |-> NoSession]]
               /\ closing' = [closing EXCEPT ![s] =
                                IF @ = "draining" /\ DrainedBy(c, s) THEN "stopping" ELSE @]
  BY DEF EndOperation, Idle, Is
<1>2. TypeOK'
  <2>1. calls' \in [Callers -> [stage : {"idle", "queued", "creating"}, session : {NoSession}]
                              \cup [stage : {"aborting", "operating"}, session : Sessions]]
    BY <1>1 DEF IInv, TypeOK
  <2>2. closing' \in [Sessions -> {"none", "draining", "stopping"}]
    BY <1>1 DEF IInv, TypeOK
  <2> QED
    BY <2>1, <2>2 DEF IInv, TypeOK, EndOperation, poolVars
<1>3. \A q \in Sessions : Operating(q)' \subseteq Operating(q) \ {c}
  BY <1>1 DEF IInv, TypeOK, Operating
<1>4. \A q \in Sessions : closing'[q] # closing[q] =>
         closing[q] = "draining" /\ closing'[q] = "stopping" /\ Operating(q) = {c}
  BY <1>1 DEF IInv, TypeOK, DrainedBy
<1>5. ServersStopIdle'
  BY <1>3, <1>4 DEF IInv, ServersStopIdle, EndOperation
<1>6. CreationIsAlone'
  BY <1>1 DEF IInv, TypeOK, CreationIsAlone, EndOperation, poolVars, Is
<1>7. GenerationIsComplete'
  BY DEF IInv, GenerationIsComplete, EndOperation, poolVars
<1> QED
  BY <1>2, <1>5, <1>6, <1>7 DEF IInv

\* Every step of the pool, and every step that leaves it alone, keeps IInv.
LEMMA NextIInv == IInv /\ [Next]_vars => IInv'
<1> SUFFICES ASSUME IInv, [Next]_vars PROVE IInv'
  OBVIOUS
<1>1. ASSUME NEW c \in Callers, FactoryFails(c) \/ AbortCreate(c) PROVE IInv'
  <2>1. creator = c
    BY <1>1 DEF FactoryFails, AbortCreate, IInv, CreationIsAlone, Is
  <2> QED
    BY <1>1, <2>1, EndCreateStep DEF FactoryFails, AbortCreate
<1>2. CASE UNCHANGED vars
  BY <1>2 DEF vars, IInv, TypeOK, ServersStopIdle, Operating, CreationIsAlone, Is, GenerationIsComplete
<1>3. CASE \E c \in Callers :
             \/ CreateSession(c) \/ QueueCreate(c)
             \/ FactoryFails(c) \/ AbortCreate(c) \/ EndOperation(c)
             \/ \E s \in Sessions : FactoryReturns(c, s) \/ RunWithSession(c, s)
  BY <1>1, <1>3, CreateSessionStep, QueueCreateStep, EndOperationStep,
     FactoryReturnsStep, RunWithSessionStep
<1>4. CASE \E s \in Sessions : CloseSession(s) \/ \E ok \in BOOLEAN : StopSettles(s, ok)
  BY <1>4, CloseSessionStep, StopSettlesStep
<1>5. CASE \E S \in SUBSET owned : CleanupTimedOutSessions(S)
  BY <1>5, CleanupStep
<1> QED
  BY <1>2, <1>3, <1>4, <1>5, DisposeStep, CompleteDisposalStep DEF Next

\* The inductive invariant holds in every reachable state.
THEOREM Invariance == Spec => []IInv
BY InitIInv, NextIInv, PTL DEF Spec

\* Every variable of the pool keeps its type.
THEOREM TypeCorrect == Spec => []TypeOK
<1>1. IInv => TypeOK
  BY DEF IInv
<1> QED
  BY <1>1, Invariance, PTL

\* No server is stopped or given up under an operation, and no operation is
\* admitted to a slot that is closing.
THEOREM ServersStopWhenIdle == Spec => []ServersStopIdle
<1>1. IInv => ServersStopIdle
  BY DEF IInv
<1> QED
  BY <1>1, Invariance, PTL

\* The pool never runs more child servers than _maxSessions, the one that the
\* factory is starting included.
THEOREM CapacityBounded == Spec => []CapacityHeld
<1>1. IInv => CapacityHeld
  <2> SUFFICES ASSUME IInv PROVE CapacityHeld
    OBVIOUS
  <2>1. Cardinality(owned) \in Nat
    BY OwnedIsFinite DEF IInv, TypeOK
  <2>2. CASE \E c \in Callers : Is(c, "creating")
    <3>1. PICK c \in Callers : Is(c, "creating")
      BY <2>2
    <3>2. {d \in Callers : Is(d, "creating")} = {c}
      BY <3>1 DEF IInv, CreationIsAlone, Is
    <3>3. Cardinality({d \in Callers : Is(d, "creating")}) = 1
      BY <3>2, FS_Singleton
    <3>4. Cardinality(owned) < MaxSessions
      BY <3>1 DEF IInv, CreationIsAlone
    <3> QED
      BY <2>1, <3>3, <3>4, ConstantsAssumption DEF CapacityHeld
  <2>3. CASE ~\E c \in Callers : Is(c, "creating")
    <3>1. {d \in Callers : Is(d, "creating")} = {}
      BY <2>3
    <3>2. Cardinality({d \in Callers : Is(d, "creating")}) = 0
      BY <3>1, FS_EmptySet
    <3>3. Cardinality(owned) <= MaxSessions
      BY DEF IInv, CreationIsAlone
    <3> QED
      BY <2>1, <3>2, <3>3, ConstantsAssumption DEF CapacityHeld
  <2> QED
    BY <2>2, <2>3
<1> QED
  BY <1>1, Invariance, PTL

\* A dispose() that resolves has stopped every server, the one included that the
\* factory was starting when it was called.
THEOREM DisposalLeavesNothing == Spec => []DisposalIsComplete
<1>1. IInv => DisposalIsComplete
  <2> SUFFICES ASSUME IInv, generation = "resolved"
               PROVE  owned = {} /\ \A c \in Callers : calls[c].stage \in {"idle", "queued"}
    BY DEF DisposalIsComplete
  <2>1. owned = {} /\ creator = NoCaller
    BY DEF IInv, GenerationIsComplete
  <2> SUFFICES ASSUME NEW c \in Callers PROVE calls[c].stage \in {"idle", "queued"}
    BY <2>1
  <2>2. calls[c].stage \notin {"creating", "aborting"}
    BY <2>1, ConstantsAssumption DEF IInv, CreationIsAlone
  <2>3. calls[c].stage # "operating"
    <3>1. SUFFICES ASSUME calls[c].stage = "operating" PROVE FALSE
      OBVIOUS
    <3>2. PICK s \in Sessions : calls[c] = [stage |-> "operating", session |-> s]
      BY <3>1 DEF IInv, TypeOK
    <3>3. Operating(s) = {}
      BY <2>1 DEF IInv, ServersStopIdle
    <3> QED
      BY <3>2, <3>3 DEF Operating
  <2> QED
    BY <2>1, <2>2, <2>3 DEF IInv, TypeOK
<1> QED
  BY <1>1, Invariance, PTL
=============================================================================
