----------------------- MODULE SessionLifecycleProofs -----------------------
(***************************************************************************)
(* Proofs about SessionLifecycle, for every set of sessions and every      *)
(* finite set of concurrent calls.                                         *)
(*                                                                         *)
(* The counters of the coordinator are cardinalities of sets of calls; the *)
(* lemma of an action says which sets it changes, and IInv' follows        *)
(* conjunct by conjunct.                                                   *)
(***************************************************************************)
EXTENDS SessionLifecycle, FiniteSetTheorems, TLAPS

OperationsOn(s) == {c \in Calls : LiveOn(c, {"operation"}, s)}
Operations == {c \in Calls : Live(c, "operation")}
Owners == {c \in Calls : calls[c].kind \in SessionExclusives}

\* Counting in a subset of Calls: adding, removing and emptiness.
LEMMA Counting ==
  ASSUME NEW S, S \subseteq Calls, NEW c \in Calls
  PROVE  /\ Cardinality(S) \in Nat
         /\ c \notin S => Cardinality(S \cup {c}) = Cardinality(S) + 1
         /\ c \in S => /\ Cardinality(S \ {c}) = Cardinality(S) - 1
                       /\ Cardinality(S) > 0
         /\ Cardinality(S) = 0 <=> S = {}
<1>1. IsFiniteSet(S)
  BY ConstantsAssumption, FS_Subset
<1>2. /\ Cardinality(S) \in Nat
      /\ Cardinality(S) = 0 <=> S = {}
  BY <1>1, FS_CardinalityType, FS_EmptySet
<1>3. c \notin S => Cardinality(S \cup {c}) = Cardinality(S) + 1
  BY <1>1, FS_AddElement
<1>4. c \in S => Cardinality(S \ {c}) = Cardinality(S) - 1
  BY <1>1, FS_RemoveElement
<1>5. c \in S => Cardinality(S) > 0
  BY <1>2
<1> QED
  BY <1>2, <1>3, <1>4, <1>5

\* The counters are the sizes of the three sets, so zero means empty.
LEMMA CountersCount ==
  ASSUME CountersAgree
  PROVE  /\ \A s \in Sessions : active[s] = Cardinality(OperationsOn(s))
         /\ activeOperations = Cardinality(Operations)
         /\ maintenanceOwners = Cardinality(Owners)
BY DEF CountersAgree, OperationsOn, Operations, Owners

\* The same fact read in the other direction and in the next state.
LEMMA CountersCountNext ==
  ASSUME /\ \A s \in Sessions : active'[s] = Cardinality(OperationsOn(s)')
         /\ activeOperations' = Cardinality(Operations')
         /\ maintenanceOwners' = Cardinality(Owners')
  PROVE  CountersAgree'
BY DEF CountersAgree, OperationsOn, Operations, Owners, LiveOn, Live

LEMMA InitInv == Init => IInv
<1> SUFFICES ASSUME Init PROVE IInv
  OBVIOUS
<1> USE DEF Init, NoActivity, Live, LiveOn, SessionExclusives, GlobalExclusives
<1>1. TypeOK
  BY DEF TypeOK, Call, Kinds, SessionPhases, GlobalPhases
<1>2. CountersAgree
  <2>1. /\ \A s \in Sessions : OperationsOn(s) = {}
        /\ Operations = {}
        /\ Owners = {}
    BY DEF OperationsOn, Operations, Owners
  <2> QED
    BY <2>1, FS_EmptySet DEF CountersAgree, OperationsOn, Operations, Owners
<1>3. WellFormed /\ SingleOwner /\ WaitOver /\ NoLostWakeup
  BY DEF WellFormed, SingleOwner, WaitOver, NoLostWakeup
<1>4. PhaseOwned
  BY DEF PhaseOwned, ActivePhase
<1> QED
  BY <1>1, <1>2, <1>3, <1>4 DEF IInv

-----------------------------------------------------------------------------

LEMMA RunOperationInv ==
  ASSUME IInv, NEW c \in Calls, NEW p \in Calls \cup {NoCall}, NEW s \in Sessions,
         RunOperation(c, p, s)
  PROVE  IInv'
<1> USE DEF Live, LiveOn, SessionExclusives, GlobalExclusives
<1>1. /\ calls[c] = NoActivity
      /\ calls' = [calls EXCEPT ![c] = [kind |-> "operation", session |-> s,
                                        parent |-> p, stage |-> "running"]]
      /\ globalPhase = "open" /\ phase[s] = "open"
  BY DEF RunOperation, StartCall, AdmissionOpen
<1>2. TypeOK'
  BY <1>1 DEF RunOperation, IInv, TypeOK, Call, Kinds
<1>3. WellFormed'
  BY <1>1 DEF IInv, TypeOK, WellFormed, NoActivity
<1>4. CountersAgree'
  <2>1. /\ c \notin OperationsOn(s) /\ c \notin Operations
        /\ OperationsOn(s)' = OperationsOn(s) \cup {c}
        /\ \A r \in Sessions \ {s} : OperationsOn(r)' = OperationsOn(r)
        /\ Operations' = Operations \cup {c}
        /\ Owners' = Owners
    BY <1>1 DEF IInv, TypeOK, NoActivity, OperationsOn, Operations, Owners
  <2>2. /\ Cardinality(OperationsOn(s)') = Cardinality(OperationsOn(s)) + 1
        /\ Cardinality(Operations') = Cardinality(Operations) + 1
    BY <2>1, Counting DEF OperationsOn, Operations
  <2> QED
    BY <2>1, <2>2, CountersCount, CountersCountNext DEF IInv, TypeOK, RunOperation
<1>5. PhaseOwned'
  BY <1>1 DEF RunOperation, IInv, TypeOK, NoActivity, PhaseOwned, ActivePhase
<1>6. SingleOwner'
  BY <1>1 DEF RunOperation, IInv, TypeOK, NoActivity, SingleOwner
<1>7. \A d \in Calls : calls[d].kind \in SessionExclusives => calls[d].session # s
  BY <1>1 DEF IInv, TypeOK, PhaseOwned, ActivePhase
<1>8. \A d \in Calls : calls[d].kind \notin GlobalExclusives
  BY <1>1 DEF IInv, PhaseOwned
<1>9. WaitOver' /\ NoLostWakeup'
  BY <1>1, <1>7, <1>8 DEF RunOperation, IInv, TypeOK, NoActivity, WaitOver, NoLostWakeup
<1> QED
  BY <1>2, <1>3, <1>4, <1>5, <1>6, <1>9 DEF IInv

LEMMA CompleteOperationInv ==
  ASSUME IInv, NEW c \in Calls, CompleteOperation(c)
  PROVE  IInv'
<1> USE DEF Live, LiveOn, SessionExclusives, GlobalExclusives
<1>0. PICK s \in Sessions : s = calls[c].session
  BY DEF CompleteOperation, IInv, WellFormed
<1> DEFINE woken == ReleasedSessionWaiters(s, active[s] - 1) \cup
                    NotifiedGlobalIdle(activeOperations - 1, maintenanceOwners)
<1>1. /\ calls[c].kind = "operation"
      /\ calls' = [d \in Calls |-> IF d = c THEN NoActivity
                     ELSE IF d \in woken THEN [calls[d] EXCEPT !.stage = "ready"]
                     ELSE calls[d]]
  BY <1>0 DEF CompleteOperation, Settle
<1>u. /\ active' = [active EXCEPT ![s] = @ - 1]
       /\ activeOperations' = activeOperations - 1
       /\ UNCHANGED <<phase, globalPhase, maintenanceOwners, shutdownCalled>>
  BY <1>0 DEF CompleteOperation
<1>2. \A d \in woken : /\ d \in Calls
                       /\ calls[d].kind \in SessionExclusives \cup GlobalExclusives
                       /\ calls[d].stage = "waiting"
  BY DEF ReleasedSessionWaiters, NotifiedGlobalIdle, SessionWaiters, GlobalWaiters
<1> HIDE DEF woken
<1>3. \A d \in Calls \ {c} : /\ calls'[d].kind = calls[d].kind
                            /\ calls'[d].session = calls[d].session
  BY <1>1 DEF IInv, TypeOK, Call
<1>4. /\ c \in OperationsOn(s) /\ c \in Operations
      /\ OperationsOn(s)' = OperationsOn(s) \ {c}
      /\ \A r \in Sessions \ {s} : OperationsOn(r)' = OperationsOn(r)
      /\ Operations' = Operations \ {c}
      /\ Owners' = Owners
  <2>1. calls'[c].kind = "none"
    BY <1>1 DEF NoActivity
  <2> QED
    BY <1>0, <1>1, <1>3, <2>1 DEF OperationsOn, Operations, Owners
<1>5. /\ Cardinality(OperationsOn(s)') = active[s] - 1 /\ active[s] > 0
      /\ Cardinality(Operations') = activeOperations - 1 /\ activeOperations > 0
  <2>1. active[s] = Cardinality(OperationsOn(s)) /\ activeOperations = Cardinality(Operations)
    BY CountersCount DEF IInv
  <2>2. OperationsOn(s) \subseteq Calls /\ Operations \subseteq Calls
    BY DEF OperationsOn, Operations
  <2> QED
    BY <1>4, <2>1, <2>2, Counting
<1>6. CountersAgree'
  BY <1>u, <1>0, <1>4, <1>5, CountersCount, CountersCountNext DEF IInv, TypeOK
<1>7. TypeOK'
  BY <1>u, <1>0, <1>1, <1>5 DEF IInv, TypeOK, Call, Kinds, NoActivity
<1>8. WellFormed'
  BY <1>1, <1>2 DEF IInv, TypeOK, Call, WellFormed, NoActivity
<1>9. PhaseOwned'
  BY <1>u, <1>1, <1>3 DEF IInv, TypeOK, NoActivity, PhaseOwned, ActivePhase
<1>10. SingleOwner'
  BY <1>1, <1>3 DEF IInv, NoActivity, SingleOwner
<1>11. \A d \in Calls : d \in woken <=>
         \/ d \in SessionWaiters(s) /\ active[s] - 1 = 0
         \/ d \in GlobalWaiters /\ activeOperations - 1 = 0 /\ maintenanceOwners = 0
  BY DEF woken, ReleasedSessionWaiters, NotifiedGlobalIdle
<1>12. WaitOver'
  <2> SUFFICES ASSUME NEW d \in Calls, calls'[d].stage \in {"ready", "running"}
               PROVE  /\ calls'[d].kind \in SessionExclusives => active'[calls'[d].session] = 0
                      /\ calls'[d].kind \in GlobalExclusives =>
                           activeOperations' = 0 /\ maintenanceOwners' = 0
    BY DEF WaitOver
  <2>1. d # c
    BY <1>1 DEF NoActivity
  <2>2. CASE d \in woken
    BY <1>u, <1>0, <1>1, <1>3, <1>11, <2>1, <2>2 DEF SessionWaiters, GlobalWaiters, IInv, TypeOK
  <2>3. CASE d \notin woken
    <3>1. calls'[d] = calls[d]
      BY <1>1, <2>1, <2>3
    <3>2. /\ calls[d].kind \in SessionExclusives => calls[d].session # s
          /\ calls[d].kind \notin GlobalExclusives
      BY <1>5, <3>1 DEF IInv, WaitOver
    <3> QED
      BY <1>u, <1>0, <3>1, <3>2 DEF IInv, TypeOK, WaitOver, WellFormed
  <2> QED
    BY <2>2, <2>3
<1>13. NoLostWakeup'
  <2> SUFFICES ASSUME NEW d \in Calls, calls'[d].stage = "waiting"
               PROVE  /\ calls'[d].kind \in SessionExclusives => active'[calls'[d].session] > 0
                      /\ calls'[d].kind \in GlobalExclusives =>
                           activeOperations' + maintenanceOwners' > 0
                      /\ calls'[d].kind = "shutdown_join" =>
                           \E e \in Calls : calls'[e].kind = "shutdown"
    BY DEF NoLostWakeup
  <2>1. d # c /\ d \notin woken /\ calls'[d] = calls[d]
    BY <1>1, <1>2 DEF NoActivity, IInv, TypeOK, Call
  <2>2. calls[d].kind \in SessionExclusives => active'[calls[d].session] > 0
    BY <1>u, <1>0, <1>5, <1>11, <2>1 DEF IInv, TypeOK, WellFormed, NoLostWakeup, SessionWaiters
  <2>3. calls[d].kind \in GlobalExclusives => activeOperations' + maintenanceOwners' > 0
    BY <1>u, <1>5, <1>11, <2>1 DEF IInv, TypeOK, GlobalWaiters
  <2>4. calls[d].kind = "shutdown_join" => \E e \in Calls : calls'[e].kind = "shutdown"
    BY <1>1, <1>3, <2>1 DEF IInv, NoLostWakeup
  <2> QED
    BY <2>1, <2>2, <2>3, <2>4
<1> QED
  BY <1>6, <1>7, <1>8, <1>9, <1>10, <1>12, <1>13 DEF IInv

LEMMA BeginSessionExclusiveInv ==
  ASSUME IInv, NEW c \in Calls, NEW p \in Calls \cup {NoCall}, NEW s \in Sessions,
         NEW x \in SessionExclusives, NEW retryFailed \in BOOLEAN,
         BeginSessionExclusive(c, p, s, x, retryFailed)
  PROVE  IInv'
<1> USE DEF Live, LiveOn, SessionExclusives, GlobalExclusives
<1>1. /\ calls[c] = NoActivity
      /\ calls' = [calls EXCEPT ![c] = [kind |-> x, session |-> s, parent |-> p,
                                        stage |-> SessionWaitStage(s)]]
      /\ globalPhase = "open"
      /\ phase' = [phase EXCEPT ![s] = ActivePhase(x)]
      /\ maintenanceOwners' = maintenanceOwners + 1
      /\ UNCHANGED <<active, globalPhase, activeOperations, shutdownCalled>>
  BY DEF BeginSessionExclusive, StartCall
<1>2. phase[s] \in {"open", "reset_failed", "eviction_failed"}
  BY DEF BeginSessionExclusive, Startable, FailedPhase
<1>3. \A d \in Calls : calls[d].kind \in SessionExclusives => calls[d].session # s
  BY <1>2 DEF IInv, PhaseOwned, ActivePhase
<1>4. \A d \in Calls : calls[d].kind \notin GlobalExclusives
  BY <1>1 DEF IInv, PhaseOwned
<1>5. TypeOK'
  BY <1>1 DEF IInv, TypeOK, Call, Kinds, SessionPhases, ActivePhase, SessionWaitStage
<1>6. WellFormed'
  BY <1>1 DEF IInv, TypeOK, WellFormed, NoActivity, SessionWaitStage
<1>7. CountersAgree'
  <2>1. /\ c \notin Owners
        /\ Owners' = Owners \cup {c}
        /\ \A r \in Sessions : OperationsOn(r)' = OperationsOn(r)
        /\ Operations' = Operations
    BY <1>1 DEF IInv, TypeOK, NoActivity, OperationsOn, Operations, Owners
  <2>2. Cardinality(Owners') = Cardinality(Owners) + 1
    BY <2>1, Counting DEF Owners
  <2> QED
    BY <1>1, <2>1, <2>2, CountersCount, CountersCountNext DEF IInv
<1>8. PhaseOwned'
  BY <1>1, <1>2, <1>3 DEF IInv, TypeOK, NoActivity, PhaseOwned, ActivePhase
<1>9. SingleOwner'
  BY <1>1, <1>3 DEF IInv, TypeOK, NoActivity, SingleOwner
<1>10. WaitOver' /\ NoLostWakeup'
  BY <1>1, <1>4 DEF IInv, TypeOK, NoActivity, WaitOver, NoLostWakeup, SessionWaitStage
<1> QED
  BY <1>5, <1>6, <1>7, <1>8, <1>9, <1>10 DEF IInv

LEMMA EnterInv ==
  ASSUME IInv, NEW c \in Calls, Enter(c)
  PROVE  IInv'
<1> USE DEF Live, LiveOn, SessionExclusives, GlobalExclusives
<1>1. /\ calls[c].stage = "ready"
      /\ calls' = [calls EXCEPT ![c] = [calls[c] EXCEPT !.stage = "running"]]
      /\ UNCHANGED <<phase, active, globalPhase, activeOperations,
                     maintenanceOwners, shutdownCalled>>
  BY DEF Enter
<1>2. \A d \in Calls : /\ calls'[d].kind = calls[d].kind
                      /\ calls'[d].session = calls[d].session
  BY <1>1 DEF IInv, TypeOK, Call
<1>3. /\ calls'[c].stage = "running"
      /\ calls[c].kind \in SessionExclusives \cup GlobalExclusives
  BY <1>1 DEF IInv, TypeOK, Call, Kinds, WellFormed, NoActivity
<1>4. TypeOK'
  BY <1>1 DEF IInv, TypeOK, Call
<1>5. WellFormed' /\ SingleOwner' /\ WaitOver' /\ NoLostWakeup' /\ PhaseOwned'
  BY <1>1, <1>2, <1>3
     DEF IInv, TypeOK, Call, WellFormed, NoActivity, SingleOwner, WaitOver, NoLostWakeup, PhaseOwned
<1>6. CountersAgree'
  <2>1. ASSUME NEW r \in Sessions PROVE OperationsOn(r)' = OperationsOn(r)
    BY <1>2 DEF OperationsOn
  <2>2. Operations' = Operations
    BY <1>2 DEF Operations
  <2>3. Owners' = Owners
    BY <1>2 DEF Owners
  <2> QED
    BY <1>1, <2>1, <2>2, <2>3, CountersCount, CountersCountNext DEF IInv
<1> QED
  BY <1>4, <1>5, <1>6 DEF IInv

LEMMA CompleteSessionExclusiveInv ==
  ASSUME IInv, NEW c \in Calls, NEW ok \in BOOLEAN, CompleteSessionExclusive(c, ok)
  PROVE  IInv'
<1> USE DEF Live, LiveOn, SessionExclusives, GlobalExclusives
<1>0. PICK s \in Sessions : s = calls[c].session
  BY DEF CompleteSessionExclusive, IInv, WellFormed
<1>00. PICK x \in SessionExclusives : x = calls[c].kind
  BY DEF CompleteSessionExclusive
<1> DEFINE woken == NotifiedGlobalIdle(activeOperations, maintenanceOwners - 1)
<1>1. /\ calls[c].stage = "running"
      /\ calls' = [d \in Calls |-> IF d = c THEN NoActivity
                     ELSE IF d \in woken THEN [calls[d] EXCEPT !.stage = "ready"]
                     ELSE calls[d]]
      /\ phase' = [phase EXCEPT ![s] = IF ok THEN "open" ELSE FailedPhase(x)]
      /\ active' = IF ok THEN [active EXCEPT ![s] = 0] ELSE active
      /\ maintenanceOwners' = maintenanceOwners - 1
      /\ UNCHANGED <<globalPhase, activeOperations, shutdownCalled>>
  BY <1>0, <1>00 DEF CompleteSessionExclusive, Settle
<1>2. \A d \in Calls : d \in woken <=> /\ calls[d].kind \in GlobalExclusives
                                      /\ calls[d].stage = "waiting"
                                      /\ activeOperations = 0 /\ maintenanceOwners - 1 = 0
  BY DEF NotifiedGlobalIdle, GlobalWaiters
<1> HIDE DEF woken
<1>3. \A d \in Calls \ {c} : /\ calls'[d].kind = calls[d].kind
                            /\ calls'[d].session = calls[d].session
  BY <1>1 DEF IInv, TypeOK, Call
<1>4. calls'[c] = NoActivity /\ active[s] = 0 /\ active' = active
  BY <1>0, <1>00, <1>1 DEF IInv, TypeOK, WaitOver
<1>5. \A d \in Calls \ {c} : calls[d].kind \in SessionExclusives => calls[d].session # s
  BY <1>0, <1>00 DEF IInv, SingleOwner
<1>6. /\ c \in Owners
      /\ Owners' = Owners \ {c}
      /\ \A r \in Sessions : OperationsOn(r)' = OperationsOn(r)
      /\ Operations' = Operations
  <2>1. c \in Owners /\ Owners' = Owners \ {c}
    BY <1>00, <1>3, <1>4 DEF Owners, NoActivity
  <2>2. ASSUME NEW r \in Sessions PROVE OperationsOn(r)' = OperationsOn(r)
    BY <1>00, <1>3, <1>4 DEF OperationsOn, NoActivity
  <2>3. Operations' = Operations
    BY <1>00, <1>3, <1>4 DEF Operations, NoActivity
  <2> QED
    BY <2>1, <2>2, <2>3
<1>7. Cardinality(Owners') = maintenanceOwners - 1 /\ maintenanceOwners > 0
  <2>1. maintenanceOwners = Cardinality(Owners) /\ Owners \subseteq Calls
    BY CountersCount DEF IInv, Owners
  <2> QED
    BY <1>6, <2>1, Counting
<1>8. CountersAgree'
  BY <1>1, <1>4, <1>6, <1>7, CountersCount, CountersCountNext DEF IInv
<1>9. TypeOK'
  BY <1>1, <1>4, <1>7 DEF IInv, TypeOK, Call, Kinds, NoActivity, SessionPhases, FailedPhase
<1>10. WellFormed'
  BY <1>1, <1>2 DEF IInv, TypeOK, Call, WellFormed, NoActivity
<1>11. PhaseOwned'
  <2>1. ASSUME NEW r \in Sessions, NEW y \in SessionExclusives
        PROVE  phase'[r] = ActivePhase(y) <=> \E d \in Calls : calls'[d].kind \in {y} /\ calls'[d].session = r
    <3>1. CASE r = s
      <4>1. phase'[s] # ActivePhase(y)
        BY <1>1 DEF ActivePhase, FailedPhase, IInv, TypeOK
      <4> QED
        BY <3>1, <4>1, <1>3, <1>4, <1>5 DEF NoActivity
    <3>2. CASE r # s
      <4>1. phase'[r] = phase[r]
        BY <1>1, <3>2 DEF IInv, TypeOK
      <4>2. \A d \in Calls : calls'[d].kind \in {y} /\ calls'[d].session = r <=>
                              calls[d].kind \in {y} /\ calls[d].session = r
        BY <1>0, <1>3, <1>4, <3>2 DEF NoActivity
      <4> QED
        BY <4>1, <4>2 DEF IInv, PhaseOwned
    <3> QED
      BY <3>1, <3>2
  <2>2. \A k \in {"global_reset", "shutdown"} :
          (\E d \in Calls : calls'[d].kind = k) <=> (\E d \in Calls : calls[d].kind = k)
    BY <1>00, <1>3, <1>4 DEF NoActivity
  <2> QED
    BY <1>1, <2>1, <2>2 DEF IInv, PhaseOwned
<1>12. SingleOwner'
  BY <1>3, <1>4 DEF IInv, NoActivity, SingleOwner
<1>13. WaitOver'
  BY <1>1, <1>2, <1>3, <1>4, <1>7 DEF IInv, TypeOK, WaitOver, NoActivity
<1>14. NoLostWakeup'
  BY <1>00, <1>1, <1>2, <1>3, <1>4, <1>7 DEF IInv, TypeOK, Call, NoLostWakeup, NoActivity
<1> QED
  BY <1>8, <1>9, <1>10, <1>11, <1>12, <1>13, <1>14 DEF IInv

LEMMA TryEvictIdleSessionsInv ==
  ASSUME IInv, NEW S \in SUBSET Sessions, NEW ok \in BOOLEAN, TryEvictIdleSessions(S, ok)
  PROVE  IInv'
<1> USE DEF Live, LiveOn, SessionExclusives, GlobalExclusives
<1>1. /\ globalPhase = "open"
      /\ \A s \in S : phase[s] = "open" /\ active[s] = 0
      /\ phase' = [s \in Sessions |-> IF s \notin S THEN phase[s]
                                      ELSE IF ok THEN "open" ELSE "eviction_failed"]
      /\ UNCHANGED <<globalPhase, activeOperations, maintenanceOwners, shutdownCalled>>
  BY DEF TryEvictIdleSessions, IsIdle
<1>2. active' = active
  BY <1>1 DEF TryEvictIdleSessions, IInv, TypeOK
<1>3. calls' = calls
  <2>1. GlobalWaiters = {}
    BY <1>1 DEF GlobalWaiters, IInv, PhaseOwned
  <2> QED
    BY <2>1 DEF TryEvictIdleSessions, Settle, NotifiedGlobalIdle, IInv, TypeOK
<1>4. TypeOK' /\ WellFormed' /\ SingleOwner' /\ WaitOver' /\ NoLostWakeup'
  BY <1>1, <1>2, <1>3 DEF IInv, TypeOK, SessionPhases, WellFormed, SingleOwner, WaitOver, NoLostWakeup
<1>5. CountersAgree'
  BY <1>1, <1>2, <1>3 DEF IInv, CountersAgree
<1>6. PhaseOwned'
  BY <1>1, <1>3 DEF IInv, TypeOK, PhaseOwned, ActivePhase
<1> QED
  BY <1>4, <1>5, <1>6 DEF IInv

\* The global calls are not counted: a step that starts or ends only such calls
\* keeps the three sets.
LEMMA CountersKept ==
  ASSUME CountersAgree, UNCHANGED <<active, activeOperations, maintenanceOwners>>,
         \A d \in Calls :
           \/ calls'[d].kind = calls[d].kind /\ calls'[d].session = calls[d].session
           \/ /\ calls[d].kind \notin SessionExclusives \cup {"operation"}
              /\ calls'[d].kind \notin SessionExclusives \cup {"operation"}
  PROVE  CountersAgree'
<1>1. ASSUME NEW s \in Sessions PROVE OperationsOn(s)' = OperationsOn(s)
  BY DEF OperationsOn, LiveOn
<1>2. Operations' = Operations
  BY DEF Operations, Live
<1>3. Owners' = Owners
  BY DEF Owners, SessionExclusives
<1> QED
  BY <1>1, <1>2, <1>3, CountersCount, CountersCountNext

\* The three ways to enter a global wait or join one.
LEMMA BeginGlobalInv ==
  ASSUME IInv, NEW c \in Calls, NEW p \in Calls \cup {NoCall},
         BeginGlobalReset(c) \/ BeginShutdown(c) \/ JoinShutdown(c, p)
  PROVE  IInv'
<1> USE DEF Live, LiveOn, SessionExclusives, GlobalExclusives
<1>1. PICK k \in {"global_reset", "shutdown", "shutdown_join"},
           q \in Calls \cup {NoCall}, st \in {"ready", "waiting"} :
        /\ calls[c] = NoActivity
        /\ calls' = [calls EXCEPT ![c] = [kind |-> k, session |-> NoSession,
                                          parent |-> q, stage |-> st]]
        /\ k # "shutdown_join" => /\ globalPhase \in {"open", "reset_failed"}
                                  /\ st = GlobalWaitStage
                                  /\ globalPhase' = IF k = "shutdown" THEN "shutting_down"
                                                    ELSE "resetting"
        /\ k = "shutdown_join" => /\ globalPhase = "shutting_down"
                                  /\ globalPhase' = globalPhase
                                  /\ st = "waiting"
        /\ UNCHANGED <<phase, active, activeOperations, maintenanceOwners>>
        /\ shutdownCalled' \in {shutdownCalled, TRUE}
  <2>1. CASE BeginGlobalReset(c)
    BY <2>1 DEF BeginGlobalReset, StartCall, GlobalStartable, GlobalWaitStage
  <2>2. CASE BeginShutdown(c)
    BY <2>2 DEF BeginShutdown, StartCall, GlobalStartable, GlobalWaitStage
  <2>3. CASE JoinShutdown(c, p)
    BY <2>3 DEF JoinShutdown, StartCall
  <2> QED
    BY <2>1, <2>2, <2>3
<1>2. k # "shutdown_join" => \A d \in Calls : calls[d].kind \notin GlobalExclusives
  BY <1>1 DEF IInv, PhaseOwned
<1>3. TypeOK'
  BY <1>1 DEF IInv, TypeOK, Call, Kinds, GlobalPhases
<1>4. WellFormed'
  BY <1>1 DEF IInv, TypeOK, WellFormed, NoActivity
<1>5. CountersAgree'
  <2>1. \A d \in Calls :
          \/ calls'[d].kind = calls[d].kind /\ calls'[d].session = calls[d].session
          \/ /\ calls[d].kind \notin SessionExclusives \cup {"operation"}
             /\ calls'[d].kind \notin SessionExclusives \cup {"operation"}
    BY <1>1 DEF IInv, TypeOK, NoActivity
  <2> QED
    BY <1>1, <2>1, CountersKept DEF IInv
<1>6. PhaseOwned'
  <2>1. ASSUME NEW r \in Sessions, NEW y \in SessionExclusives
        PROVE  (\E d \in Calls : calls'[d].kind \in {y} /\ calls'[d].session = r) <=>
               (\E d \in Calls : calls[d].kind \in {y} /\ calls[d].session = r)
    BY <1>1 DEF IInv, TypeOK, NoActivity
  <2>2. globalPhase' = "resetting" <=> \E d \in Calls : calls'[d].kind = "global_reset"
    BY <1>1, <1>2 DEF IInv, TypeOK, NoActivity, PhaseOwned
  <2>3. globalPhase' = "shutting_down" <=> \E d \in Calls : calls'[d].kind = "shutdown"
    BY <1>1, <1>2 DEF IInv, TypeOK, NoActivity, PhaseOwned
  <2> QED
    BY <1>1, <2>1, <2>2, <2>3 DEF IInv, PhaseOwned
<1>7. SingleOwner'
  BY <1>1, <1>2 DEF IInv, TypeOK, NoActivity, SingleOwner
<1>8. WaitOver'
  BY <1>1 DEF IInv, TypeOK, NoActivity, WaitOver, GlobalWaitStage
<1>9. NoLostWakeup'
  BY <1>1 DEF IInv, TypeOK, NoActivity, NoLostWakeup, GlobalWaitStage, PhaseOwned
<1> QED
  BY <1>3, <1>4, <1>5, <1>6, <1>7, <1>8, <1>9 DEF IInv

\* A global callback that ends leaves no operation and no maintenance behind, so
\* clearing _sessions forgets nothing that is still running.
LEMMA CompleteGlobalInv ==
  ASSUME IInv, NEW c \in Calls, NEW ok \in BOOLEAN,
         CompleteGlobalReset(c, ok) \/ CompleteShutdown(c, ok)
  PROVE  IInv'
<1> USE DEF Live, LiveOn, SessionExclusives, GlobalExclusives
<1>1. PICK k \in GlobalExclusives :
        /\ calls[c].kind = k
        /\ calls[c].stage = "running"
        /\ calls' = [d \in Calls |-> IF d = c \/ (k = "shutdown" /\ calls[d].kind = "shutdown_join")
                                     THEN NoActivity ELSE calls[d]]
        /\ globalPhase' \in GlobalPhases \ {"resetting", "shutting_down"}
        /\ phase' \in {phase, [s \in Sessions |-> "open"]}
        /\ active' \in {active, [s \in Sessions |-> 0]}
        /\ UNCHANGED <<activeOperations, maintenanceOwners, shutdownCalled>>
  <2>1. CASE CompleteGlobalReset(c, ok)
    BY <2>1 DEF CompleteGlobalReset, Settle, GlobalPhases
  <2>2. CASE CompleteShutdown(c, ok)
    BY <2>2 DEF CompleteShutdown, Settle, GlobalPhases
  <2> QED
    BY <2>1, <2>2
<1>2. activeOperations = 0 /\ maintenanceOwners = 0
  BY <1>1 DEF IInv, WaitOver
<1>3. \A d \in Calls : calls[d].kind \notin SessionExclusives \cup {"operation"}
  <2>1. Owners = {} /\ Operations = {}
    BY <1>2, CountersCount, Counting DEF IInv, Owners, Operations
  <2> QED
    BY <2>1 DEF Owners, Operations
<1>4. active' = active
  <2>1. ASSUME NEW s \in Sessions PROVE active[s] = 0
    <3>1. OperationsOn(s) = {}
      BY <1>3 DEF OperationsOn
    <3> QED
      BY <3>1, CountersCount, FS_EmptySet DEF IInv
  <2> QED
    BY <1>1, <2>1 DEF IInv, TypeOK
<1>5. TypeOK'
  BY <1>1, <1>4 DEF IInv, TypeOK, Call, Kinds, NoActivity, SessionPhases
<1>6. WellFormed'
  BY <1>1 DEF IInv, WellFormed, NoActivity
<1>7. CountersAgree'
  <2>1. \A d \in Calls : calls'[d].kind \notin SessionExclusives \cup {"operation"}
    BY <1>1, <1>3 DEF NoActivity
  <2> QED
    BY <1>1, <1>3, <1>4, <2>1, CountersKept DEF IInv
<1>8. PhaseOwned'
  <2>0. \A d \in Calls : calls[d].kind \in GlobalExclusives => d = c
    BY <1>1 DEF IInv, SingleOwner
  <2>1. \A d \in Calls : calls'[d].kind \notin SessionExclusives \cup GlobalExclusives
    BY <1>1, <1>3, <2>0 DEF NoActivity
  <2>2. \A r \in Sessions, y \in SessionExclusives : phase'[r] # ActivePhase(y)
    BY <1>1, <1>3 DEF IInv, PhaseOwned, ActivePhase
  <2> QED
    BY <1>1, <2>1, <2>2 DEF PhaseOwned
<1>9. SingleOwner' /\ WaitOver'
  BY <1>1, <1>3, <1>2 DEF IInv, SingleOwner, WaitOver, NoActivity
<1>10. NoLostWakeup'
  <2>1. \A d \in Calls : calls'[d].stage # "waiting"
    <3>1. k = "global_reset" => \A d \in Calls : calls[d].kind # "shutdown"
      BY <1>1 DEF IInv, SingleOwner
    <3> QED
      BY <1>1, <1>3, <3>1
         DEF IInv, TypeOK, Call, Kinds, WellFormed, SingleOwner, NoLostWakeup, NoActivity
  <2> QED
    BY <2>1 DEF NoLostWakeup
<1> QED
  BY <1>5, <1>6, <1>7, <1>8, <1>9, <1>10 DEF IInv

-----------------------------------------------------------------------------

LEMMA NextInv == IInv /\ [Next]_vars => IInv'
<1> SUFFICES ASSUME IInv, [Next]_vars PROVE IInv'
  OBVIOUS
<1>1. ASSUME NEW c \in Calls, Begin(c) PROVE IInv'
  <2>1. CASE BeginGlobalReset(c) \/ BeginShutdown(c)
    BY <2>1, BeginGlobalInv
  <2>2. ASSUME NEW p \in Calls \cup {NoCall}, JoinShutdown(c, p) PROVE IInv'
    BY <2>2, BeginGlobalInv
  <2>3. ASSUME NEW p \in Calls \cup {NoCall}, NEW s \in Sessions, RunOperation(c, p, s)
        PROVE  IInv'
    BY <2>3, RunOperationInv
  <2>4. ASSUME NEW p \in Calls \cup {NoCall}, NEW s \in Sessions, NEW x \in SessionExclusives,
               NEW retryFailed \in BOOLEAN, BeginSessionExclusive(c, p, s, x, retryFailed)
        PROVE  IInv'
    BY <2>4, BeginSessionExclusiveInv
  <2> QED
    BY <1>1, <2>1, <2>2, <2>3, <2>4 DEF Begin
<1>2. ASSUME NEW c \in Calls, Enter(c) PROVE IInv'
  BY <1>2, EnterInv
<1>3. ASSUME NEW c \in Calls, Complete(c) PROVE IInv'
  BY <1>3, CompleteOperationInv, CompleteSessionExclusiveInv, CompleteGlobalInv DEF Complete
<1>4. ASSUME NEW S \in SUBSET Sessions, NEW ok \in BOOLEAN, TryEvictIdleSessions(S, ok)
      PROVE  IInv'
  BY <1>4, TryEvictIdleSessionsInv
<1>5. CASE UNCHANGED vars
  BY <1>5 DEF vars, IInv, TypeOK, WellFormed, CountersAgree, PhaseOwned, SingleOwner,
              WaitOver, NoLostWakeup, Live, LiveOn, ActivePhase
<1> QED
  BY <1>1, <1>2, <1>3, <1>4, <1>5 DEF Next

\* The inductive invariant holds in every reachable state.
THEOREM Invariance == Spec => []IInv
BY InitInv, NextInv, PTL DEF Spec

\* Every variable keeps its type; the decrements of _release never go below zero.
THEOREM TypeCorrect == Spec => []TypeOK
<1>1. IInv => TypeOK
  BY DEF IInv
<1> QED
  BY <1>1, Invariance, PTL

\* An emptied scope has no running operation.
LEMMA IdleScope ==
  ASSUME IInv
  PROVE  /\ \A s \in Sessions : active[s] = 0 =>
              \A c \in Calls : ~LiveOn(c, {"operation"}, s)
         /\ activeOperations = 0 => \A c \in Calls : calls[c].kind # "operation"
         /\ maintenanceOwners = 0 => \A c \in Calls : calls[c].kind \notin SessionExclusives
<1>1. /\ \A s \in Sessions : OperationsOn(s) \subseteq Calls
      /\ Operations \subseteq Calls
      /\ Owners \subseteq Calls
  BY DEF OperationsOn, Operations, Owners
<1>2. \A S : S \subseteq Calls => (Cardinality(S) = 0 <=> S = {})
  BY ConstantsAssumption, FS_Subset, FS_EmptySet
<1>3. \A s \in Sessions : active[s] = 0 => OperationsOn(s) = {}
  BY <1>1, <1>2, CountersCount DEF IInv
<1>4. activeOperations = 0 => Operations = {}
  BY <1>1, <1>2, CountersCount DEF IInv
<1>5. maintenanceOwners = 0 => Owners = {}
  BY <1>1, <1>2, CountersCount DEF IInv
<1> QED
  BY <1>3, <1>4, <1>5 DEF OperationsOn, Operations, Owners, Live

LEMMA ExclusionFromInv == IInv => Exclusion
<1> SUFFICES ASSUME IInv, NEW c \in Calls, NEW d \in Calls, c # d
             PROVE  /\ Running(c, SessionExclusives) =>
                         ~(Running(d, SessionExclusives \cup {"operation"}) /\
                           calls[d].session = calls[c].session)
                    /\ Running(c, GlobalExclusives) =>
                         ~Running(d, GlobalExclusives \cup SessionExclusives \cup {"operation"})
  BY DEF Exclusion
<1>1. ASSUME Running(c, SessionExclusives)
      PROVE  ~(Running(d, SessionExclusives \cup {"operation"}) /\
               calls[d].session = calls[c].session)
  <2>1. calls[c].session \in Sessions /\ active[calls[c].session] = 0
    BY <1>1 DEF Running, IInv, WaitOver, WellFormed
  <2>2. ~LiveOn(d, {"operation"}, calls[c].session)
    BY <2>1, IdleScope
  <2>3. ~(calls[d].kind \in SessionExclusives /\ calls[d].session = calls[c].session)
    BY <1>1 DEF Running, IInv, SingleOwner
  <2> QED
    BY <2>2, <2>3 DEF Running, LiveOn
<1>2. ASSUME Running(c, GlobalExclusives)
      PROVE  ~Running(d, GlobalExclusives \cup SessionExclusives \cup {"operation"})
  <2>1. activeOperations = 0 /\ maintenanceOwners = 0
    BY <1>2 DEF Running, IInv, WaitOver
  <2>2. calls[d].kind \notin SessionExclusives \cup {"operation"}
    BY <2>1, IdleScope
  <2>3. calls[d].kind \notin GlobalExclusives
    BY <1>2 DEF Running, IInv, SingleOwner
  <2> QED
    BY <2>2, <2>3 DEF Running
<1> QED
  BY <1>1, <1>2

\* Maintenance callbacks exclude each other and the operations of their scope.
THEOREM MaintenanceExcludes == Spec => []Exclusion
BY Invariance, ExclusionFromInv, PTL

\* Neither an idle waiter nor a shutdown joiner is left with nobody to wake it.
THEOREM WakeupsKept == Spec => []NoLostWakeup
<1>1. IInv => NoLostWakeup
  BY DEF IInv
<1> QED
  BY <1>1, Invariance, PTL

\* The counters count, and the phases are owned, in every reachable state.
THEOREM BookkeepingExact == Spec => [](CountersAgree /\ PhaseOwned)
<1>1. IInv => CountersAgree /\ PhaseOwned
  BY DEF IInv
<1> QED
  BY <1>1, Invariance, PTL

LEMMA MutationIsolationFromInv == IInv => MutationIsolation
<1> SUFFICES ASSUME IInv, NEW c \in Calls, NEW s \in Sessions, NEW p \in Calls \cup {NoCall},
                    \/ Running(c, SessionExclusives) /\ calls[c].session = s
                    \/ Running(c, GlobalExclusives),
                    Caller(p), MutationAdmitted(p, s)
             PROVE  p = c
  BY DEF MutationIsolation
<1> USE DEF Running
<1>1. ~AdmissionOpen(s)
  BY DEF AdmissionOpen, IInv, PhaseOwned, LiveOn, Live, ActivePhase, SessionExclusives, GlobalExclusives
<1>2. /\ p \in Calls /\ calls[p].stage = "running"
      /\ calls[p].kind \in GlobalExclusives \/ calls[p].session = s
  BY <1>1, ConstantsAssumption DEF MutationAdmitted, ContextOwnsSession, Caller
<1>3. calls[p].kind \in SessionExclusives \cup GlobalExclusives \cup {"operation"}
  BY <1>2 DEF IInv, TypeOK, Call, Kinds, WellFormed, NoActivity
<1>4. CASE Running(c, SessionExclusives) /\ calls[c].session = s
  <2>1. /\ active[s] = 0
        /\ calls[p].kind \notin GlobalExclusives
    <3>1. calls[p].kind \in GlobalExclusives => maintenanceOwners = 0
      BY <1>2 DEF IInv, WaitOver
    <3> QED
      BY <1>4, <3>1, IdleScope DEF IInv, WaitOver
  <2>2. ~LiveOn(p, {"operation"}, s)
    BY <1>2, <2>1, IdleScope
  <2> QED
    BY <1>2, <1>3, <1>4, <2>1, <2>2 DEF IInv, SingleOwner, LiveOn
<1>5. CASE Running(c, GlobalExclusives)
  <2>1. activeOperations = 0 /\ maintenanceOwners = 0
    BY <1>5 DEF IInv, WaitOver
  <2>2. calls[p].kind \in GlobalExclusives
    BY <1>2, <1>3, <2>1, IdleScope
  <2> QED
    BY <1>2, <1>5, <2>2 DEF IInv, SingleOwner
<1> QED
  BY <1>4, <1>5

\* A session under maintenance is mutated by its maintenance callback only.
THEOREM MutationsIsolated == Spec => []MutationIsolation
BY Invariance, MutationIsolationFromInv, PTL

\* A failed session is left by a retry of its own kind or a committed global reset.
LEMMA FailureStep ==
  ASSUME IInv, [Next]_vars, NEW s \in Sessions, NEW x \in SessionExclusives,
         phase[s] = FailedPhase(x)
  PROVE  \/ phase'[s] \in {FailedPhase(x), ActivePhase(x)}
         \/ globalPhase = "resetting" /\ globalPhase' = "open"
<1> USE DEF SessionExclusives
<1>1. phase \in [Sessions -> SessionPhases]
  BY DEF IInv, TypeOK
<1>2. ASSUME NEW c \in Calls, NEW p \in Calls \cup {NoCall}, NEW r \in Sessions,
             NEW y \in SessionExclusives, NEW retryFailed \in BOOLEAN,
             BeginSessionExclusive(c, p, r, y, retryFailed)
      PROVE  phase'[s] \in {FailedPhase(x), ActivePhase(x)}
  BY <1>1, <1>2 DEF BeginSessionExclusive, Startable, FailedPhase, ActivePhase
<1>3. ASSUME NEW c \in Calls, NEW ok \in BOOLEAN, CompleteSessionExclusive(c, ok)
      PROVE  phase'[s] = FailedPhase(x)
  <2>1. calls[c].session \in Sessions /\ phase[calls[c].session] = ActivePhase(calls[c].kind)
    BY <1>3 DEF CompleteSessionExclusive, IInv, WellFormed, PhaseOwned, LiveOn
  <2>2. calls[c].session # s
    BY <2>1 DEF FailedPhase, ActivePhase
  <2> QED
    BY <1>1, <1>3, <2>1, <2>2 DEF CompleteSessionExclusive
<1>4. ASSUME NEW S \in SUBSET Sessions, NEW ok \in BOOLEAN, TryEvictIdleSessions(S, ok)
      PROVE  phase'[s] = FailedPhase(x)
  BY <1>1, <1>4 DEF TryEvictIdleSessions, IsIdle, FailedPhase
<1>5. ASSUME NEW c \in Calls, NEW ok \in BOOLEAN, CompleteGlobalReset(c, ok)
      PROVE  \/ phase'[s] = FailedPhase(x)
             \/ globalPhase = "resetting" /\ globalPhase' = "open"
  BY <1>5 DEF CompleteGlobalReset, IInv, PhaseOwned, Live
<1>6. CASE UNCHANGED phase
  BY <1>6
<1> QED
  <2>1. \A c \in Calls : Begin(c) =>
          \/ UNCHANGED phase
          \/ \E p \in Calls \cup {NoCall}, r \in Sessions, y \in SessionExclusives,
               retryFailed \in BOOLEAN : BeginSessionExclusive(c, p, r, y, retryFailed)
    BY DEF Begin, BeginGlobalReset, BeginShutdown, JoinShutdown, RunOperation
  <2>2. \A c \in Calls : Enter(c) => UNCHANGED phase
    BY DEF Enter
  <2>3. \A c \in Calls : Complete(c) =>
          \/ UNCHANGED phase
          \/ \E ok \in BOOLEAN : CompleteSessionExclusive(c, ok) \/ CompleteGlobalReset(c, ok)
    BY DEF Complete, CompleteOperation, CompleteShutdown
  <2> QED
    BY <1>2, <1>3, <1>4, <1>5, <1>6, <2>1, <2>2, <2>3 DEF Next, vars

\* Failed phases are sticky in every behaviour.
THEOREM FailuresAreSticky == Spec => FailureSticky
<1>1. IInv /\ [Next]_vars =>
        [\A s \in Sessions, x \in SessionExclusives :
           phase[s] = FailedPhase(x) =>
             \/ phase'[s] \in {FailedPhase(x), ActivePhase(x)}
             \/ globalPhase = "resetting" /\ globalPhase' = "open"]_vars
  BY FailureStep
<1> QED
  BY <1>1, Invariance, PTL DEF Spec, FailureSticky

\* The phases of an accepted shutdown.
ShutdownPhases ==
  shutdownCalled => globalPhase \in {"shutting_down", "stopped", "shutdown_failed"}

LEMMA ShutdownStep ==
  ASSUME IInv, ShutdownPhases, [Next]_vars
  PROVE  /\ ShutdownPhases'
         /\ shutdownCalled =>
              /\ globalPhase' \in {"shutting_down", "stopped", "shutdown_failed"}
              /\ globalPhase # "shutting_down" => globalPhase' = globalPhase
<1> USE DEF ShutdownPhases, GlobalStartable, Live
<1>1. ASSUME NEW c \in Calls, BeginGlobalReset(c) \/ BeginShutdown(c)
      PROVE  ~shutdownCalled /\ ShutdownPhases'
  BY <1>1 DEF BeginGlobalReset, BeginShutdown
<1>2. ASSUME NEW c \in Calls, NEW ok \in BOOLEAN, CompleteGlobalReset(c, ok)
      PROVE  ~shutdownCalled /\ ~shutdownCalled'
  BY <1>2 DEF CompleteGlobalReset, IInv, PhaseOwned
<1>3. ASSUME NEW c \in Calls, NEW ok \in BOOLEAN, CompleteShutdown(c, ok)
      PROVE  /\ globalPhase = "shutting_down"
             /\ globalPhase' \in {"stopped", "shutdown_failed"}
  BY <1>3 DEF CompleteShutdown, IInv, PhaseOwned
<1>4. CASE UNCHANGED <<globalPhase, shutdownCalled>>
  BY <1>4
<1>5. \A c \in Calls : Begin(c) =>
        UNCHANGED <<globalPhase, shutdownCalled>> \/ BeginGlobalReset(c) \/ BeginShutdown(c)
  BY DEF Begin, JoinShutdown, RunOperation, BeginSessionExclusive
<1>6. \A c \in Calls : Complete(c) =>
        \/ UNCHANGED <<globalPhase, shutdownCalled>>
        \/ \E ok \in BOOLEAN : CompleteGlobalReset(c, ok) \/ CompleteShutdown(c, ok)
  BY DEF Complete, CompleteOperation, CompleteSessionExclusive
<1> QED
  BY <1>1, <1>2, <1>3, <1>4, <1>5, <1>6 DEF Next, vars, Enter, TryEvictIdleSessions

\* An accepted shutdown is never undone.
THEOREM ShutdownIsFinal == Spec => ShutdownFinal
<1>1. Init => ShutdownPhases
  BY DEF Init, ShutdownPhases
<1>2. IInv /\ ShutdownPhases /\ [Next]_vars => ShutdownPhases'
  BY ShutdownStep
<1>3. IInv /\ ShutdownPhases /\ [Next]_vars =>
        [shutdownCalled =>
           /\ globalPhase' \in {"shutting_down", "stopped", "shutdown_failed"}
           /\ globalPhase # "shutting_down" => globalPhase' = globalPhase]_vars
  BY ShutdownStep
<1> QED
  BY <1>1, <1>2, <1>3, Invariance, PTL DEF Spec, ShutdownFinal

\* A failed session is reopened by its own retry or a committed global reset
\* only, and an accepted shutdown is never undone: withSessionReset,
\* withSessionEviction, withGlobalReset and shutdown, in any order.
THEOREM OutcomesAreKept == Spec => OutcomesStand
BY FailuresAreSticky, ShutdownIsFinal DEF OutcomesStand

-----------------------------------------------------------------------------
(***************************************************************************)
(* Refinement: SessionLifecycle implements ScopedExclusion.  The mapped    *)
(* variables are characterised by the calls that run, so that a step which *)
(* does not change who runs does not change them.                          *)
(***************************************************************************)

OwnersRun ==
  /\ LockMaintainer \in [Sessions -> Calls \cup {NoCall}]
  /\ \A s \in Sessions, c \in Calls :
       LockMaintainer[s] = c <=> Running(c, SessionExclusives) /\ calls[c].session = s
  /\ LockGlobalOwner \in Calls \cup {NoCall}
  /\ \A c \in Calls : LockGlobalOwner = c <=> Running(c, GlobalExclusives)

LEMMA MappedOwners == IInv => OwnersRun
<1> SUFFICES ASSUME IInv PROVE OwnersRun
  OBVIOUS
<1>1. ASSUME NEW s \in Sessions
      PROVE  /\ LockMaintainer[s] \in Calls \cup {NoCall}
             /\ \A c \in Calls :
                  LockMaintainer[s] = c <=> Running(c, SessionExclusives) /\ calls[c].session = s
  <2> DEFINE P(c) == Running(c, SessionExclusives) /\ calls[c].session = s
  <2>1. LockMaintainer[s] = IF \E c \in Calls : P(c) THEN CHOOSE c \in Calls : P(c) ELSE NoCall
    BY DEF LockMaintainer
  <2>2. \A c, d \in Calls : P(c) /\ P(d) => c = d
    BY DEF Running, IInv, SingleOwner
  <2> HIDE DEF P
  <2>3. CASE \E c \in Calls : P(c)
    <3>1. LockMaintainer[s] \in Calls /\ P(LockMaintainer[s])
      BY <2>1, <2>3
    <3>2. \A c \in Calls : LockMaintainer[s] = c <=> P(c)
      BY <2>2, <3>1
    <3> QED
      BY <3>1, <3>2 DEF P
  <2>4. CASE ~\E c \in Calls : P(c)
    BY <2>1, <2>4, ConstantsAssumption DEF P
  <2> QED
    BY <2>3, <2>4
<1>2. /\ LockGlobalOwner \in Calls \cup {NoCall}
      /\ \A c \in Calls : LockGlobalOwner = c <=> Running(c, GlobalExclusives)
  <2> DEFINE Q(c) == Running(c, GlobalExclusives)
  <2>1. LockGlobalOwner = IF \E c \in Calls : Q(c) THEN CHOOSE c \in Calls : Q(c) ELSE NoCall
    BY DEF LockGlobalOwner
  <2>2. \A c, d \in Calls : Q(c) /\ Q(d) => c = d
    BY DEF Running, IInv, SingleOwner
  <2> HIDE DEF Q
  <2>3. CASE \E c \in Calls : Q(c)
    <3>1. LockGlobalOwner \in Calls /\ Q(LockGlobalOwner)
      BY <2>1, <2>3
    <3>2. \A c \in Calls : LockGlobalOwner = c <=> Q(c)
      BY <2>2, <3>1
    <3> QED
      BY <3>1, <3>2 DEF Q
  <2>4. CASE ~\E c \in Calls : Q(c)
    BY <2>1, <2>4, ConstantsAssumption DEF Q
  <2> QED
    BY <2>3, <2>4
<1>3. LockMaintainer = [s \in Sessions |-> LockMaintainer[s]]
  BY DEF LockMaintainer
<1> QED
  BY <1>1, <1>2, <1>3 DEF OwnersRun

LEMMA MappedOwnersNext == IInv' => OwnersRun'
BY MappedOwners, PTL

\* A step that changes neither the running exclusives nor a session's running
\* operations maps to a stutter; the three parts are used one by one.
LEMMA SameMaintainers ==
  ASSUME OwnersRun, OwnersRun',
         \A s \in Sessions, c \in Calls :
           Running(c, SessionExclusives) /\ calls[c].session = s <=>
           Running(c, SessionExclusives)' /\ calls'[c].session = s
  PROVE  LockMaintainer' = LockMaintainer
<1>1. \A s \in Sessions : LockMaintainer'[s] = LockMaintainer[s]
  BY ConstantsAssumption DEF OwnersRun
<1> QED
  BY <1>1 DEF OwnersRun

LEMMA SameGlobalOwner ==
  ASSUME OwnersRun, OwnersRun',
         \A c \in Calls : Running(c, GlobalExclusives) <=> Running(c, GlobalExclusives)'
  PROVE  LockGlobalOwner' = LockGlobalOwner
BY ConstantsAssumption DEF OwnersRun

LEMMA SameOperations ==
  ASSUME \A s \in Sessions, c \in Calls : LiveOn(c, {"operation"}, s) <=> LiveOn(c, {"operation"}, s)'
  PROVE  LockOperations' = LockOperations
BY DEF LockOperations

\* A call that has not started holds nothing of the abstract lock.
LEMMA IdleHoldsNothing ==
  ASSUME IInv, NEW c \in Calls, calls[c].kind \notin {"operation"} \/ calls[c].stage = "idle",
         calls[c].stage # "running"
  PROVE  ~Lock!Held(c)
<1>1. c # LockGlobalOwner /\ \A s \in Sessions : c # LockMaintainer[s]
  BY MappedOwners DEF OwnersRun, Running
<1>2. \A s \in Sessions : c \notin LockOperations[s]
  BY DEF LockOperations, LiveOn, IInv, WellFormed
<1> QED
  BY <1>1, <1>2 DEF Lock!Held

\* While admission is open nothing owns the session, or everything.
LEMMA OpenIsUnowned ==
  ASSUME IInv
  PROVE  /\ globalPhase \in {"open", "reset_failed"} => LockGlobalOwner = NoCall
         /\ \A s \in Sessions : phase[s] = "open" => LockMaintainer[s] = NoCall
<1>1. globalPhase \in {"open", "reset_failed"} => \A c \in Calls : ~Running(c, GlobalExclusives)
  BY DEF Running, GlobalExclusives, IInv, PhaseOwned, Live
<1>2. \A s \in Sessions : phase[s] = "open" =>
        \A c \in Calls : ~(Running(c, SessionExclusives) /\ calls[c].session = s)
  BY DEF Running, SessionExclusives, IInv, PhaseOwned, LiveOn, ActivePhase
<1> QED
  BY <1>1, <1>2, MappedOwners DEF OwnersRun

LEMMA RunOperationRefines ==
  ASSUME IInv, IInv', NEW c \in Calls, NEW p \in Calls \cup {NoCall}, NEW s \in Sessions,
         RunOperation(c, p, s)
  PROVE  Lock!Operate(c, s)
<1>1. /\ calls[c] = NoActivity
      /\ calls' = [calls EXCEPT ![c] = [kind |-> "operation", session |-> s,
                                        parent |-> p, stage |-> "running"]]
      /\ globalPhase = "open" /\ phase[s] = "open"
  BY DEF RunOperation, StartCall, AdmissionOpen
<1>2. calls \in [Calls -> Call]
  BY DEF IInv, TypeOK
<1>3. ~Lock!Held(c)
  BY <1>1, IdleHoldsNothing DEF NoActivity
<1>4. LockGlobalOwner = NoCall /\ LockMaintainer[s] = NoCall
  BY <1>1, OpenIsUnowned
<1>5. LockOperations' = [LockOperations EXCEPT ![s] = @ \cup {c}]
  <2>1. \A r \in Sessions, d \in Calls :
          LiveOn(d, {"operation"}, r)' <=> LiveOn(d, {"operation"}, r) \/ (d = c /\ r = s)
    BY <1>1, <1>2 DEF LiveOn, NoActivity
  <2> QED
    BY <2>1 DEF LockOperations
<1>6. LockMaintainer' = LockMaintainer /\ LockGlobalOwner' = LockGlobalOwner
  <2>1. \A r \in Sessions, d \in Calls :
          Running(d, SessionExclusives) /\ calls[d].session = r <=>
          Running(d, SessionExclusives)' /\ calls'[d].session = r
    BY <1>1, <1>2 DEF Running, SessionExclusives, NoActivity
  <2>2. \A d \in Calls : Running(d, GlobalExclusives) <=> Running(d, GlobalExclusives)'
    BY <1>1, <1>2 DEF Running, GlobalExclusives, NoActivity
  <2> QED
    BY <2>1, <2>2, SameMaintainers, SameGlobalOwner, MappedOwners, MappedOwnersNext
<1> QED
  BY <1>3, <1>4, <1>5, <1>6 DEF Lock!Operate

LEMMA CompleteOperationRefines ==
  ASSUME IInv, IInv', NEW c \in Calls, CompleteOperation(c)
  PROVE  \E s \in Sessions : Lock!FinishOperation(c, s)
<1>0. PICK s \in Sessions : s = calls[c].session
  BY DEF CompleteOperation, IInv, WellFormed, Live
<1>1. /\ calls[c].kind = "operation"
      /\ calls'[c] = NoActivity
      /\ \A d \in Calls \ {c} : /\ calls'[d].kind = calls[d].kind
                                /\ calls'[d].session = calls[d].session
                                /\ calls'[d].stage = "running" <=> calls[d].stage = "running"
  <2> DEFINE woken == ReleasedSessionWaiters(s, active[s] - 1) \cup
                      NotifiedGlobalIdle(activeOperations - 1, maintenanceOwners)
  <2>1. \A d \in woken : calls[d].stage = "waiting"
    BY DEF ReleasedSessionWaiters, NotifiedGlobalIdle, SessionWaiters, GlobalWaiters
  <2>2. calls' = Settle({c}, woken) /\ calls[c].kind = "operation"
    BY <1>0 DEF CompleteOperation, Live
  <2> HIDE DEF woken
  <2> QED
    BY <2>1, <2>2 DEF Settle, IInv, TypeOK, Call
<1>2. c \in LockOperations[s]
  BY <1>0, <1>1 DEF LockOperations, LiveOn
<1>3. LockOperations' = [LockOperations EXCEPT ![s] = @ \ {c}]
  <2>1. \A r \in Sessions, d \in Calls :
          LiveOn(d, {"operation"}, r)' <=> LiveOn(d, {"operation"}, r) /\ d # c
    BY <1>1 DEF LiveOn, NoActivity
  <2> HIDE DEF LiveOn
  <2>2. \A r \in Sessions : r # s => ~LiveOn(c, {"operation"}, r)
    BY <1>0 DEF LiveOn
  <2> QED
    BY <2>1, <2>2 DEF LockOperations
<1>4. LockMaintainer' = LockMaintainer /\ LockGlobalOwner' = LockGlobalOwner
  <2>1. \A r \in Sessions, d \in Calls :
          Running(d, SessionExclusives) /\ calls[d].session = r <=>
          Running(d, SessionExclusives)' /\ calls'[d].session = r
    BY <1>1 DEF Running, SessionExclusives, NoActivity
  <2>2. \A d \in Calls : Running(d, GlobalExclusives) <=> Running(d, GlobalExclusives)'
    BY <1>1 DEF Running, GlobalExclusives, NoActivity
  <2> QED
    BY <2>1, <2>2, SameMaintainers, SameGlobalOwner, MappedOwners, MappedOwnersNext
<1> QED
  BY <1>2, <1>3, <1>4 DEF Lock!FinishOperation

\* Entering a callback is where a maintainer or the global owner acquires.
LEMMA EnterRefines ==
  ASSUME IInv, IInv', NEW c \in Calls, Enter(c)
  PROVE  (\E s \in Sessions : Lock!Maintain(c, s)) \/ Lock!OwnAll(c)
<1>1. /\ calls[c].stage = "ready"
      /\ calls' = [calls EXCEPT ![c] = [calls[c] EXCEPT !.stage = "running"]]
      /\ calls \in [Calls -> Call]
  BY DEF Enter, IInv, TypeOK
<1>2. /\ calls[c].kind \in SessionExclusives \cup GlobalExclusives
      /\ calls[c].kind \in SessionExclusives => calls[c].session \in Sessions
  BY <1>1 DEF IInv, Call, Kinds, WellFormed, NoActivity
<1>3. /\ calls'[c].kind = calls[c].kind
      /\ calls'[c].session = calls[c].session
      /\ calls'[c].stage = "running"
      /\ \A d \in Calls \ {c} : calls'[d] = calls[d]
  BY <1>1 DEF Call
<1>4. ~Lock!Held(c)
  BY <1>1, <1>2, IdleHoldsNothing DEF SessionExclusives, GlobalExclusives
<1>5. LockOperations' = LockOperations
  BY <1>3, SameOperations DEF LiveOn
<1>6. OwnersRun /\ OwnersRun'
  BY MappedOwners, MappedOwnersNext
<1>7. CASE calls[c].kind \in SessionExclusives
  <2>1. PICK s \in Sessions : s = calls[c].session
    BY <1>2, <1>7
  <2>2. active[s] = 0 /\ LockOperations[s] = {}
    BY <1>1, <1>7, <2>1, IdleScope DEF IInv, WaitOver, LockOperations
  <2>3. LockMaintainer[s] = NoCall
    <3>1. \A d \in Calls : Running(d, SessionExclusives) /\ calls[d].session = s => d = c
      BY <1>7, <2>1 DEF IInv, SingleOwner, Running
    <3>2. ~Running(c, SessionExclusives)
      BY <1>1 DEF Running
    <3> QED
      BY <1>6, <3>1, <3>2 DEF OwnersRun
  <2>4. LockGlobalOwner = NoCall
    <3>1. maintenanceOwners # 0
      BY <1>7, IdleScope
    <3>2. \A d \in Calls : ~Running(d, GlobalExclusives)
      BY <3>1 DEF IInv, WaitOver, Running
    <3> QED
      BY <1>6, <3>2 DEF OwnersRun
  <2>5. LockMaintainer' = [LockMaintainer EXCEPT ![s] = c]
    <3>1. LockMaintainer'[s] = c
      BY <1>3, <1>6, <1>7, <2>1 DEF OwnersRun, Running
    <3>2. ASSUME NEW r \in Sessions, r # s
          PROVE  LockMaintainer'[r] = LockMaintainer[r]
      <4>1. \A d \in Calls : Running(d, SessionExclusives) /\ calls[d].session = r <=>
                              Running(d, SessionExclusives)' /\ calls'[d].session = r
        BY <1>3, <2>1, <3>2 DEF Running
      <4> QED
        BY <1>6, <4>1, ConstantsAssumption DEF OwnersRun
    <3> QED
      BY <1>6, <3>1, <3>2 DEF OwnersRun
  <2>6. LockGlobalOwner' = LockGlobalOwner
    BY <1>3, <1>6, <1>7, SameGlobalOwner DEF Running, SessionExclusives, GlobalExclusives
  <2> QED
    BY <1>4, <1>5, <2>2, <2>3, <2>4, <2>5, <2>6 DEF Lock!Maintain
<1>8. CASE calls[c].kind \in GlobalExclusives
  <2>1. activeOperations = 0 /\ maintenanceOwners = 0
    BY <1>1, <1>8 DEF IInv, WaitOver
  <2>2. \A s \in Sessions : LockOperations[s] = {} /\ LockMaintainer[s] = NoCall
    BY <1>6, <2>1, IdleScope DEF LockOperations, LiveOn, OwnersRun, Running
  <2>3. LockGlobalOwner = NoCall
    <3>1. \A d \in Calls : ~Running(d, GlobalExclusives)
      BY <1>1, <1>8 DEF IInv, SingleOwner, Running
    <3> QED
      BY <1>6, <3>1 DEF OwnersRun
  <2>4. LockGlobalOwner' = c
    BY <1>3, <1>6, <1>8 DEF OwnersRun, Running
  <2>5. LockMaintainer' = LockMaintainer
    BY <1>3, <1>6, <1>8, SameMaintainers DEF Running, SessionExclusives, GlobalExclusives
  <2> QED
    BY <1>4, <1>5, <2>2, <2>3, <2>4, <2>5 DEF Lock!OwnAll
<1> QED
  BY <1>2, <1>7, <1>8

\* A new call that neither operates nor runs yet is invisible to the lock.
LEMMA StartStutters ==
  ASSUME IInv, IInv', NEW c \in Calls, NEW k \in Kinds \ {"operation"},
         NEW s \in Sessions \cup {NoSession}, NEW p \in Calls \cup {NoCall},
         NEW st \in {"waiting", "ready"}, StartCall(c, k, s, p, st)
  PROVE  UNCHANGED <<LockOperations, LockMaintainer, LockGlobalOwner>>
<1>1. /\ calls[c] = NoActivity
      /\ calls'[c].kind = k
      /\ calls'[c].stage = st
      /\ \A d \in Calls \ {c} : calls'[d] = calls[d]
  BY DEF StartCall, IInv, TypeOK
<1>2. LockOperations' = LockOperations
  BY <1>1, SameOperations DEF LiveOn, NoActivity
<1>3. LockMaintainer' = LockMaintainer
  BY <1>1, SameMaintainers, MappedOwners, MappedOwnersNext DEF Running, NoActivity
<1>4. LockGlobalOwner' = LockGlobalOwner
  BY <1>1, SameGlobalOwner, MappedOwners, MappedOwnersNext DEF Running, NoActivity
<1> QED
  BY <1>2, <1>3, <1>4

\* The end of calls and the resolution of promises, as the lock sees them: the
\* ended calls are gone, every other keeps its holding.
Holdings(E) ==
  \A d \in Calls :
    IF d \in E
    THEN calls'[d] = NoActivity
    ELSE /\ calls'[d].kind = calls[d].kind
         /\ calls'[d].session = calls[d].session
         /\ calls'[d].stage = "running" <=> calls[d].stage = "running"

LEMMA SettleEffect ==
  ASSUME IInv, NEW E, NEW R, \A d \in R : d \in Calls => calls[d].stage = "waiting",
         calls' = Settle(E, R)
  PROVE  Holdings(E)
BY DEF Holdings, Settle, IInv, TypeOK, Call

LEMMA CompleteSessionExclusiveRefines ==
  ASSUME IInv, IInv', NEW c \in Calls, NEW ok \in BOOLEAN, CompleteSessionExclusive(c, ok)
  PROVE  \E s \in Sessions : Lock!FinishMaintenance(s)
<1>1. PICK s \in Sessions : s = calls[c].session
  BY DEF CompleteSessionExclusive, IInv, WellFormed
<1>2. calls[c].kind \in SessionExclusives /\ calls[c].stage = "running"
  BY DEF CompleteSessionExclusive
<1>3. /\ calls'[c] = NoActivity
      /\ \A d \in Calls \ {c} : /\ calls'[d].kind = calls[d].kind
                                /\ calls'[d].session = calls[d].session
                                /\ calls'[d].stage = "running" <=> calls[d].stage = "running"
  <2>1. PICK woken : woken = NotifiedGlobalIdle(activeOperations, maintenanceOwners - 1)
    OBVIOUS
  <2>2. woken \in SUBSET Calls /\ \A d \in woken : calls[d].stage = "waiting"
    BY <2>1 DEF NotifiedGlobalIdle, GlobalWaiters
  <2>3. calls' = Settle({c}, woken)
    BY <2>1 DEF CompleteSessionExclusive
  <2>4. Holdings({c})
    BY <2>2, <2>3, SettleEffect
  <2> QED
    BY <2>4 DEF Holdings
<1>4. OwnersRun /\ OwnersRun'
  BY MappedOwners, MappedOwnersNext
<1>5. LockMaintainer[s] = c
  BY <1>1, <1>2, <1>4 DEF OwnersRun, Running
<1>6. LockMaintainer' = [LockMaintainer EXCEPT ![s] = NoCall]
  <2>1. \A d \in Calls, r \in Sessions :
          Running(d, SessionExclusives)' /\ calls'[d].session = r <=>
          Running(d, SessionExclusives) /\ calls[d].session = r /\ d # c
    BY <1>3 DEF Running, NoActivity, SessionExclusives
  <2>2. \A d \in Calls : ~(Running(d, SessionExclusives)' /\ calls'[d].session = s)
    BY <1>4, <1>5, <2>1 DEF OwnersRun
  <2>3. LockMaintainer'[s] = NoCall
    BY <1>4, <2>2, ConstantsAssumption DEF OwnersRun
  <2>4. ASSUME NEW r \in Sessions, r # s
        PROVE  LockMaintainer'[r] = LockMaintainer[r]
    BY <1>1, <1>4, <2>1, <2>4, ConstantsAssumption DEF OwnersRun
  <2> QED
    BY <1>4, <2>3, <2>4 DEF OwnersRun
<1>7. LockOperations' = LockOperations
  BY <1>2, <1>3, SameOperations DEF LiveOn, NoActivity, SessionExclusives
<1>8. LockGlobalOwner' = LockGlobalOwner
  BY <1>2, <1>3, <1>4, SameGlobalOwner DEF Running, NoActivity, SessionExclusives, GlobalExclusives
<1> QED
  BY <1>5, <1>6, <1>7, <1>8, ConstantsAssumption DEF Lock!FinishMaintenance

\* The end of a global reset or of the shutdown releases everything.
LEMMA GlobalRefines ==
  ASSUME IInv, IInv', NEW c \in Calls, Running(c, GlobalExclusives),
         NEW E \in SUBSET Calls, calls' = Settle(E, {}), c \in E,
         \A d \in E : d # c => calls[d].kind = "shutdown_join"
  PROVE  Lock!FinishOwnership
<1>1. Holdings(E)
  BY SettleEffect
<1>2. OwnersRun /\ OwnersRun'
  BY MappedOwners, MappedOwnersNext
<1>3. LockGlobalOwner = c
  BY <1>2 DEF OwnersRun
<1>4. LockGlobalOwner' = NoCall
  <2>1. \A d \in Calls : ~Running(d, GlobalExclusives)'
    <3>1. ASSUME NEW d \in E PROVE ~Running(d, GlobalExclusives)'
      BY <1>1 DEF Holdings, Running, NoActivity, GlobalExclusives
    <3>2. ASSUME NEW d \in Calls \ E PROVE ~Running(d, GlobalExclusives)'
      <4>1. ~Running(d, GlobalExclusives)
        BY <1>2, <1>3 DEF OwnersRun
      <4> QED
        BY <1>1, <4>1 DEF Running, Holdings
    <3> QED
      BY <3>1, <3>2
  <2> QED
    BY <1>2, <2>1, ConstantsAssumption DEF OwnersRun
<1>5. LockOperations' = LockOperations
  <2>1. \A d \in E : calls[d].kind # "operation"
    BY DEF Running, GlobalExclusives
  <2>2. \A r \in Sessions, d \in Calls : LiveOn(d, {"operation"}, r) <=> LiveOn(d, {"operation"}, r)'
    BY <1>1, <2>1 DEF LiveOn, NoActivity, Holdings
  <2> QED
    BY <2>2, SameOperations
<1>6. LockMaintainer' = LockMaintainer
  <2>1. \A d \in E : calls[d].kind \notin SessionExclusives
    BY DEF Running, GlobalExclusives, SessionExclusives
  <2>2. \A r \in Sessions, d \in Calls :
          Running(d, SessionExclusives) /\ calls[d].session = r <=>
          Running(d, SessionExclusives)' /\ calls'[d].session = r
    BY <1>1, <2>1 DEF Running, NoActivity, Holdings, SessionExclusives
  <2> QED
    BY <1>2, <2>2, SameMaintainers
<1> QED
  BY <1>3, <1>4, <1>5, <1>6, ConstantsAssumption DEF Lock!FinishOwnership

LEMMA TryEvictStutters ==
  ASSUME IInv, IInv', NEW S \in SUBSET Sessions, NEW ok \in BOOLEAN, TryEvictIdleSessions(S, ok)
  PROVE  UNCHANGED <<LockOperations, LockMaintainer, LockGlobalOwner>>
<1>1. PICK woken : woken = NotifiedGlobalIdle(activeOperations, maintenanceOwners)
  OBVIOUS
<1>2. woken \in SUBSET Calls /\ \A d \in woken : calls[d].stage = "waiting"
  BY <1>1 DEF NotifiedGlobalIdle, GlobalWaiters
<1>3. calls' = Settle({}, woken)
  BY <1>1 DEF TryEvictIdleSessions
<1>4. \A d \in Calls : /\ calls'[d].kind = calls[d].kind
                       /\ calls'[d].session = calls[d].session
                       /\ calls'[d].stage = "running" <=> calls[d].stage = "running"
  <2>1. Holdings({})
    BY <1>2, <1>3, SettleEffect
  <2> QED
    BY <2>1 DEF Holdings
<1>5. LockOperations' = LockOperations
  BY <1>4, SameOperations DEF LiveOn
<1>6. LockMaintainer' = LockMaintainer
  BY <1>4, SameMaintainers, MappedOwners, MappedOwnersNext DEF Running
<1>7. LockGlobalOwner' = LockGlobalOwner
  BY <1>4, SameGlobalOwner, MappedOwners, MappedOwnersNext DEF Running
<1> QED
  BY <1>5, <1>6, <1>7

LEMMA InitRefines == Init => Lock!Init
<1> SUFFICES ASSUME Init PROVE Lock!Init
  OBVIOUS
<1>1. \A c \in Calls : calls[c].kind = "none"
  BY DEF Init, NoActivity
<1>2. LockOperations = [s \in Sessions |-> {}]
  BY <1>1 DEF LockOperations, LiveOn
<1>3. LockMaintainer = [s \in Sessions |-> NoCall]
  BY <1>1 DEF LockMaintainer, Running, SessionExclusives
<1>4. LockGlobalOwner = NoCall
  BY <1>1 DEF LockGlobalOwner, Running, GlobalExclusives
<1> QED
  BY <1>2, <1>3, <1>4 DEF Lock!Init

LEMMA StepRefines ==
  ASSUME IInv, IInv', [Next]_vars
  PROVE  [Lock!Next]_(Lock!vars)
<1> USE DEF Lock!vars
<1>1. CASE UNCHANGED vars
  <2>1. calls' = calls
    BY <1>1 DEF vars
  <2> QED
    BY <2>1 DEF LockOperations, LockMaintainer, LockGlobalOwner, LiveOn, Running
<1>2. ASSUME NEW c \in Calls, NEW p \in Calls \cup {NoCall}, NEW s \in Sessions,
             RunOperation(c, p, s)
      PROVE  Lock!Next
  BY <1>2, RunOperationRefines DEF Lock!Next
<1>3. ASSUME NEW c \in Calls, CompleteOperation(c)
      PROVE  Lock!Next
  BY <1>3, CompleteOperationRefines DEF Lock!Next
<1>4. ASSUME NEW c \in Calls, NEW p \in Calls \cup {NoCall}, NEW s \in Sessions,
             NEW x \in SessionExclusives, NEW retryFailed \in BOOLEAN,
             BeginSessionExclusive(c, p, s, x, retryFailed)
      PROVE  UNCHANGED Lock!vars
  BY <1>4, StartStutters DEF BeginSessionExclusive, SessionWaitStage, SessionExclusives,
     GlobalExclusives, Kinds
<1>5. ASSUME NEW c \in Calls, BeginGlobalReset(c) \/ BeginShutdown(c)
      PROVE  UNCHANGED Lock!vars
  BY <1>5, StartStutters DEF BeginGlobalReset, BeginShutdown, GlobalWaitStage,
     SessionExclusives, GlobalExclusives, Kinds
<1>6. ASSUME NEW c \in Calls, NEW p \in Calls \cup {NoCall}, JoinShutdown(c, p)
      PROVE  UNCHANGED Lock!vars
  BY <1>6, StartStutters DEF JoinShutdown, SessionExclusives, GlobalExclusives, Kinds
<1>7. ASSUME NEW c \in Calls, Enter(c)
      PROVE  Lock!Next
  BY <1>7, EnterRefines DEF Lock!Next
<1>8. ASSUME NEW c \in Calls, NEW ok \in BOOLEAN, CompleteSessionExclusive(c, ok)
      PROVE  Lock!Next
  BY <1>8, CompleteSessionExclusiveRefines DEF Lock!Next
<1>9. ASSUME NEW c \in Calls, NEW ok \in BOOLEAN,
             CompleteGlobalReset(c, ok) \/ CompleteShutdown(c, ok)
      PROVE  Lock!Next
  <2>1. Running(c, GlobalExclusives)
    BY <1>9 DEF CompleteGlobalReset, CompleteShutdown, Live, Running, GlobalExclusives
  <2>2. PICK E \in SUBSET Calls : /\ calls' = Settle(E, {})
                                 /\ c \in E
                                 /\ \A d \in E : d # c => calls[d].kind = "shutdown_join"
    BY <1>9 DEF CompleteGlobalReset, CompleteShutdown, Live
  <2> QED
    BY <2>1, <2>2, GlobalRefines DEF Lock!Next
<1>10. ASSUME NEW S \in SUBSET Sessions, NEW ok \in BOOLEAN, TryEvictIdleSessions(S, ok)
       PROVE  UNCHANGED Lock!vars
  BY <1>10, TryEvictStutters
<1> QED
  BY <1>1, <1>2, <1>3, <1>4, <1>5, <1>6, <1>7, <1>8, <1>9, <1>10 DEF Next, Begin, Complete

\* The coordinator implements the two-level lock: whatever its phases, counters
\* and waiters do, the callbacks it runs only ever hold sessions, or everything,
\* the way ScopedExclusion allows.
THEOREM ImplementsLock == Spec => LockSpec
<1>1. Init => Lock!Init
  BY InitRefines
<1>2. IInv /\ IInv' /\ [Next]_vars => [Lock!Next]_(Lock!vars)
  BY StepRefines
<1> QED
  BY <1>1, <1>2, Invariance, PTL DEF Spec, LockSpec, Lock!Spec

=============================================================================
