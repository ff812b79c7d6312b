--------------------------- MODULE ScopedExclusion ---------------------------
(***************************************************************************)
(* What the session lifecycle promises, without phases, counters, waiters  *)
(* or failures: a two-level readers-writer lock.  A session is held by     *)
(* many operations or by one maintenance owner; one global owner excludes  *)
(* every holder of every session.                                          *)
(***************************************************************************)
CONSTANTS Sessions, Holders, NoHolder

VARIABLES
  operations,   \* the holders operating on each session
  maintainer,   \* the holder maintaining each session, or NoHolder
  globalOwner   \* the holder that owns every session, or NoHolder

vars == <<operations, maintainer, globalOwner>>

Held(h) ==
  \/ h = globalOwner
  \/ \E s \in Sessions : h \in operations[s] \/ h = maintainer[s]

Init ==
  /\ operations = [s \in Sessions |-> {}]
  /\ maintainer = [s \in Sessions |-> NoHolder]
  /\ globalOwner = NoHolder

Operate(h, s) ==
  /\ ~Held(h)
  /\ globalOwner = NoHolder
  /\ maintainer[s] = NoHolder
  /\ operations' = [operations EXCEPT ![s] = @ \cup {h}]
  /\ UNCHANGED <<maintainer, globalOwner>>

FinishOperation(h, s) ==
  /\ h \in operations[s]
  /\ operations' = [operations EXCEPT ![s] = @ \ {h}]
  /\ UNCHANGED <<maintainer, globalOwner>>

Maintain(h, s) ==
  /\ ~Held(h)
  /\ globalOwner = NoHolder
  /\ maintainer[s] = NoHolder
  /\ operations[s] = {}
  /\ maintainer' = [maintainer EXCEPT ![s] = h]
  /\ UNCHANGED <<operations, globalOwner>>

FinishMaintenance(s) ==
  /\ maintainer[s] # NoHolder
  /\ maintainer' = [maintainer EXCEPT ![s] = NoHolder]
  /\ UNCHANGED <<operations, globalOwner>>

OwnAll(h) ==
  /\ ~Held(h)
  /\ globalOwner = NoHolder
  /\ \A s \in Sessions : operations[s] = {} /\ maintainer[s] = NoHolder
  /\ globalOwner' = h
  /\ UNCHANGED <<operations, maintainer>>

FinishOwnership ==
  /\ globalOwner # NoHolder
  /\ globalOwner' = NoHolder
  /\ UNCHANGED <<operations, maintainer>>

Next ==
  \/ \E s \in Sessions :
       \/ FinishMaintenance(s)
       \/ \E h \in Holders : Operate(h, s) \/ FinishOperation(h, s) \/ Maintain(h, s)
  \/ \E h \in Holders : OwnAll(h)
  \/ FinishOwnership

Spec == Init /\ [][Next]_vars

=============================================================================
