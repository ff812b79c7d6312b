-------------------------- MODULE ToolInterleaveProofs --------------------------
(***************************************************************************)
(* Proofs about SessionLock and about the requests of ToolInterleave that  *)
(* use it, for any sets of sessions, requests and tokens.                  *)
(*                                                                         *)
(* The promises of a session form a chain.  The invariant of the lock says *)
(* that there is a sequence of the unsettled calls in which everybody's    *)
(* predecessor is the one before, the first one's has settled, and the map *)
(* holds the last one.  Publishing appends to it and settling removes its  *)
(* head.  From the chain follow mutual exclusion, the life of the map's    *)
(* entries and the refinement of FifoLock.                                 *)
(*                                                                         *)
(* What the requests do to the lock is a behaviour of SessionLock, so all  *)
(* of this holds of them.  The rest is about the tokens and the chains of  *)
(* thoughts.                                                               *)
(***************************************************************************)
EXTENDS ToolInterleave, FiniteSetTheorems, TLAPS

-----------------------------------------------------------------------------
(* The chain of promises.                                                  *)

\* q lists the unsettled calls of every session in the order of their chain.
Chain(q) ==
  /\ q \in [Sessions -> Seq(Requests)]
  /\ \A s \in Sessions : \A i \in 1..Len(q[s]) :
       /\ stage[q[s][i]] # "idle"
       /\ session[q[s][i]] = s
       /\ previous[q[s][i]] = IF i = 1 THEN NoRequest ELSE q[s][i - 1]
  /\ \A s \in Sessions : \A i, j \in 1..Len(q[s]) : q[s][i] = q[s][j] => i = j
  /\ \A s \in Sessions :
       locks[s] = IF Len(q[s]) = 0 THEN NoRequest ELSE q[s][Len(q[s])]

\* Every unsettled call is in its chain.
Complete(q) ==
  \A a \in Requests : stage[a] # "idle" =>
    \E i \in 1..Len(q[session[a]]) : q[session[a]][i] = a

\* Only calls whose predecessor has settled run.
AheadSettled ==
  \A a \in Requests : stage[a] \in {"running", "released"} => previous[a] = NoRequest

LockInv ==
  /\ LockTypeOK
  /\ AheadSettled
  /\ \E q : Chain(q) /\ Complete(q)

\* A call whose predecessor has settled heads its chain.
LEMMA HeadOfChain ==
  ASSUME NEW q, LockTypeOK, Chain(q), Complete(q),
         NEW a \in Requests, stage[a] # "idle", previous[a] = NoRequest
  PROVE  /\ session[a] \in Sessions
         /\ Len(q[session[a]]) \in Nat \ {0}
         /\ q[session[a]][1] = a
<1>1. session[a] \in Sessions
  BY DEF LockTypeOK
<1>2. PICK i \in 1..Len(q[session[a]]) : q[session[a]][i] = a
  BY DEF Complete
<1>3. /\ q[session[a]] \in Seq(Requests)
      /\ Len(q[session[a]]) \in Nat
  BY <1>1 DEF Chain
<1>4. i = 1
  <2> SUFFICES ASSUME i # 1 PROVE FALSE
    OBVIOUS
  <2>1. previous[a] = q[session[a]][i - 1]
    BY <1>1, <1>2 DEF Chain
  <2>2. i - 1 \in 1..Len(q[session[a]])
    BY <1>3
  <2>3. q[session[a]][i - 1] \in Requests
    BY <1>3, <2>2
  <2> QED
    BY <2>1, <2>3, LockAssumption
<1> QED
  BY <1>1, <1>2, <1>3, <1>4

\* Two calls of a session whose predecessors have settled are the same call.
LEMMA OneHead ==
  ASSUME LockInv, NEW a \in Requests, NEW b \in Requests,
         stage[a] # "idle", stage[b] # "idle", session[a] = session[b],
         previous[a] = NoRequest, previous[b] = NoRequest
  PROVE  a = b
BY HeadOfChain DEF LockInv

LEMMA InitInv == LockInit => LockInv
<1> SUFFICES ASSUME LockInit PROVE LockInv
  OBVIOUS
<1>1. LockTypeOK /\ AheadSettled
  BY LockAssumption DEF LockInit, LockTypeOK, Stages, AheadSettled
<1> DEFINE q == [s \in Sessions |-> <<>>]
<1>2. Chain(q)
  BY DEF LockInit, Chain
<1>3. Complete(q)
  BY DEF LockInit, Complete
<1> HIDE DEF q
<1> QED
  BY <1>1, <1>2, <1>3 DEF LockInv

\* Steps that leave the chain as it is.
LEMMA ChainKept ==
  ASSUME LockTypeOK, NEW q, Chain(q), Complete(q), NEW a \in Requests, stage[a] # "idle",
         NEW st \in Stages \ {"idle"},
         stage' = [stage EXCEPT ![a] = st],
         UNCHANGED <<locks, session, previous>>
  PROVE  Chain(q)' /\ Complete(q)'
<1>1. \A b \in Requests : stage'[b] = "idle" <=> stage[b] = "idle"
  BY DEF LockTypeOK
<1>2. \A s \in Sessions : \A i \in 1..Len(q[s]) : q[s][i] \in Requests
  BY DEF Chain
<1>3. Chain(q)'
  BY <1>1, <1>2 DEF Chain
<1>4. Complete(q)'
  BY <1>1 DEF Complete
<1> QED
  BY <1>3, <1>4

LEMMA SameChain ==
  ASSUME LockInv, NEW a \in Requests, stage[a] # "idle",
         NEW st \in Stages \ {"idle"},
         stage' = [stage EXCEPT ![a] = st],
         st \in {"running", "released"} => previous[a] = NoRequest,
         UNCHANGED <<locks, session, previous>>
  PROVE  LockInv'
<1>1. LockTypeOK' /\ AheadSettled'
  BY DEF LockInv, LockTypeOK, AheadSettled
<1>2. PICK q : Chain(q) /\ Complete(q)
  BY DEF LockInv
<1>3. Chain(q)' /\ Complete(q)'
  BY <1>2, ChainKept DEF LockInv
<1> QED
  BY <1>1, <1>3 DEF LockInv

\* Publishing appends the call to its chain.
LEMMA ChainGrows ==
  ASSUME LockTypeOK, NEW q, Chain(q), Complete(q),
         NEW a \in Requests, NEW s \in Sessions, WithLock(a, s),
         NEW r, r = [q EXCEPT ![s] = Append(q[s], a)]
  PROVE  Chain(r)' /\ Complete(r)'
<1> USE DEF WithLock
<1>3. Chain(q) /\ Complete(q)
  OBVIOUS
<1>4. r = [q EXCEPT ![s] = Append(q[s], a)]
  OBVIOUS
<1>5. /\ \A t \in Sessions : q[t] \in Seq(Requests) /\ Len(q[t]) \in Nat
      /\ \A t \in Sessions : \A i \in 1..Len(q[t]) : q[t][i] \in Requests \ {a}
  BY <1>3 DEF Chain
<1>6. /\ r \in [Sessions -> Seq(Requests)]
      /\ \A t \in Sessions \ {s} : r[t] = q[t]
      /\ Len(r[s]) = Len(q[s]) + 1
      /\ r[s][Len(q[s]) + 1] = a
      /\ \A i \in 1..Len(q[s]) : r[s][i] = q[s][i]
  BY <1>3, <1>4, <1>5 DEF Chain
<1>7. \A b \in Requests \ {a} : /\ stage'[b] = stage[b] /\ session'[b] = session[b]
                               /\ previous'[b] = previous[b]
  BY DEF LockTypeOK
<1>8. stage'[a] = "waiting" /\ session'[a] = s /\ previous'[a] = locks[s]
  BY DEF LockTypeOK
<1>9. Chain(r)'
  <2>1. \A t \in Sessions : \A i \in 1..Len(r[t]) :
          /\ stage'[r[t][i]] # "idle"
          /\ session'[r[t][i]] = t
          /\ previous'[r[t][i]] = IF i = 1 THEN NoRequest ELSE r[t][i - 1]
    <3> SUFFICES ASSUME NEW t \in Sessions, NEW i \in 1..Len(r[t])
                 PROVE  /\ stage'[r[t][i]] # "idle"
                        /\ session'[r[t][i]] = t
                        /\ previous'[r[t][i]] = IF i = 1 THEN NoRequest ELSE r[t][i - 1]
      OBVIOUS
    <3>1. CASE t # s
      BY <3>1, <1>3, <1>5, <1>6, <1>7 DEF Chain
    <3>2. CASE t = s /\ i \in 1..Len(q[s])
      <4>1. /\ r[s][i] = q[s][i] /\ q[s][i] \in Requests \ {a}
            /\ i # 1 => i - 1 \in 1..Len(q[s])
        BY <3>2, <1>5, <1>6
      <4>2. i # 1 => r[s][i - 1] = q[s][i - 1]
        BY <4>1, <1>6
      <4>3. /\ stage[q[s][i]] # "idle"
            /\ session[q[s][i]] = s
            /\ previous[q[s][i]] = IF i = 1 THEN NoRequest ELSE q[s][i - 1]
        BY <3>2, <1>3 DEF Chain
      <4> QED
        BY <3>2, <4>1, <4>2, <4>3, <1>7
    <3>3. CASE t = s /\ i = Len(q[s]) + 1
      BY <3>3, <1>3, <1>5, <1>6, <1>8 DEF Chain
    <3> QED
      BY <3>1, <3>2, <3>3, <1>5, <1>6
  <2>2. \A t \in Sessions : \A i, j \in 1..Len(r[t]) : r[t][i] = r[t][j] => i = j
    <3> SUFFICES ASSUME NEW t \in Sessions, NEW i \in 1..Len(r[t]), NEW j \in 1..Len(r[t]),
                        r[t][i] = r[t][j]
                 PROVE  i = j
      OBVIOUS
    <3>1. CASE t # s
      BY <3>1, <1>3, <1>6 DEF Chain
    <3>2. CASE t = s /\ i \in 1..Len(q[s]) /\ j \in 1..Len(q[s])
      BY <3>2, <1>3, <1>6 DEF Chain
    <3>3. CASE t = s /\ ~(i \in 1..Len(q[s]) /\ j \in 1..Len(q[s]))
      <4>1. \A k \in 1..Len(r[s]) : k \in 1..Len(q[s]) \/ k = Len(q[s]) + 1
        BY <1>5, <1>6
      <4>2. \A k \in 1..Len(r[s]) : r[s][k] = a <=> k = Len(q[s]) + 1
        BY <4>1, <1>5, <1>6
      <4> QED
        BY <3>3, <4>1, <4>2
    <3> QED
      BY <3>1, <3>2, <3>3
  <2>3. \A t \in Sessions :
          locks'[t] = IF Len(r[t]) = 0 THEN NoRequest ELSE r[t][Len(r[t])]
    BY <1>3, <1>5, <1>6 DEF Chain, LockTypeOK
  <2> QED
    BY <1>6, <2>1, <2>2, <2>3 DEF Chain
<1>10. Complete(r)'
  <2> SUFFICES ASSUME NEW b \in Requests, stage'[b] # "idle"
               PROVE  \E i \in 1..Len(r[session'[b]]) : r[session'[b]][i] = b
    BY DEF Complete
  <2>1. CASE b = a
    BY <2>1, <1>5, <1>6, <1>8
  <2>2. CASE b # a
    <3>1. session[b] \in Sessions
      BY <2>2, <1>7 DEF LockTypeOK
    <3>2. PICK i \in 1..Len(q[session[b]]) : q[session[b]][i] = b
      BY <2>2, <1>3, <1>7 DEF Complete
    <3>3. CASE session[b] = s
      <4>1. i \in 1..Len(q[s]) /\ q[s][i] = b
        BY <3>2, <3>3
      <4>2. i \in 1..Len(r[s]) /\ r[s][i] = b
        BY <4>1, <1>5, <1>6
      <4> QED
        BY <2>2, <3>3, <4>2, <1>7
    <3>4. CASE session[b] # s
      BY <2>2, <3>1, <3>2, <3>4, <1>6, <1>7
    <3> QED
      BY <3>3, <3>4
  <2> QED
    BY <2>1, <2>2
<1> QED
  BY <1>9, <1>10

LEMMA WithLockInv ==
  ASSUME LockInv, NEW a \in Requests, NEW s \in Sessions, WithLock(a, s)
  PROVE  LockInv'
<1>1. LockTypeOK'
  BY LockAssumption DEF LockInv, LockTypeOK, Stages, WithLock
<1>2. AheadSettled'
  BY DEF LockInv, LockTypeOK, AheadSettled, WithLock
<1>3. PICK q : Chain(q) /\ Complete(q)
  BY DEF LockInv
<1>4. PICK r : r = [q EXCEPT ![s] = Append(q[s], a)]
  OBVIOUS
<1>5. Chain(r)' /\ Complete(r)'
  BY <1>3, <1>4, ChainGrows DEF LockInv
<1> QED
  BY <1>1, <1>2, <1>5 DEF LockInv

\* Settling removes the head of the chain.
LEMMA ChainShrinks ==
  ASSUME LockTypeOK, NEW q, Chain(q), Complete(q), NEW a \in Requests, Settle(a),
         NEW s \in Sessions, s = session[a], NEW r, r = [q EXCEPT ![s] = Tail(q[s])]
  PROVE  Chain(r)' /\ Complete(r)'
<1> USE DEF Settle, Settles, Over, LocksAfter
<1>3. Chain(q) /\ Complete(q)
  OBVIOUS
<1>4. s = session[a]
  OBVIOUS
<1>5. /\ q[s] \in Seq(Requests) /\ q[s] # <<>>
      /\ Len(q[s]) \in Nat \ {0}
      /\ q[s][1] = a
  <2>1. Len(q[s]) \in Nat \ {0} /\ q[s][1] = a
    BY <1>3, <1>4, HeadOfChain
  <2>2. q[s] \in Seq(Requests)
    BY <1>3 DEF Chain
  <2> QED
    BY <2>1, <2>2
<1>6. r = [q EXCEPT ![s] = Tail(q[s])]
  OBVIOUS
<1>7. /\ \A t \in Sessions : q[t] \in Seq(Requests) /\ Len(q[t]) \in Nat
      /\ \A t \in Sessions : \A i \in 1..Len(q[t]) : q[t][i] \in Requests
  BY <1>3 DEF Chain
<1>8. /\ r \in [Sessions -> Seq(Requests)]
      /\ \A t \in Sessions \ {s} : r[t] = q[t]
      /\ Len(r[s]) = Len(q[s]) - 1
      /\ \A i \in 1..Len(r[s]) : r[s][i] = q[s][i + 1]
  BY <1>3, <1>5, <1>6, <1>7 DEF Chain
<1>9. \A b \in Requests \ {a} :
        /\ stage'[b] = stage[b] /\ session'[b] = session[b]
        /\ previous'[b] = IF previous[b] = a THEN NoRequest ELSE previous[b]
  BY DEF LockTypeOK
<1>10. \A t \in Sessions : \A i \in 1..Len(q[t]) : q[t][i] = a <=> t = s /\ i = 1
  BY <1>3, <1>4, <1>5 DEF Chain
<1>11. Chain(r)'
  <2>1. \A t \in Sessions : \A i \in 1..Len(r[t]) :
          /\ stage'[r[t][i]] # "idle"
          /\ session'[r[t][i]] = t
          /\ previous'[r[t][i]] = IF i = 1 THEN NoRequest ELSE r[t][i - 1]
    <3> SUFFICES ASSUME NEW t \in Sessions, NEW i \in 1..Len(r[t])
                 PROVE  /\ stage'[r[t][i]] # "idle"
                        /\ session'[r[t][i]] = t
                        /\ previous'[r[t][i]] = IF i = 1 THEN NoRequest ELSE r[t][i - 1]
      OBVIOUS
    <3>1. CASE t # s
      <4>1. /\ r[t] = q[t] /\ i \in 1..Len(q[t])
            /\ q[t][i] \in Requests \ {a}
            /\ i # 1 => q[t][i - 1] \in Requests \ {a}
        <5>1. r[t] = q[t] /\ i \in 1..Len(q[t])
          BY <3>1, <1>8
        <5>2. \A k \in 1..Len(q[t]) : q[t][k] \in Requests \ {a}
          BY <3>1, <1>7, <1>10
        <5>3. i # 1 => i - 1 \in 1..Len(q[t])
          BY <5>1, <1>7
        <5> QED
          BY <5>1, <5>2, <5>3
      <4>2. /\ stage[q[t][i]] # "idle"
            /\ session[q[t][i]] = t
            /\ previous[q[t][i]] = IF i = 1 THEN NoRequest ELSE q[t][i - 1]
        BY <1>3, <4>1 DEF Chain
      <4>3. previous'[q[t][i]] = previous[q[t][i]]
        BY <4>1, <4>2, <1>9, LockAssumption
      <4> QED
        BY <4>1, <4>2, <4>3, <1>9
    <3>2. CASE t = s
      <4>1. /\ i + 1 \in 1..Len(q[s]) /\ i \in 1..Len(q[s])
            /\ r[s][i] = q[s][i + 1]
            /\ q[s][i + 1] \in Requests \ {a}
        BY <3>2, <1>7, <1>8, <1>10
      <4>2. /\ stage[q[s][i + 1]] # "idle"
            /\ session[q[s][i + 1]] = s
            /\ previous[q[s][i + 1]] = q[s][i]
        BY <1>3, <4>1 DEF Chain
      <4>3. previous'[q[s][i + 1]] = IF i = 1 THEN NoRequest ELSE q[s][i]
        BY <4>1, <4>2, <1>9, <1>10
      <4>4. i # 1 => i - 1 \in 1..Len(r[s]) /\ r[s][i - 1] = q[s][i]
        BY <4>1, <3>2, <1>8, <1>7
      <4> QED
        BY <3>2, <4>1, <4>2, <4>3, <4>4, <1>9
    <3> QED
      BY <3>1, <3>2
  <2>2. \A t \in Sessions : \A i, j \in 1..Len(r[t]) : r[t][i] = r[t][j] => i = j
    <3> SUFFICES ASSUME NEW t \in Sessions, NEW i \in 1..Len(r[t]), NEW j \in 1..Len(r[t]),
                        r[t][i] = r[t][j]
                 PROVE  i = j
      OBVIOUS
    <3>1. CASE t # s
      BY <3>1, <1>3, <1>8 DEF Chain
    <3>2. CASE t = s
      <4>1. i + 1 \in 1..Len(q[s]) /\ j + 1 \in 1..Len(q[s]) /\ q[s][i + 1] = q[s][j + 1]
        BY <3>2, <1>7, <1>8
      <4>2. i + 1 = j + 1
        BY <4>1, <1>3 DEF Chain
      <4> QED
        BY <4>2
    <3> QED
      BY <3>1, <3>2
  <2>3. \A t \in Sessions :
          locks'[t] = IF Len(r[t]) = 0 THEN NoRequest ELSE r[t][Len(r[t])]
    <3> SUFFICES ASSUME NEW t \in Sessions
                 PROVE  locks'[t] = IF Len(r[t]) = 0 THEN NoRequest ELSE r[t][Len(r[t])]
      OBVIOUS
    <3>1. CASE t # s
      BY <3>1, <1>3, <1>4, <1>8 DEF Chain, LockTypeOK
    <3>2. CASE t = s
      <4>1. /\ locks[s] = q[s][Len(q[s])]
            /\ locks[s] = a <=> Len(q[s]) = 1
        <5>1. Len(q[s]) \in 1..Len(q[s]) /\ Len(q[s]) # 0
          BY <1>5
        <5>2. locks[s] = q[s][Len(q[s])]
          BY <1>3, <5>1 DEF Chain
        <5>3. q[s][Len(q[s])] = a <=> Len(q[s]) = 1
          BY <5>1, <1>10
        <5> QED
          BY <5>2, <5>3
      <4>2. locks'[s] = IF locks[s] = a THEN NoRequest ELSE locks[s]
        BY <1>4 DEF LockTypeOK
      <4>3. Len(q[s]) # 1 => r[s][Len(r[s])] = q[s][Len(q[s])]
        <5>1. Len(q[s]) # 1 => Len(r[s]) \in 1..Len(r[s])
          <6>1. Len(r[s]) = Len(q[s]) - 1 /\ Len(q[s]) \in Nat \ {0}
            BY <1>5, <1>8
          <6>2. \A n \in Nat \ {0} : n # 1 => n - 1 \in 1..(n - 1)
            OBVIOUS
          <6> QED
            BY <6>1, <6>2
        <5>2. Len(r[s]) + 1 = Len(q[s])
          BY <1>5, <1>8
        <5> QED
          BY <5>1, <5>2, <1>8
      <4> QED
        BY <3>2, <4>1, <4>2, <4>3, <1>5, <1>8
    <3> QED
      BY <3>1, <3>2
  <2> QED
    BY <1>8, <2>1, <2>2, <2>3 DEF Chain
<1>12. Complete(r)'
  <2> SUFFICES ASSUME NEW b \in Requests, stage'[b] # "idle"
               PROVE  \E i \in 1..Len(r[session'[b]]) : r[session'[b]][i] = b
    BY DEF Complete
  <2>1. b # a /\ stage[b] # "idle" /\ session'[b] = session[b]
    BY <1>9 DEF LockTypeOK
  <2>2. session[b] \in Sessions
    BY <2>1 DEF LockTypeOK
  <2>3. PICK i \in 1..Len(q[session[b]]) : q[session[b]][i] = b
    BY <2>1, <1>3 DEF Complete
  <2>4. CASE session[b] # s
    BY <2>1, <2>2, <2>3, <2>4, <1>8
  <2>5. CASE session[b] = s
    <3>1. i # 1
      BY <2>1, <2>3, <2>5, <1>5
    <3>2. i - 1 \in 1..Len(r[s]) /\ r[s][i - 1] = b
      BY <3>1, <2>3, <2>5, <1>7, <1>8
    <3> QED
      BY <2>1, <2>5, <3>2
  <2> QED
    BY <2>4, <2>5
<1> QED
  BY <1>11, <1>12

LEMMA SettleInv ==
  ASSUME LockInv, NEW a \in Requests, Settle(a)
  PROVE  LockInv'
<1> USE DEF Settle, Settles, Over, LocksAfter
<1>1. LockTypeOK'
  BY LockAssumption DEF LockInv, LockTypeOK, Stages
<1>2. AheadSettled'
  BY DEF LockInv, LockTypeOK, AheadSettled
<1>3. PICK q : Chain(q) /\ Complete(q)
  BY DEF LockInv
<1>4. PICK s \in Sessions : s = session[a]
  BY DEF LockInv, LockTypeOK
<1>5. PICK r : r = [q EXCEPT ![s] = Tail(q[s])]
  OBVIOUS
<1> HIDE DEF Settle, Settles, Over, LocksAfter
<1>6. Chain(r)' /\ Complete(r)'
  BY <1>3, <1>4, <1>5, ChainShrinks DEF LockInv
<1> QED
  BY <1>1, <1>2, <1>6 DEF LockInv

LEMMA NextInv == LockInv /\ [LockNext]_lockVars => LockInv'
<1> SUFFICES ASSUME LockInv, [LockNext]_lockVars PROVE LockInv'
  OBVIOUS
<1>1. CASE UNCHANGED lockVars
  BY <1>1 DEF lockVars, LockInv, LockTypeOK, AheadSettled, Chain, Complete
<1>2. ASSUME NEW a \in Requests, NEW s \in Sessions, WithLock(a, s) PROVE LockInv'
  BY <1>2, WithLockInv
<1>3. ASSUME NEW a \in Requests, Enter(a) PROVE LockInv'
  BY <1>3, SameChain DEF Enter, Stages
<1>4. ASSUME NEW a \in Requests, Timeout(a) PROVE LockInv'
  BY <1>4, SameChain DEF Timeout, Stages
<1>5. ASSUME NEW a \in Requests, Release(a) PROVE LockInv'
  <2>1. previous[a] = NoRequest
    BY <1>5 DEF Release, LockInv, AheadSettled
  <2> QED
    BY <1>5, <2>1, SameChain DEF Release, Stages
<1>6. ASSUME NEW a \in Requests, Settle(a) PROVE LockInv'
  BY <1>6, SettleInv
<1> QED
  BY <1>1, <1>2, <1>3, <1>4, <1>5, <1>6 DEF LockNext

\* The chain exists in every reachable state.
THEOREM LockInvariance == LockSpec => []LockInv
BY InitInv, NextInv, PTL DEF LockSpec

\* Every variable keeps its type (the fields of SessionLock and its calls).
THEOREM LockTypeCorrect == LockSpec => []LockTypeOK
<1>1. LockInv => LockTypeOK
  BY DEF LockInv
<1> QED
  BY <1>1, LockInvariance, PTL

\* Sections of the same session never overlap, for any number of calls and
\* whatever times out (SessionLock.withLock).
THEOREM SectionsExclude == LockSpec => []MutualExclusion
<1>1. LockInv => MutualExclusion
  <2> SUFFICES ASSUME LockInv, NEW a \in Requests, NEW b \in Requests,
                      stage[a] = "running", stage[b] = "running", session[a] = session[b]
               PROVE  a = b
    BY DEF MutualExclusion
  <2>1. previous[a] = NoRequest /\ previous[b] = NoRequest
    BY DEF LockInv, AheadSettled
  <2> QED
    BY <2>1, OneHead
<1> QED
  BY <1>1, LockInvariance, PTL

\* The map has an entry exactly for the sessions with an unsettled call
\* (the identity check of the cleanup reaction).
THEOREM TailsAreLive == LockSpec => []NoLeakedTail
<1>1. LockInv => NoLeakedTail
  <2> SUFFICES ASSUME LockInv, NEW s \in Sessions
               PROVE  locks[s] # NoRequest <=> Unsettled(s) # {}
    BY DEF NoLeakedTail
  <2>1. PICK q : Chain(q) /\ Complete(q)
    BY DEF LockInv
  <2>2. /\ q[s] \in Seq(Requests) /\ Len(q[s]) \in Nat
        /\ locks[s] = IF Len(q[s]) = 0 THEN NoRequest ELSE q[s][Len(q[s])]
    BY <2>1 DEF Chain
  <2>3. CASE Len(q[s]) = 0
    BY <2>1, <2>2, <2>3 DEF Complete, Unsettled
  <2>4. CASE Len(q[s]) # 0
    <3>1. q[s][Len(q[s])] \in Requests /\ q[s][Len(q[s])] \in Unsettled(s)
      BY <2>1, <2>2, <2>4 DEF Chain, Unsettled
    <3> QED
      BY <2>2, <2>4, <3>1, LockAssumption
  <2> QED
    BY <2>3, <2>4
<1> QED
  BY <1>1, LockInvariance, PTL

-----------------------------------------------------------------------------
(***************************************************************************)
(* The refinement of FifoLock.  The queue of a session is the list of its  *)
(* waiting calls in the order of the chain.  Such a list exists in every   *)
(* state, it is the only one the refinement mapping may choose, and every  *)
(* step of the chain moves it as the lock moves its queue.                 *)
(***************************************************************************)

\* Every set of natural numbers that is not empty has a least element.
LEMMA LeastNumber ==
  ASSUME NEW T \in SUBSET Nat, T # {}
  PROVE  \E x \in T : \A y \in T : x <= y
<1> DEFINE Below == {0..x : x \in T}
<1>1. Below \subseteq FiniteSubsetsOf(Nat)
  <2>1. \A x \in T : IsFiniteSet(0..x)
    BY FS_Interval
  <2>2. \A x \in T : 0..x \subseteq Nat
    OBVIOUS
  <2> QED
    BY <2>1, <2>2 DEF FiniteSubsetsOf
<1>2. IsWellFoundedOn(StrictSubsetOrdering(Nat), FiniteSubsetsOf(Nat))
  BY FS_StrictSubsetOrderingWellFounded
<1>3. Below # {}
  OBVIOUS
<1> HIDE DEF Below
<1>4. PICK B \in Below : \A C \in Below : ~(<<C, B>> \in StrictSubsetOrdering(Nat))
  BY <1>1, <1>2, <1>3, WFMin
<1>5. PICK x \in T : B = 0..x
  BY <1>4 DEF Below
<1>6. \A y \in T : x <= y
  <2> SUFFICES ASSUME NEW y \in T, y < x PROVE FALSE
    OBVIOUS
  <2>1. 0..y \in Below
    BY DEF Below
  <2>2. 0..y \subseteq 0..x /\ 0..y # 0..x /\ 0..x \subseteq Nat
    OBVIOUS
  <2>3. <<0..y, B>> \in StrictSubsetOrdering(Nat)
    BY <1>5, <2>2 DEF StrictSubsetOrdering
  <2> QED
    BY <1>4, <2>1, <2>3
<1> QED
  BY <1>6

LEMMA GreatestNumber ==
  ASSUME NEW n \in Nat, NEW T \in SUBSET (1..n), T # {}
  PROVE  \E x \in T : \A y \in T : y <= x
<1> DEFINE Above == {n - x : x \in T}
<1>1. Above \in SUBSET Nat /\ Above # {}
  OBVIOUS
<1> HIDE DEF Above
<1>2. PICK k \in Above : \A l \in Above : k <= l
  BY <1>1, LeastNumber
<1> USE DEF Above
<1>3. PICK x \in T : k = n - x
  OBVIOUS
<1>4. \A y \in T : n - y \in Above /\ y \in Int
  OBVIOUS
<1>5. \A y \in T : y <= x
  BY <1>2, <1>3, <1>4
<1> QED
  BY <1>5

\* The calls ahead of a call are those listed before it in the chain.
LEMMA PredecessorsOfChain ==
  ASSUME LockTypeOK, NEW q, Chain(q), NEW s \in Sessions, NEW j \in 1..Len(q[s])
  PROVE  Predecessors(q[s][j]) = {q[s][i] : i \in 1..(j - 1)}
<1> DEFINE ahead == {q[s][i] : i \in 1..(j - 1)}
           Follows(S) == \A b \in S \cup {q[s][j]} : previous[b] \in S \cup {NoRequest}
<1>1. /\ Len(q[s]) \in Nat
      /\ \A i \in 1..Len(q[s]) : q[s][i] \in Requests
      /\ \A i \in 1..Len(q[s]) : previous[q[s][i]] = IF i = 1 THEN NoRequest ELSE q[s][i - 1]
  BY DEF Chain
<1>2. Predecessors(q[s][j]) = {b \in Requests : \A S \in SUBSET Requests : Follows(S) => b \in S}
  BY DEF Predecessors
<1>3. ahead \in SUBSET Requests
  BY <1>1
<1>4. Follows(ahead)
  <2> SUFFICES ASSUME NEW b \in ahead \cup {q[s][j]} PROVE previous[b] \in ahead \cup {NoRequest}
    OBVIOUS
  <2>1. PICK k \in 1..j : b = q[s][k]
    BY <1>1
  <2>2. CASE k = 1
    BY <1>1, <2>1, <2>2
  <2>3. CASE k # 1
    <3>1. k - 1 \in 1..(j - 1) /\ k \in 1..Len(q[s])
      BY <1>1, <2>3
    <3>2. previous[b] = q[s][k - 1]
      BY <1>1, <2>1, <2>3, <3>1
    <3> QED
      BY <3>1, <3>2
  <2> QED
    BY <2>2, <2>3
<1>5. ASSUME NEW S \in SUBSET Requests, Follows(S) PROVE ahead \subseteq S
  <2> SUFFICES ASSUME ~(ahead \subseteq S) PROVE FALSE
    OBVIOUS
  <2> DEFINE Missing == {i \in 1..(j - 1) : q[s][i] \notin S}
  <2>1. Missing \in SUBSET (1..(j - 1)) /\ Missing # {} /\ j - 1 \in Nat
    BY <1>1
  <2>2. PICK m \in Missing : \A y \in Missing : y <= m
    BY <2>1, GreatestNumber
  <2>3. m + 1 \in 1..j /\ m + 1 \in 1..Len(q[s]) /\ m + 1 # 1 /\ (m + 1) - 1 = m
    BY <1>1
  <2>4. q[s][m + 1] \in S \cup {q[s][j]}
    <3>1. CASE m + 1 = j
      BY <3>1
    <3>2. CASE m + 1 # j
      <4>1. m + 1 \in 1..(j - 1) /\ ~(m + 1 <= m)
        BY <2>3, <3>2
      <4> QED
        BY <2>2, <4>1
    <3> QED
      BY <3>1, <3>2
  <2>5. previous[q[s][m + 1]] = q[s][m]
    BY <1>1, <2>3
  <2>6. q[s][m] \in S \cup {NoRequest}
    BY <1>5, <2>4, <2>5
  <2>7. q[s][m] \in Requests /\ q[s][m] \notin S
    BY <1>1
  <2> QED
    BY <2>6, <2>7, LockAssumption
<1> HIDE DEF Follows, ahead
<1>6. Predecessors(q[s][j]) = ahead
  <2>1. Predecessors(q[s][j]) \subseteq ahead
    BY <1>2, <1>3, <1>4
  <2>2. ahead \subseteq Predecessors(q[s][j])
    BY <1>2, <1>3, <1>5
  <2> QED
    BY <2>1, <2>2
<1> QED
  BY <1>6 DEF ahead

\* Of two calls of a chain, one is ahead of the other exactly if it comes first.
LEMMA AheadIsBefore ==
  ASSUME LockTypeOK, NEW q, Chain(q), NEW s \in Sessions,
         NEW i \in 1..Len(q[s]), NEW j \in 1..Len(q[s])
  PROVE  q[s][i] \in Predecessors(q[s][j]) <=> i < j
<1>1. Len(q[s]) \in Nat /\ \A k, l \in 1..Len(q[s]) : q[s][k] = q[s][l] => k = l
  BY DEF Chain
<1>2. q[s][i] \in Predecessors(q[s][j]) <=> \E k \in 1..(j - 1) : q[s][i] = q[s][k]
  <2>1. Predecessors(q[s][j]) = {q[s][k] : k \in 1..(j - 1)}
    BY PredecessorsOfChain
  <2> QED
    BY <2>1
<1>3. \A k \in 1..(j - 1) : k \in 1..Len(q[s])
  BY <1>1
<1>4. (\E k \in 1..(j - 1) : q[s][i] = q[s][k]) <=> i \in 1..(j - 1)
  BY <1>1, <1>3
<1> QED
  BY <1>2, <1>4

\* w lists the waiting calls of every session in the order of the chain q.
Ordered(q, w) ==
  /\ w \in [Sessions -> Seq(Requests)]
  /\ \A s \in Sessions : \A i \in 1..Len(w[s]) :
       stage[w[s][i]] = "waiting" /\ session[w[s][i]] = s
  /\ \A a \in Requests : stage[a] = "waiting" =>
       \E i \in 1..Len(w[session[a]]) : w[session[a]][i] = a
  /\ \A s \in Sessions : \A i, j \in 1..Len(w[s]) : \A k, l \in 1..Len(q[s]) :
       i < j /\ q[s][k] = w[s][i] /\ q[s][l] = w[s][j] => k < l

\* A waiting call has a place in the chain of its session.
LEMMA PlaceOfWaiting ==
  ASSUME LockTypeOK, NEW q, Complete(q), NEW s \in Sessions, NEW a \in Waiting(s)
  PROVE  a \in Requests /\ \E k \in 1..Len(q[s]) : q[s][k] = a
BY DEF Complete, Waiting, Unsettled

\* The list of a session meets what the refinement mapping asks for.
LEMMA OrderedIsListed ==
  ASSUME LockTypeOK, NEW q, Chain(q), Complete(q), NEW w, Ordered(q, w), NEW s \in Sessions
  PROVE  /\ Cardinality(Waiting(s)) \in Nat
         /\ w[s] \in [1..Cardinality(Waiting(s)) -> Waiting(s)]
         /\ Listed(s, w[s])
<1> DEFINE n == Len(w[s])
<1>1. w[s] \in Seq(Requests) /\ n \in Nat /\ w[s] \in [1..n -> Requests]
  BY DEF Ordered
<1>2. w[s] \in [1..n -> Waiting(s)]
  BY <1>1 DEF Ordered, Waiting, Unsettled
<1>3. \A a \in Waiting(s) : \E i \in 1..n : w[s][i] = a
  BY DEF Ordered, Waiting, Unsettled
<1>4. ASSUME NEW i \in 1..n, NEW j \in 1..n, i < j
      PROVE  w[s][i] \in Predecessors(w[s][j])
  <2>1. w[s][i] \in Waiting(s) /\ w[s][j] \in Waiting(s)
    BY <1>2
  <2>2. PICK k \in 1..Len(q[s]) : q[s][k] = w[s][i]
    BY <2>1, PlaceOfWaiting
  <2>3. PICK l \in 1..Len(q[s]) : q[s][l] = w[s][j]
    BY <2>1, PlaceOfWaiting
  <2>4. k < l
    BY <1>4, <2>2, <2>3 DEF Ordered
  <2>5. q[s][k] \in Predecessors(q[s][l])
    BY <2>4, AheadIsBefore
  <2> QED
    BY <2>2, <2>3, <2>5
<1>5. Listed(s, w[s])
  BY <1>2, <1>3, <1>4 DEF Listed
<1>6. ASSUME NEW i \in 1..n, NEW j \in 1..n, i < j
      PROVE  w[s][i] # w[s][j]
  <2>1. PICK k \in 1..Len(q[s]) : q[s][k] = w[s][i]
    BY <1>2, PlaceOfWaiting
  <2>2. w[s][i] = w[s][j] => k < k
    BY <1>6, <2>1 DEF Ordered
  <2>3. k \in Int
    BY DEF Chain
  <2> QED
    BY <2>2, <2>3
<1>7. Cardinality(Waiting(s)) = n
  <2>1. \A i, j \in 1..n : w[s][i] = w[s][j] => i = j
    <3> SUFFICES ASSUME NEW i \in 1..n, NEW j \in 1..n, i # j PROVE w[s][i] # w[s][j]
      OBVIOUS
    <3>1. i < j \/ j < i
      BY <1>1
    <3> QED
      BY <3>1, <1>6
  <2>2. w[s] \in Bijection(1..n, Waiting(s))
    BY <1>2, <1>3, <2>1 DEF Bijection, Injection, Surjection, IsInjective
  <2>3. IsFiniteSet(1..n) /\ Cardinality(1..n) = n
    <3> HIDE DEF n
    <3>1. 1 \in Int /\ n \in Int /\ (IF 1 > n THEN 0 ELSE n - 1 + 1) = n
      BY <1>1
    <3> QED
      BY <3>1, FS_Interval
  <2>4. ExistsBijection(1..n, Waiting(s))
    BY <2>2 DEF ExistsBijection
  <2> QED
    BY <2>3, <2>4, FS_Bijection
<1> QED
  BY <1>1, <1>2, <1>5, <1>7

\* There is only one such list.
LEMMA ListedOnce ==
  ASSUME LockTypeOK, NEW q, Chain(q), Complete(q), NEW s \in Sessions, NEW n \in Nat,
         NEW p \in [1..n -> Waiting(s)], NEW r \in [1..n -> Waiting(s)],
         Listed(s, p), Listed(s, r)
  PROVE  p = r
<1>1. ASSUME NEW a \in Waiting(s), NEW b \in Waiting(s),
             a \in Predecessors(b), b \in Predecessors(a)
      PROVE  FALSE
  <2>1. PICK k \in 1..Len(q[s]) : q[s][k] = a
    BY PlaceOfWaiting
  <2>2. PICK l \in 1..Len(q[s]) : q[s][l] = b
    BY PlaceOfWaiting
  <2>3. k < l
    BY <1>1, <2>1, <2>2, AheadIsBefore
  <2>4. l < k
    BY <1>1, <2>1, <2>2, AheadIsBefore
  <2>5. k \in Int /\ l \in Int
    BY DEF Chain
  <2> QED
    BY <2>3, <2>4, <2>5
<1> DEFINE Differ == {i \in 1..n : p[i] # r[i]}
<1>2. ASSUME Differ # {} PROVE FALSE
  <2>1. Differ \in SUBSET Nat
    OBVIOUS
  <2>2. PICK m \in Differ : \A y \in Differ : m <= y
    BY <1>2, <2>1, LeastNumber
  <2>3. m \in 1..n /\ p[m] # r[m] /\ p[m] \in Waiting(s) /\ r[m] \in Waiting(s)
    OBVIOUS
  <2>4. \A i \in 1..n : i < m => p[i] = r[i]
    BY <2>2
  <2>5. PICK k \in 1..n : r[k] = p[m]
    BY <2>3 DEF Listed
  <2>6. PICK l \in 1..n : p[l] = r[m]
    BY <2>3 DEF Listed
  <2>7. m < k
    <3>1. k < m => p[k] \in Predecessors(p[m]) /\ p[k] = p[m]
      BY <2>3, <2>4, <2>5 DEF Listed
    <3>2. ~(k < m)
      BY <3>1, <2>3, <1>1
    <3>3. k # m
      BY <2>3, <2>5
    <3> QED
      BY <3>2, <3>3, <2>3
  <2>8. m < l
    <3>1. l < m => r[l] \in Predecessors(r[m]) /\ r[l] = r[m]
      BY <2>3, <2>4, <2>6 DEF Listed
    <3>2. ~(l < m)
      BY <3>1, <2>3, <1>1
    <3>3. l # m
      BY <2>3, <2>6
    <3> QED
      BY <3>2, <3>3, <2>3
  <2>9. r[m] \in Predecessors(p[m])
    BY <2>3, <2>5, <2>7 DEF Listed
  <2>10. p[m] \in Predecessors(r[m])
    BY <2>3, <2>6, <2>8 DEF Listed
  <2> QED
    BY <2>3, <2>9, <2>10, <1>1
<1>3. \A i \in 1..n : p[i] = r[i]
  BY <1>2
<1> QED
  BY <1>3

\* The queue of the refinement mapping is the list of the waiting calls.
LEMMA QueueIsOrdered ==
  ASSUME LockTypeOK, NEW q, Chain(q), Complete(q), NEW w, Ordered(q, w)
  PROVE  LockQueue = w
<1>1. ASSUME NEW s \in Sessions PROVE LockQueue[s] = w[s]
  <2> DEFINE n == Cardinality(Waiting(s))
  <2>1. n \in Nat /\ w[s] \in [1..n -> Waiting(s)] /\ Listed(s, w[s])
    BY OrderedIsListed
  <2>3. \A p \in [1..n -> Waiting(s)] : Listed(s, p) => p = w[s]
    BY <2>1, ListedOnce
  <2>4. LockQueue[s] = CHOOSE p \in [1..n -> Waiting(s)] : Listed(s, p)
    BY DEF LockQueue
  <2> HIDE DEF n
  <2> QED
    BY <2>1, <2>3, <2>4
<1>2. w \in [Sessions -> Seq(Requests)]
  BY DEF Ordered
<1>3. LockQueue = [s \in Sessions |-> LockQueue[s]]
  BY DEF LockQueue
<1> QED
  BY <1>1, <1>2, <1>3

QueueDetermined ==
  \A q, w : LockTypeOK /\ Chain(q) /\ Complete(q) /\ Ordered(q, w) => LockQueue = w

LEMMA AlwaysDetermined == QueueDetermined
BY QueueIsOrdered DEF QueueDetermined

\* A chain and the list of the calls that wait in it.
Lists(q, w) == Chain(q) /\ Complete(q) /\ Ordered(q, w)

RInv ==
  /\ LockTypeOK
  /\ AheadSettled
  /\ \E q, w : Lists(q, w)

\* A new call joins at the end of its queue.
LEMMA OrderedGrows ==
  ASSUME LockTypeOK, NEW q, Chain(q), Complete(q), NEW w, Ordered(q, w),
         NEW a \in Requests, NEW s \in Sessions, WithLock(a, s),
         NEW r, r = [q EXCEPT ![s] = Append(q[s], a)],
         NEW v, v = [w EXCEPT ![s] = Append(w[s], a)]
  PROVE  Ordered(r, v)'
<1>1. /\ \A t \in Sessions : q[t] \in Seq(Requests) /\ Len(q[t]) \in Nat
      /\ \A t \in Sessions : w[t] \in Seq(Requests) /\ Len(w[t]) \in Nat
  BY DEF Chain, Ordered
<1>2. \A t \in Sessions :
        /\ \A i \in 1..Len(w[t]) : w[t][i] \in Requests \ {a}
        /\ \A i \in 1..Len(q[t]) : q[t][i] \in Requests \ {a}
  BY <1>1 DEF Ordered, Chain, WithLock
<1>3. /\ v \in [Sessions -> Seq(Requests)]
      /\ \A t \in Sessions \ {s} : v[t] = w[t] /\ r[t] = q[t]
      /\ Len(v[s]) = Len(w[s]) + 1 /\ Len(r[s]) = Len(q[s]) + 1
      /\ v[s][Len(w[s]) + 1] = a /\ r[s][Len(q[s]) + 1] = a
      /\ \A i \in 1..Len(w[s]) : v[s][i] = w[s][i]
      /\ \A i \in 1..Len(q[s]) : r[s][i] = q[s][i]
  BY <1>1 DEF Chain, Ordered
<1>4. /\ \A b \in Requests \ {a} : stage'[b] = stage[b] /\ session'[b] = session[b]
      /\ stage'[a] = "waiting" /\ session'[a] = s
  BY DEF LockTypeOK, WithLock
<1>5. ASSUME NEW t \in Sessions, NEW i \in 1..Len(v[t])
      PROVE  stage'[v[t][i]] = "waiting" /\ session'[v[t][i]] = t
  <2>1. CASE t # s
    BY <2>1, <1>2, <1>3, <1>4 DEF Ordered
  <2>2. CASE t = s /\ i \in 1..Len(w[s])
    <3>1. v[s][i] = w[s][i] /\ w[s][i] \in Requests \ {a}
      BY <2>2, <1>2, <1>3
    <3>2. stage[w[s][i]] = "waiting" /\ session[w[s][i]] = s
      BY <2>2 DEF Ordered
    <3> QED
      BY <2>2, <3>1, <3>2, <1>4
  <2>3. CASE t = s /\ i = Len(w[s]) + 1
    BY <2>3, <1>3, <1>4
  <2> QED
    BY <2>1, <2>2, <2>3, <1>1, <1>3
<1>6. ASSUME NEW b \in Requests, stage'[b] = "waiting"
      PROVE  \E i \in 1..Len(v[session'[b]]) : v[session'[b]][i] = b
  <2>1. CASE b = a
    BY <2>1, <1>1, <1>3, <1>4
  <2>2. CASE b # a
    <3>1. session'[b] = session[b] /\ session[b] \in Sessions /\ stage[b] = "waiting"
      BY <2>2, <1>4, <1>6 DEF LockTypeOK
    <3>2. PICK i \in 1..Len(w[session[b]]) : w[session[b]][i] = b
      BY <3>1 DEF Ordered
    <3>3. i \in 1..Len(v[session[b]]) /\ v[session[b]][i] = b
      BY <3>1, <3>2, <1>1, <1>3
    <3> QED
      BY <3>1, <3>3
  <2> QED
    BY <2>1, <2>2
<1>7. ASSUME NEW t \in Sessions, NEW i \in 1..Len(v[t]), NEW j \in 1..Len(v[t]),
             NEW k \in 1..Len(r[t]), NEW l \in 1..Len(r[t]),
             i < j, r[t][k] = v[t][i], r[t][l] = v[t][j]
      PROVE  k < l
  <2>1. CASE t # s
    BY <2>1, <1>3, <1>7 DEF Ordered
  <2>2. CASE t = s
    <3>1. i \in 1..Len(w[s]) /\ v[s][i] = w[s][i] /\ w[s][i] \in Requests \ {a}
      BY <2>2, <1>1, <1>2, <1>3, <1>7
    <3>2. k \in 1..Len(q[s]) /\ r[s][k] = q[s][k]
      BY <3>1, <2>2, <1>1, <1>3, <1>7
    <3>3. CASE j \in 1..Len(w[s])
      <4>1. v[s][j] = w[s][j] /\ w[s][j] \in Requests \ {a}
        BY <3>3, <1>2, <1>3
      <4>2. l \in 1..Len(q[s]) /\ r[s][l] = q[s][l]
        BY <4>1, <2>2, <1>1, <1>3, <1>7
      <4> QED
        BY <2>2, <3>1, <3>2, <3>3, <4>1, <4>2, <1>7 DEF Ordered
    <3>4. CASE j = Len(w[s]) + 1
      <4>1. v[s][j] = a
        BY <3>4, <1>3
      <4>2. l = Len(q[s]) + 1
        BY <4>1, <2>2, <1>1, <1>2, <1>3, <1>7
      <4> QED
        BY <3>2, <4>2, <1>1
    <3> QED
      BY <2>2, <3>3, <3>4, <1>1, <1>3
  <2> QED
    BY <2>1, <2>2
<1>8. \A t \in Sessions : \A i \in 1..Len(v[t]) :
        stage'[v[t][i]] = "waiting" /\ session'[v[t][i]] = t
  BY <1>5
<1>9. \A b \in Requests : stage'[b] = "waiting" =>
        \E i \in 1..Len(v[session'[b]]) : v[session'[b]][i] = b
  BY <1>6
<1>10. \A t \in Sessions : \A i, j \in 1..Len(v[t]) : \A k, l \in 1..Len(r[t]) :
         i < j /\ r[t][k] = v[t][i] /\ r[t][l] = v[t][j] => k < l
  BY <1>7
<1> QED
  BY <1>3, <1>8, <1>9, <1>10 DEF Ordered

\* A call that is served or gives up leaves its queue.
LEMMA OrderedLoses ==
  ASSUME LockTypeOK, NEW q, Chain(q), Complete(q), NEW w, Ordered(q, w), NEW s \in Sessions,
         NEW p \in 1..Len(w[s]), NEW st \in Stages \ {"waiting"},
         stage' = [stage EXCEPT ![w[s][p]] = st], UNCHANGED session,
         NEW v, v = [w EXCEPT ![s] = Fifo!Without(w[s], p)]
  PROVE  Ordered(q, v)'
<1>1. \A t \in Sessions : w[t] \in Seq(Requests) /\ Len(w[t]) \in Nat
  BY DEF Ordered
<1>2. \A t \in Sessions : \A i \in 1..Len(w[t]) : w[t][i] \in Requests
  BY <1>1
<1>3. /\ v[s] \in Seq(Requests)
      /\ Len(v[s]) = Len(w[s]) - 1
      /\ \A i \in 1..(Len(w[s]) - 1) : v[s][i] = w[s][IF i < p THEN i ELSE i + 1]
  <2>1. v[s] = [i \in 1..(Len(w[s]) - 1) |-> IF i < p THEN w[s][i] ELSE w[s][i + 1]]
    BY DEF Ordered, Fifo!Without
  <2>2. Len(w[s]) - 1 \in Nat
    BY <1>1
  <2>3. \A i \in 1..(Len(w[s]) - 1) : i \in 1..Len(w[s]) /\ i + 1 \in 1..Len(w[s])
    BY <1>1
  <2>4. \A i \in 1..(Len(w[s]) - 1) : (IF i < p THEN w[s][i] ELSE w[s][i + 1]) \in Requests
    BY <1>2, <2>3
  <2>5. v[s] \in [1..(Len(w[s]) - 1) -> Requests]
    BY <2>1, <2>4
  <2> QED
    BY <2>1, <2>2, <2>5
<1>4. /\ v \in [Sessions -> Seq(Requests)]
      /\ \A t \in Sessions \ {s} : v[t] = w[t]
  BY <1>3 DEF Ordered
<1>5. \A t \in Sessions : \A i, j \in 1..Len(w[t]) : w[t][i] = w[t][j] => i = j
  <2> SUFFICES ASSUME NEW t \in Sessions, NEW i \in 1..Len(w[t]), NEW j \in 1..Len(w[t]),
                      i < j, w[t][i] = w[t][j]
               PROVE  FALSE
    BY <1>1
  <2>1. w[t][i] \in Waiting(t)
    BY <1>2 DEF Ordered, Waiting, Unsettled
  <2>2. PICK k \in 1..Len(q[t]) : q[t][k] = w[t][i]
    BY <2>1, PlaceOfWaiting
  <2>3. k < k
    BY <2>2 DEF Ordered
  <2>4. k \in Int
    BY DEF Chain
  <2> QED
    BY <2>3, <2>4
<1> DEFINE at(i) == IF i < p THEN i ELSE i + 1
<1>6. \A i \in 1..Len(v[s]) : /\ at(i) \in 1..Len(w[s]) \ {p}
                              /\ v[s][i] = w[s][at(i)]
                              /\ v[s][i] # w[s][p]
  <2> SUFFICES ASSUME NEW i \in 1..Len(v[s])
               PROVE  /\ at(i) \in 1..Len(w[s]) \ {p}
                      /\ v[s][i] = w[s][at(i)]
                      /\ v[s][i] # w[s][p]
    OBVIOUS
  <2>1. at(i) \in 1..Len(w[s]) \ {p} /\ v[s][i] = w[s][at(i)]
    BY <1>1, <1>3
  <2> QED
    BY <2>1, <1>5
<1>7. \A i, j \in 1..Len(v[s]) : i < j => at(i) < at(j)
  BY <1>1, <1>3
<1>8. \A i \in 1..Len(w[s]) : i # p => \E j \in 1..Len(v[s]) : at(j) = i
  <2> SUFFICES ASSUME NEW i \in 1..Len(w[s]), i # p PROVE \E j \in 1..Len(v[s]) : at(j) = i
    OBVIOUS
  <2>1. CASE i < p
    <3>1. i \in 1..Len(v[s]) /\ at(i) = i
      BY <2>1, <1>1, <1>3
    <3> QED
      BY <3>1
  <2>2. CASE p < i
    <3>1. i - 1 \in 1..Len(v[s]) /\ at(i - 1) = i
      BY <2>2, <1>1, <1>3
    <3> QED
      BY <3>1
  <2> QED
    BY <2>1, <2>2, <1>1
<1> HIDE DEF at
<1>9. /\ w[s][p] \in Requests /\ session[w[s][p]] = s
      /\ \A b \in Requests \ {w[s][p]} : stage'[b] = stage[b]
      /\ stage'[w[s][p]] # "waiting"
      /\ session' = session
  BY <1>2 DEF LockTypeOK, Ordered
<1>10. \A t \in Sessions : \A i \in 1..Len(v[t]) :
         stage'[v[t][i]] = "waiting" /\ session'[v[t][i]] = t
  <2> SUFFICES ASSUME NEW t \in Sessions, NEW i \in 1..Len(v[t])
               PROVE  stage'[v[t][i]] = "waiting" /\ session'[v[t][i]] = t
    OBVIOUS
  <2>1. CASE t = s
    <3>1. /\ at(i) \in 1..Len(w[s]) /\ v[s][i] = w[s][at(i)] /\ v[s][i] # w[s][p]
      BY <2>1, <1>6
    <3>2. stage[w[s][at(i)]] = "waiting" /\ session[w[s][at(i)]] = s
      BY <3>1 DEF Ordered
    <3> QED
      BY <2>1, <3>1, <3>2, <1>2, <1>9
  <2>2. CASE t # s
    <3>1. v[t] = w[t] /\ w[t][i] \in Requests
      BY <2>2, <1>2, <1>4
    <3>2. stage[w[t][i]] = "waiting" /\ session[w[t][i]] = t
      BY <3>1 DEF Ordered
    <3> QED
      BY <2>2, <3>1, <3>2, <1>9
  <2> QED
    BY <2>1, <2>2
<1>11. \A b \in Requests : stage'[b] = "waiting" =>
         \E i \in 1..Len(v[session'[b]]) : v[session'[b]][i] = b
  <2> SUFFICES ASSUME NEW b \in Requests, stage'[b] = "waiting"
               PROVE  \E i \in 1..Len(v[session[b]]) : v[session[b]][i] = b
    BY <1>9
  <2>1. b # w[s][p] /\ stage[b] = "waiting" /\ session[b] \in Sessions
    BY <1>9 DEF LockTypeOK
  <2>2. PICK i \in 1..Len(w[session[b]]) : w[session[b]][i] = b
    BY <2>1 DEF Ordered
  <2>3. CASE session[b] = s
    <3>1. PICK j \in 1..Len(v[s]) : at(j) = i
      BY <2>1, <2>2, <2>3, <1>8
    <3>2. v[s][j] = b
      BY <2>2, <2>3, <3>1, <1>6
    <3> QED
      BY <2>3, <3>2
  <2>4. CASE session[b] # s
    BY <2>1, <2>2, <2>4, <1>4
  <2> QED
    BY <2>3, <2>4
<1>12. \A t \in Sessions : \A i, j \in 1..Len(v[t]) : \A k, l \in 1..Len(q[t]) :
         i < j /\ q[t][k] = v[t][i] /\ q[t][l] = v[t][j] => k < l
  <2> SUFFICES ASSUME NEW t \in Sessions, NEW i \in 1..Len(v[t]), NEW j \in 1..Len(v[t]),
                      NEW k \in 1..Len(q[t]), NEW l \in 1..Len(q[t]),
                      i < j, q[t][k] = v[t][i], q[t][l] = v[t][j]
               PROVE  k < l
    OBVIOUS
  <2>1. CASE t = s
    <3>1. /\ at(i) \in 1..Len(w[s]) /\ at(j) \in 1..Len(w[s]) /\ at(i) < at(j)
          /\ q[s][k] = w[s][at(i)] /\ q[s][l] = w[s][at(j)]
      BY <2>1, <1>6, <1>7
    <3> QED
      BY <2>1, <3>1 DEF Ordered
  <2>2. CASE t # s
    BY <2>2, <1>4 DEF Ordered
  <2> QED
    BY <2>1, <2>2
<1> QED
  BY <1>4, <1>10, <1>11, <1>12 DEF Ordered

\* Settling takes a call that does not wait off the chain.
LEMMA OrderedSettles ==
  ASSUME LockTypeOK, NEW q, Chain(q), Complete(q), NEW w, Ordered(q, w),
         NEW a \in Requests, Settle(a), NEW s \in Sessions, s = session[a],
         NEW r, r = [q EXCEPT ![s] = Tail(q[s])]
  PROVE  Ordered(r, w)'
<1>1. \A b \in Requests : stage'[b] = "waiting" <=> stage[b] = "waiting"
  BY DEF LockTypeOK, Settle, Settles, Over
<1>2. \A b \in Requests : stage[b] = "waiting" => session'[b] = session[b]
  BY DEF LockTypeOK, Settle, Settles, Over
<1>3. \A t \in Sessions : \A i \in 1..Len(w[t]) :
        w[t][i] \in Requests /\ stage[w[t][i]] = "waiting" /\ session[w[t][i]] = t
  BY DEF Ordered
<1>4. \A t \in Sessions : \A i \in 1..Len(w[t]) :
        stage'[w[t][i]] = "waiting" /\ session'[w[t][i]] = t
  BY <1>1, <1>2, <1>3
<1>5. \A b \in Requests : stage'[b] = "waiting" =>
        \E i \in 1..Len(w[session'[b]]) : w[session'[b]][i] = b
  BY <1>1, <1>2 DEF Ordered
<1>6. q[s] \in Seq(Requests) /\ q[s] # <<>>
  <2>1. Len(q[s]) \in Nat \ {0}
    BY HeadOfChain DEF Settle, Settles, Over
  <2> QED
    BY <2>1 DEF Chain
<1>7. /\ \A t \in Sessions \ {s} : r[t] = q[t]
      /\ \A k \in 1..Len(r[s]) : k + 1 \in 1..Len(q[s]) /\ r[s][k] = q[s][k + 1]
      /\ Len(r[s]) \in Nat
  BY <1>6 DEF Chain
<1>8. ASSUME NEW t \in Sessions, NEW i \in 1..Len(w[t]), NEW j \in 1..Len(w[t]),
             NEW k \in 1..Len(r[t]), NEW l \in 1..Len(r[t]),
             i < j, r[t][k] = w[t][i], r[t][l] = w[t][j]
      PROVE  k < l
  <2>1. CASE t # s
    BY <2>1, <1>7, <1>8 DEF Ordered
  <2>2. CASE t = s
    <3>1. /\ k + 1 \in 1..Len(q[s]) /\ l + 1 \in 1..Len(q[s])
          /\ q[s][k + 1] = w[s][i] /\ q[s][l + 1] = w[s][j]
      BY <2>2, <1>7, <1>8
    <3>2. k + 1 < l + 1
      BY <2>2, <3>1, <1>8 DEF Ordered
    <3> QED
      BY <2>2, <3>2, <1>7
  <2> QED
    BY <2>1, <2>2
<1>9. \A t \in Sessions : \A i, j \in 1..Len(w[t]) : \A k, l \in 1..Len(r[t]) :
         i < j /\ r[t][k] = w[t][i] /\ r[t][l] = w[t][j] => k < l
  BY <1>8
<1>10. w \in [Sessions -> Seq(Requests)]
  BY DEF Ordered
<1> QED
  BY <1>4, <1>5, <1>9, <1>10 DEF Ordered

\* The step of FifoLock that a step of the chain is.
Moves == [Fifo!Next]_<<LockQueue, LockHolders>>

LEMMA WithLockAsks ==
  ASSUME RInv, QueueDetermined', LockTypeOK', AheadSettled',
         NEW a \in Requests, NEW s \in Sessions, WithLock(a, s)
  PROVE  Moves /\ RInv'
<1>1. PICK q, w : Chain(q) /\ Complete(q) /\ Ordered(q, w)
  BY DEF RInv, Lists
<1>2. LockTypeOK
  BY DEF RInv
<1>3. LockQueue = w
  BY <1>1, <1>2, QueueIsOrdered
<1>4. PICK r : r = [q EXCEPT ![s] = Append(q[s], a)]
  OBVIOUS
<1>5. PICK v : v = [w EXCEPT ![s] = Append(w[s], a)]
  OBVIOUS
<1>6. Chain(r)' /\ Complete(r)'
  BY <1>1, <1>2, <1>4, ChainGrows
<1>7. Ordered(r, v)'
  BY <1>1, <1>2, <1>4, <1>5, OrderedGrows
<1>8. LockQueue' = v
  BY <1>6, <1>7 DEF QueueDetermined
<1>9. LockHolders' = LockHolders
  <2>1. \A b \in Requests : stage'[b] = "running" <=> stage[b] = "running"
    BY <1>2 DEF LockTypeOK, WithLock
  <2>2. \A b \in Requests : stage[b] = "running" => session'[b] = session[b]
    BY <1>2 DEF LockTypeOK, WithLock
  <2>3. \A t \in Sessions : {b \in Unsettled(t) : stage[b] = "running"}'
                              = {b \in Unsettled(t) : stage[b] = "running"}
    BY <2>1, <2>2 DEF Unsettled
  <2> QED
    BY <2>3 DEF LockHolders
<1>10. Fifo!Ask(a, s)
  <2>1. \A l \in Sessions : a \notin LockHolders[l]
    BY DEF LockHolders, Unsettled, WithLock
  <2>2. \A l \in Sessions : \A i \in DOMAIN w[l] : w[l][i] # a
    <3>1. \A l \in Sessions : DOMAIN w[l] = 1..Len(w[l])
      BY <1>1 DEF Ordered
    <3>2. \A l \in Sessions : \A i \in 1..Len(w[l]) : stage[w[l][i]] = "waiting"
      BY <1>1 DEF Ordered
    <3>3. stage[a] = "idle"
      BY DEF WithLock
    <3> QED
      BY <3>1, <3>2, <3>3
  <2> QED
    BY <2>1, <2>2, <1>3, <1>5, <1>8, <1>9 DEF Fifo!Ask
<1>11. Moves
  BY <1>10 DEF Moves, Fifo!Next
<1>12. RInv'
  BY <1>6, <1>7 DEF RInv, Lists
<1> QED
  BY <1>11, <1>12

\* A step that takes a waiting call out of its queue.
LEMMA Unqueued ==
  ASSUME RInv, QueueDetermined', LockTypeOK', AheadSettled', NEW a \in Requests, stage[a] = "waiting",
         NEW st \in Stages \ {"idle", "waiting"},
         stage' = [stage EXCEPT ![a] = st],
         UNCHANGED <<locks, session, previous>>
  PROVE  /\ RInv'
         /\ \E q, w : \E p \in 1..Len(w[session[a]]) :
              /\ Chain(q) /\ Complete(q) /\ Ordered(q, w)
              /\ w[session[a]][p] = a
              /\ LockQueue = w
              /\ LockQueue' = [w EXCEPT ![session[a]] = Fifo!Without(@, p)]
<1>1. PICK q, w : Chain(q) /\ Complete(q) /\ Ordered(q, w)
  BY DEF RInv, Lists
<1>2. LockTypeOK /\ session[a] \in Sessions
  BY DEF RInv, LockTypeOK
<1>3. LockQueue = w
  BY <1>1, <1>2, QueueIsOrdered
<1>4. PICK p \in 1..Len(w[session[a]]) : w[session[a]][p] = a
  BY <1>1 DEF Ordered
<1>5. PICK v : v = [w EXCEPT ![session[a]] = Fifo!Without(w[session[a]], p)]
  OBVIOUS
<1>6. Chain(q)' /\ Complete(q)'
  BY <1>1, <1>2, ChainKept
<1>7. Ordered(q, v)'
  BY <1>1, <1>2, <1>4, <1>5, OrderedLoses
<1>8. LockQueue' = v
  BY <1>6, <1>7 DEF QueueDetermined
<1>9. RInv'
  BY <1>6, <1>7 DEF RInv, Lists
<1> QED
  BY <1>1, <1>3, <1>4, <1>5, <1>8, <1>9

\* A call whose predecessor has settled is the only one of its session that is
\* not waiting for a predecessor.
LEMMA HeadIsAlone ==
  ASSUME LockTypeOK, AheadSettled, NEW q, Chain(q), Complete(q), NEW a \in Requests,
         stage[a] # "idle", previous[a] = NoRequest, NEW b \in Requests, stage[b] = "running",
         session[b] = session[a]
  PROVE  b = a
<1>1. previous[b] = NoRequest /\ stage[b] # "idle"
  BY DEF AheadSettled
<1> QED
  BY <1>1, HeadOfChain

LEMMA EnterGrants ==
  ASSUME RInv, QueueDetermined', LockTypeOK', AheadSettled', NEW a \in Requests, Enter(a)
  PROVE  Moves /\ RInv'
<1>0. PICK s \in Sessions : s = session[a]
  BY DEF RInv, LockTypeOK, Enter
<1>1. /\ stage[a] = "waiting" /\ previous[a] = NoRequest
      /\ stage' = [stage EXCEPT ![a] = "running"]
      /\ UNCHANGED <<locks, session, previous>>
      /\ "running" \in Stages \ {"idle", "waiting"}
  BY DEF Enter, Stages
<1>2. /\ RInv'
      /\ \E q, w : \E p \in 1..Len(w[s]) :
           /\ Chain(q) /\ Complete(q) /\ Ordered(q, w)
           /\ w[s][p] = a
           /\ LockQueue = w
           /\ LockQueue' = [w EXCEPT ![s] = Fifo!Without(@, p)]
  <2>1. /\ RInv'
        /\ \E q, w : \E p \in 1..Len(w[session[a]]) :
             /\ Chain(q) /\ Complete(q) /\ Ordered(q, w)
             /\ w[session[a]][p] = a
             /\ LockQueue = w
             /\ LockQueue' = [w EXCEPT ![session[a]] = Fifo!Without(@, p)]
    BY <1>1, Unqueued
  <2> QED
    BY <1>0, <2>1
<1>3. PICK q, w, p : /\ p \in 1..Len(w[s])
                     /\ Chain(q) /\ Complete(q) /\ Ordered(q, w)
                     /\ w[s][p] = a
                     /\ LockQueue = w
                     /\ LockQueue' = [w EXCEPT ![s] = Fifo!Without(@, p)]
  BY <1>2
<1>4. LockTypeOK /\ AheadSettled /\ s \in Sessions /\ s = session[a]
  BY <1>0 DEF RInv
<1>5. w[s] \in Seq(Requests) /\ Len(w[s]) \in Nat
  BY <1>3, <1>4 DEF Ordered
<1>6. p = 1
  <2> SUFFICES ASSUME p # 1 PROVE FALSE
    OBVIOUS
  <2>1. 1 \in 1..Len(w[s]) /\ 1 < p
    BY <1>3, <1>5
  <2>2. w[s][1] \in Waiting(s)
    BY <1>3, <1>4, <1>5, <2>1 DEF Ordered, Waiting, Unsettled
  <2>3. PICK k \in 1..Len(q[s]) : q[s][k] = w[s][1]
    BY <1>3, <1>4, <2>2, PlaceOfWaiting
  <2>4. Len(q[s]) \in Nat \ {0} /\ q[s][1] = a
    BY <1>1, <1>3, <1>4, HeadOfChain
  <2>5. 1 \in 1..Len(q[s])
    BY <2>4
  <2>6. k < 1
    BY <1>3, <1>4, <2>1, <2>3, <2>4, <2>5 DEF Ordered
  <2> QED
    BY <2>4, <2>6
<1>7. w[s] # <<>> /\ Head(w[s]) = a
  BY <1>3, <1>5, <1>6
<1>8. Fifo!Without(w[s], 1) = Tail(w[s])
  <2>1. Tail(w[s]) = [i \in 1..(Len(w[s]) - 1) |-> w[s][i + 1]]
    BY <1>5, <1>7
  <2>2. \A i \in 1..(Len(w[s]) - 1) : ~(i < 1)
    BY <1>5
  <2> QED
    BY <2>1, <2>2 DEF Fifo!Without
<1>9. LockHolders[s] = {}
  <2> SUFFICES ASSUME NEW b \in Requests, stage[b] = "running", session[b] = s PROVE FALSE
    BY <1>4 DEF LockHolders, Unsettled
  <2>1. b = a
    BY <1>1, <1>3, <1>4, HeadIsAlone
  <2> QED
    BY <2>1, <1>1
<1>10. LockHolders' = [LockHolders EXCEPT ![s] = {a}]
  <2>1. \A b \in Requests : stage'[b] = "running" <=> b = a \/ stage[b] = "running"
    BY <1>1, <1>4 DEF LockTypeOK
  <2>2. session' = session
    BY <1>1
  <2>3. \A t \in Sessions \ {s} : {b \in Unsettled(t) : stage[b] = "running"}'
                                    = {b \in Unsettled(t) : stage[b] = "running"}
    BY <2>1, <2>2, <1>1, <1>4 DEF Unsettled
  <2>4. \A b \in Requests : ~(stage[b] = "running" /\ session[b] = s)
    BY <1>9, <1>4 DEF LockHolders, Unsettled
  <2>5. \A b \in Requests : stage'[b] = "running" /\ session'[b] = s <=> b = a
    BY <2>1, <2>2, <2>4, <1>4
  <2>6. {b \in Unsettled(s) : stage[b] = "running"}' = {a}
    BY <2>5, <2>2 DEF Unsettled
  <2>7. LockHolders' = [t \in Sessions |-> {b \in Unsettled(t) : stage[b] = "running"}']
    BY DEF LockHolders
  <2>8. \A t \in Sessions \ {s} : LockHolders'[t] = LockHolders[t]
    BY <2>3, <2>7 DEF LockHolders
  <2>9. LockHolders'[s] = {a}
    BY <2>6, <2>7, <1>4
  <2>10. DOMAIN LockHolders = Sessions /\ LockHolders = [t \in Sessions |-> LockHolders[t]]
    BY DEF LockHolders
  <2> QED
    BY <2>7, <2>8, <2>9, <2>10, <1>4
<1>11. Fifo!Grant(s)
  BY <1>3, <1>6, <1>7, <1>8, <1>9, <1>10 DEF Fifo!Grant
<1>12. Moves
  BY <1>11, <1>4 DEF Moves, Fifo!Next
<1> QED
  BY <1>2, <1>12

LEMMA TimeoutGivesUp ==
  ASSUME RInv, QueueDetermined', LockTypeOK', AheadSettled', NEW a \in Requests, Timeout(a)
  PROVE  Moves /\ RInv'
<1> DEFINE s == session[a]
<1>1. /\ stage[a] = "waiting"
      /\ stage' = [stage EXCEPT ![a] = "abandoned"]
      /\ UNCHANGED <<locks, session, previous>>
      /\ "abandoned" \in Stages \ {"idle", "waiting"}
  BY DEF Timeout, Stages
<1>2. /\ RInv'
      /\ \E q, w : \E p \in 1..Len(w[s]) :
           /\ Chain(q) /\ Complete(q) /\ Ordered(q, w)
           /\ w[s][p] = a
           /\ LockQueue = w
           /\ LockQueue' = [w EXCEPT ![s] = Fifo!Without(@, p)]
  BY <1>1, Unqueued
<1>3. PICK q, w, p : /\ p \in 1..Len(w[s])
                     /\ Chain(q) /\ Complete(q) /\ Ordered(q, w)
                     /\ w[s][p] = a
                     /\ LockQueue = w
                     /\ LockQueue' = [w EXCEPT ![s] = Fifo!Without(@, p)]
  BY <1>2
<1>4. LockTypeOK /\ s \in Sessions
  BY <1>1 DEF RInv, LockTypeOK
<1>5. DOMAIN w[s] = 1..Len(w[s])
  BY <1>3, <1>4 DEF Ordered
<1>6. LockHolders' = LockHolders
  <2>1. \A b \in Requests : stage'[b] = "running" <=> stage[b] = "running"
    BY <1>1, <1>4 DEF LockTypeOK
  <2>2. \A t \in Sessions : {b \in Unsettled(t) : stage[b] = "running"}'
                              = {b \in Unsettled(t) : stage[b] = "running"}
    BY <2>1, <1>1 DEF Unsettled
  <2> QED
    BY <2>2 DEF LockHolders
<1>7. Fifo!GiveUp(s, p) /\ p \in DOMAIN LockQueue[s]
  BY <1>3, <1>5, <1>6 DEF Fifo!GiveUp
<1>8. Moves
  BY <1>4, <1>7 DEF Moves, Fifo!Next
<1> QED
  BY <1>2, <1>8

LEMMA ReleaseReturns ==
  ASSUME RInv, QueueDetermined', LockTypeOK', AheadSettled', NEW a \in Requests, Release(a)
  PROVE  Moves /\ RInv'
<1>0. PICK s \in Sessions : s = session[a]
  BY DEF RInv, LockTypeOK, Release
<1>1. PICK q, w : Chain(q) /\ Complete(q) /\ Ordered(q, w)
  BY DEF RInv, Lists
<1>2. LockTypeOK /\ AheadSettled /\ stage[a] = "running" /\ s \in Sessions /\ s = session[a]
  BY <1>0 DEF RInv, Release
<1>3. LockQueue = w
  BY <1>1, <1>2, QueueIsOrdered
<1>4. Chain(q)' /\ Complete(q)'
  BY <1>1, <1>2, ChainKept DEF Release, Stages
<1>5. Ordered(q, w)'
  <2>1. \A b \in Requests : stage'[b] = "waiting" <=> stage[b] = "waiting"
    BY <1>2 DEF LockTypeOK, Release
  <2>2. \A t \in Sessions : \A i \in 1..Len(w[t]) : w[t][i] \in Requests
    BY <1>1 DEF Ordered
  <2>3. session' = session
    BY DEF Release
  <2> QED
    BY <2>1, <2>2, <2>3, <1>1 DEF Ordered
<1>6. LockQueue' = w
  BY <1>4, <1>5 DEF QueueDetermined
<1>7. LockHolders[s] # {}
  BY <1>2 DEF LockHolders, Unsettled
<1>8. LockHolders' = [LockHolders EXCEPT ![s] = {}]
  <2>1. \A b \in Requests : stage'[b] = "running" <=> b # a /\ stage[b] = "running"
    BY <1>2 DEF LockTypeOK, Release
  <2>2. session' = session
    BY DEF Release
  <2>3. \A t \in Sessions \ {s} : {b \in Unsettled(t) : stage[b] = "running"}'
                                    = {b \in Unsettled(t) : stage[b] = "running"}
    BY <2>1, <2>2, <1>2 DEF Unsettled
  <2>4. previous[a] = NoRequest
    BY <1>2 DEF AheadSettled
  <2>5. \A b \in Requests : stage[b] = "running" /\ session[b] = s => b = a
    BY <2>4, <1>1, <1>2, HeadIsAlone
  <2>6. {b \in Unsettled(s) : stage[b] = "running"}' = {}
    BY <2>1, <2>2, <2>5 DEF Unsettled
  <2>7. LockHolders' = [t \in Sessions |-> {b \in Unsettled(t) : stage[b] = "running"}']
    BY DEF LockHolders
  <2>8. \A t \in Sessions \ {s} : LockHolders'[t] = LockHolders[t]
    BY <2>3, <2>7 DEF LockHolders
  <2>9. LockHolders'[s] = {}
    BY <2>6, <2>7, <1>2
  <2>10. DOMAIN LockHolders = Sessions /\ LockHolders = [t \in Sessions |-> LockHolders[t]]
    BY DEF LockHolders
  <2> QED
    BY <2>7, <2>8, <2>9, <2>10, <1>2
<1>9. Fifo!Return(s)
  BY <1>3, <1>6, <1>7, <1>8 DEF Fifo!Return
<1>10. Moves
  BY <1>2, <1>9 DEF Moves, Fifo!Next
<1>11. RInv'
  BY <1>4, <1>5 DEF RInv, Lists
<1> QED
  BY <1>10, <1>11

LEMMA SettleStutters ==
  ASSUME RInv, QueueDetermined', LockTypeOK', AheadSettled', NEW a \in Requests, Settle(a)
  PROVE  Moves /\ RInv'
<1>1. PICK q, w : Chain(q) /\ Complete(q) /\ Ordered(q, w)
  BY DEF RInv, Lists
<1>2. LockTypeOK
  BY DEF RInv
<1>3. PICK s \in Sessions : s = session[a]
  BY <1>2 DEF LockTypeOK, Settle, Settles, Over
<1>4. PICK r : r = [q EXCEPT ![s] = Tail(q[s])]
  OBVIOUS
<1>5. Chain(r)' /\ Complete(r)'
  BY <1>1, <1>2, <1>3, <1>4, ChainShrinks
<1>6. Ordered(r, w)'
  BY <1>1, <1>2, <1>3, <1>4, OrderedSettles
<1>7. LockQueue = w /\ LockQueue' = w
  BY <1>1, <1>2, <1>5, <1>6, QueueIsOrdered DEF QueueDetermined
<1>8. LockHolders' = LockHolders
  <2>1. \A b \in Requests : /\ stage'[b] = "running" <=> stage[b] = "running"
                            /\ stage[b] = "running" => session'[b] = session[b]
    BY <1>2 DEF LockTypeOK, Settle, Settles, Over
  <2>2. \A t \in Sessions : {b \in Unsettled(t) : stage[b] = "running"}'
                              = {b \in Unsettled(t) : stage[b] = "running"}
    BY <2>1 DEF Unsettled
  <2> QED
    BY <2>2 DEF LockHolders
<1>9. Moves
  BY <1>7, <1>8 DEF Moves
<1>10. RInv'
  BY <1>5, <1>6 DEF RInv, Lists
<1> QED
  BY <1>9, <1>10

LEMMA InitRefines == LockInit => Fifo!Init /\ RInv
<1> SUFFICES ASSUME LockInit PROVE Fifo!Init /\ RInv
  OBVIOUS
<1>1. LockTypeOK /\ AheadSettled
  BY LockAssumption DEF LockInit, LockTypeOK, Stages, AheadSettled
<1> DEFINE q == [s \in Sessions |-> <<>>]
<1>2. Chain(q)
  BY DEF LockInit, Chain
<1>3. Complete(q)
  BY DEF LockInit, Complete
<1>4. Ordered(q, q)
  BY DEF LockInit, Ordered
<1>5. LockQueue = q
  <2> HIDE DEF q
  <2> QED
    BY <1>1, <1>2, <1>3, <1>4, QueueIsOrdered
<1>6. LockHolders = [s \in Sessions |-> {}]
  BY DEF LockInit, LockHolders, Unsettled
<1>7. Fifo!Init
  BY <1>5, <1>6 DEF Fifo!Init
<1> HIDE DEF q
<1> QED
  BY <1>1, <1>2, <1>3, <1>4, <1>7 DEF RInv, Lists

LEMMA StepRefines == RInv /\ QueueDetermined /\ QueueDetermined' /\ [LockNext]_lockVars => Moves /\ RInv'
<1> SUFFICES ASSUME RInv, QueueDetermined', [LockNext]_lockVars PROVE Moves /\ RInv'
  OBVIOUS
<1>1. CASE UNCHANGED lockVars
  <2>1. LockQueue' = LockQueue
    BY <1>1 DEF lockVars, LockQueue, Listed, Predecessors, Waiting, Unsettled
  <2>2. LockHolders' = LockHolders
    BY <1>1 DEF lockVars, LockHolders, Unsettled
  <2>3. LockTypeOK' /\ AheadSettled'
    BY <1>1 DEF lockVars, RInv, LockTypeOK, AheadSettled
  <2>4. PICK q, w : Chain(q) /\ Complete(q) /\ Ordered(q, w)
    BY DEF RInv, Lists
  <2>5. Chain(q)' /\ Complete(q)'
    BY <1>1, <2>4 DEF lockVars, Chain, Complete
  <2>6. Ordered(q, w)'
    BY <1>1, <2>4 DEF lockVars, Ordered
  <2> QED
    BY <2>1, <2>2, <2>3, <2>5, <2>6 DEF Moves, RInv, Lists
<1>2. CASE LockNext
  <2>1. LockInv
    BY DEF RInv, LockInv, Lists
  <2>2. LockTypeOK' /\ AheadSettled'
    BY <2>1, <1>2, NextInv DEF LockInv
  <2> QED
    BY <1>2, <2>2, WithLockAsks, EnterGrants, TimeoutGivesUp, ReleaseReturns, SettleStutters DEF LockNext
<1> QED
  BY <1>1, <1>2

\* The promise chain implements the first-come-first-served lock whose waiters
\* may give up: for any sets of sessions and calls, sections are granted in the
\* order of the calls of withLock, and neither a timeout, nor the late release
\* of a call that timed out, nor the cleanup of a tail changes that order.
THEOREM ChainIsFifoLock == LockSpec => FifoSpec
<1>1. LockInit => Fifo!Init /\ RInv
  BY InitRefines
<1>2. QueueDetermined
  BY AlwaysDetermined
<1>3. RInv /\ QueueDetermined /\ QueueDetermined' /\ [LockNext]_lockVars
        => [Fifo!Next]_<<LockQueue, LockHolders>> /\ RInv'
  BY StepRefines DEF Moves
<1> QED
  BY <1>1, <1>2, <1>3, PTL DEF LockSpec, FifoSpec, Fifo!Spec

-----------------------------------------------------------------------------
(* The requests: the inductive invariant.                                  *)

\* What belongs to a request of each kind.
RequestsTyped ==
  /\ kind \in [Requests -> {"none", "call", "observe", "reset", "over"}]
  /\ presented \in [Requests -> Tokens \cup {NoToken}]
  /\ joined \in SUBSET Requests
  /\ waitsFor \in [Requests -> Requests \cup {NoRequest}]
  /\ resetting \in [Requests -> Sessions \cup {NoSession}]
  /\ phase \in [Sessions -> {"open", "resetting", "reset_failed", "expired"}]
  /\ tails \in [Tokens -> Requests \cup {NoRequest}]
  /\ \A r \in Requests : kind[r] = "reset" => resetting[r] \in Sessions
  /\ \A r \in Requests : kind[r] = "observe" => presented[r] \in Tokens

Entries == {"call", "answer"} \X Tokens

StoreTyped ==
  /\ history \in [Sessions -> Seq(Entries)]
  /\ byToken \in [Tokens -> Sessions \cup {NoSession}]
  /\ bySession \in [Sessions -> SUBSET Tokens]
  /\ issued \in SUBSET Tokens
  /\ lapsed \in SUBSET issued

\* The two indexes of the store are one relation.
IndexesAgree == \A t \in Tokens, s \in Sessions : t \in bySession[s] <=> byToken[t] = s

\* A token that is filed, called or answered was generated before.
TokensWereIssued ==
  /\ \A t \in Tokens : byToken[t] # NoSession => t \in issued
  /\ \A s \in Sessions : \A i \in 1..Len(history[s]) : history[s][i][2] \in issued

\* A chain answers its calls at most once, and after the call.
ChainMatches(h) ==
  \A i \in 1..Len(h) : h[i][1] = "answer" =>
    /\ \E j \in 1..(i - 1) : h[j] = <<"call", h[i][2]>>
    /\ \A j \in 1..(i - 1) : h[j] # <<"answer", h[i][2]>>

\* A chain holds the call of a token, and no answer to it.
Pending(h, t) ==
  /\ \E i \in 1..Len(h) : h[i] = <<"call", t>>
  /\ \A i \in 1..Len(h) : h[i] # <<"answer", t>>

Matches ==
  /\ \A s \in Sessions : ChainMatches(history[s])
  /\ \A t \in Tokens : byToken[t] # NoSession => Pending(history[byToken[t]], t)

Store == StoreTyped /\ IndexesAgree /\ TokensWereIssued /\ Matches

IInv == LockTypeOK /\ RequestsTyped /\ Store

-----------------------------------------------------------------------------
(* Requests.                                                                *)

LEMMA RequestsInit == Init => RequestsTyped
BY DEF Init, RequestsTyped

LEMMA RequestsStep ==
  ASSUME RequestsTyped, [Next]_vars
  PROVE  RequestsTyped'
<1> USE DEF RequestsTyped
<1>1. ASSUME UNCHANGED <<requestVars, phase, tails>>
      PROVE  RequestsTyped'
  BY <1>1 DEF requestVars
<1>2. ASSUME NEW r \in Requests, Ends(r),
             UNCHANGED <<joined, waitsFor, tails>>,
             resetting' = resetting \/ resetting' = [resetting EXCEPT ![r] = NoSession],
             phase' \in [Sessions -> {"open", "resetting", "reset_failed", "expired"}]
      PROVE  RequestsTyped'
  BY <1>2 DEF Ends
<1>3. ASSUME NEW r \in Requests, NEW s \in Sessions, NEW k \in {"call", "observe"},
             NEW t \in Tokens \cup {NoToken}, Begin(r, s, k, t)
      PROVE  RequestsTyped'
  BY <1>3, LockAssumption, TokensAssumption DEF Begin
<1>4. ASSUME NEW r \in Requests, NEW s \in Sessions, BeginReset(r, s)
      PROVE  RequestsTyped'
  BY <1>4 DEF BeginReset
<1>5. ASSUME NEW r \in Requests, LockTimeout(r)
      PROVE  RequestsTyped'
  BY <1>2, <1>5 DEF LockTimeout
<1>6. ASSUME NEW r \in Requests, SettlePlace(r)
      PROVE  RequestsTyped'
  BY <1>6 DEF SettlePlace
<1>7. ASSUME NEW r \in Requests, JoinToken(r)
      PROVE  RequestsTyped'
  BY <1>7 DEF JoinToken, Inside
<1>8. ASSUME NEW r \in Requests, Admit(r)
      PROVE  RequestsTyped'
  BY <1>8 DEF Admit, Inside, LeaveToken, TailsAfter, Ends
<1>9. ASSUME NEW r \in Requests,
             \/ CommitReset(r) \/ FailReset(r)
             \/ \E t \in Tokens : ReplaceBySuspension(r, t)
      PROVE  RequestsTyped'
  <2>1. \E p \in {"open", "reset_failed"} : ResetEnds(r, p)
    BY <1>9 DEF CommitReset, FailReset, ReplaceBySuspension
  <2>2. PICK p \in {"open", "reset_failed"} : ResetEnds(r, p)
    BY <2>1
  <2>3. phase' \in [Sessions -> {"open", "resetting", "reset_failed", "expired"}]
    BY <2>2 DEF ResetEnds
  <2>4. /\ Ends(r)
        /\ UNCHANGED <<joined, waitsFor, tails>>
        /\ resetting' = [resetting EXCEPT ![r] = NoSession]
    BY <2>2 DEF ResetEnds
  <2> QED
    BY <1>2, <2>3, <2>4
<1>10. ASSUME NEW r \in Requests, LeaveSection(r) \/ \E t \in Tokens : SuspendCall(r, t)
       PROVE  RequestsTyped'
  BY <1>2, <1>10 DEF LeaveSection, SuspendCall
<1>11. ASSUME NEW s \in Sessions, Evict(s)
       PROVE  RequestsTyped'
  BY <1>11 DEF Evict, requestVars
<1>12. ASSUME NEW r \in Requests, StartReset(r) \/ EnterSection(r)
       PROVE  RequestsTyped'
  BY <1>1, <1>12 DEF StartReset, EnterSection
<1>13. ASSUME \/ Sweep \/ UNCHANGED vars
              \/ \E t \in Tokens : Lapse(t)
       PROVE  RequestsTyped'
  BY <1>1, <1>13 DEF Sweep, Lapse, vars
<1> QED
  BY <1>3, <1>4, <1>5, <1>6, <1>7, <1>8, <1>9, <1>10, <1>11, <1>12, <1>13 DEF Next, Proceed

-----------------------------------------------------------------------------
(* The lock.                                                                *)

LEMMA LockStep ==
  ASSUME RequestsTyped, [Next]_vars
  PROVE  [LockNext]_lockVars
<1> USE DEF lockVars, LockNext
<1>1. CASE \E r \in Requests : \E s \in Sessions : BeginReset(r, s)
  BY <1>1 DEF BeginReset
<1>2. CASE \E r \in Requests : \E s \in Sessions :
             Begin(r, s, "call", NoToken) \/ \E t \in Tokens : Begin(r, s, "observe", t)
  BY <1>2 DEF Begin
<1>3. CASE \E r \in Requests : StartReset(r)
  BY <1>3 DEF StartReset, RequestsTyped
<1>4. CASE \E r \in Requests : EnterSection(r) \/ LockTimeout(r) \/ LeaveSection(r) \/ Admit(r)
  BY <1>4 DEF EnterSection, LockTimeout, LeaveSection, Admit
<1>5. CASE \E r \in Requests : \/ CommitReset(r) \/ FailReset(r)
                               \/ \E t \in Tokens : ReplaceBySuspension(r, t) \/ SuspendCall(r, t)
  BY <1>5 DEF CommitReset, FailReset, ReplaceBySuspension, SuspendCall, ResetEnds
<1>6. CASE \E r \in Requests : SettlePlace(r)
  BY <1>6 DEF SettlePlace
<1>7. CASE \E r \in Requests : JoinToken(r)
  BY <1>7 DEF JoinToken
<1>8. CASE (\E t \in Tokens : Lapse(t)) \/ Sweep \/ (\E s \in Sessions : Evict(s)) \/ UNCHANGED vars
  BY <1>8 DEF Lapse, Sweep, Evict, vars
<1> QED
  BY <1>1, <1>2, <1>3, <1>4, <1>5, <1>6, <1>7, <1>8 DEF Next, Proceed

\* The lock inside the requests is the session lock: whatever ThoughtProcessor does around
\* SessionLock.withLock - operations, resets, time-outs, observations that wait for a token -
\* it uses the lock as SessionLock specifies.
THEOREM UsesTheLock == Spec => LockSpec
<1>1. Init => LockInit
  BY DEF Init
<1>2. RequestsTyped /\ [Next]_vars => RequestsTyped'
  BY RequestsStep
<1>3. RequestsTyped /\ [Next]_vars => [LockNext]_lockVars
  BY LockStep
<1> QED
  BY <1>1, <1>2, <1>3, RequestsInit, PTL DEF Spec, LockSpec

\* Two requests of a session are never in their sections together, and they enter in the order in
\* which they asked, whoever gave up in between (SessionLock.withLock under ThoughtProcessor).
THEOREM RequestsTakeTurns == Spec => []MutualExclusion /\ FifoSpec
BY UsesTheLock, SectionsExclude, ChainIsFifoLock, PTL

LEMMA LockTyped == Spec => []LockTypeOK
BY UsesTheLock, LockTypeCorrect, PTL

-----------------------------------------------------------------------------
(* Chains.                                                                  *)

LEMMA AppendCall ==
  ASSUME NEW h \in Seq(Entries), ChainMatches(h), NEW t \in Tokens,
         \A i \in 1..Len(h) : h[i][2] # t
  PROVE  LET g == Append(h, <<"call", t>>) IN
         /\ ChainMatches(g)
         /\ Pending(g, t)
         /\ \A u \in Tokens : Pending(h, u) => Pending(g, u)
<1> DEFINE g == Append(h, <<"call", t>>)
<1>1. /\ Len(g) = Len(h) + 1
      /\ Len(h) \in Nat
      /\ \A i \in 1..Len(h) : g[i] = h[i]
      /\ g[Len(h) + 1] = <<"call", t>>
  BY DEF Entries
<1>2. \A i \in 1..Len(h) : h[i] \in Entries
  OBVIOUS
<1> HIDE DEF g
<1>3. ChainMatches(g)
  <2> SUFFICES ASSUME NEW i \in 1..Len(g), g[i][1] = "answer"
               PROVE  /\ \E j \in 1..(i - 1) : g[j] = <<"call", g[i][2]>>
                      /\ \A j \in 1..(i - 1) : g[j] # <<"answer", g[i][2]>>
    BY DEF ChainMatches
  <2>1. i \in 1..Len(h)
    BY <1>1
  <2>2. g[i] = h[i] /\ \A j \in 1..(i - 1) : j \in 1..Len(h) /\ g[j] = h[j]
    BY <1>1, <2>1
  <2>3. /\ \E j \in 1..(i - 1) : h[j] = <<"call", h[i][2]>>
        /\ \A j \in 1..(i - 1) : h[j] # <<"answer", h[i][2]>>
    BY <2>1, <2>2 DEF ChainMatches
  <2> QED
    BY <2>2, <2>3
<1>4. Pending(g, t)
  <2>1. \A i \in 1..Len(h) : h[i] # <<"answer", t>>
    OBVIOUS
  <2> QED
    BY <1>1, <2>1 DEF Pending
<1>5. ASSUME NEW u \in Tokens, Pending(h, u) PROVE Pending(g, u)
  BY <1>1, <1>5 DEF Pending
<1> QED
  BY <1>3, <1>4, <1>5 DEF g

LEMMA AppendAnswer ==
  ASSUME NEW h \in Seq(Entries), ChainMatches(h), NEW t \in Tokens, Pending(h, t)
  PROVE  LET g == Append(h, <<"answer", t>>) IN
         /\ ChainMatches(g)
         /\ \A u \in Tokens \ {t} : Pending(h, u) => Pending(g, u)
<1> DEFINE g == Append(h, <<"answer", t>>)
<1>1. /\ Len(g) = Len(h) + 1
      /\ Len(h) \in Nat
      /\ \A i \in 1..Len(h) : g[i] = h[i]
      /\ g[Len(h) + 1] = <<"answer", t>>
  BY DEF Entries
<1> HIDE DEF g
<1>2. ChainMatches(g)
  <2> SUFFICES ASSUME NEW i \in 1..Len(g), g[i][1] = "answer"
               PROVE  /\ \E j \in 1..(i - 1) : g[j] = <<"call", g[i][2]>>
                      /\ \A j \in 1..(i - 1) : g[j] # <<"answer", g[i][2]>>
    BY DEF ChainMatches
  <2>1. CASE i \in 1..Len(h)
    <3>1. g[i] = h[i] /\ \A j \in 1..(i - 1) : j \in 1..Len(h) /\ g[j] = h[j]
      BY <1>1, <2>1
    <3>2. /\ \E j \in 1..(i - 1) : h[j] = <<"call", h[i][2]>>
          /\ \A j \in 1..(i - 1) : h[j] # <<"answer", h[i][2]>>
      BY <2>1, <3>1 DEF ChainMatches
    <3> QED
      BY <3>1, <3>2
  <2>2. CASE i = Len(h) + 1
    <3>1. g[i][2] = t /\ i - 1 = Len(h)
      BY <1>1, <2>2
    <3> QED
      BY <1>1, <3>1 DEF Pending
  <2> QED
    BY <1>1, <2>1, <2>2
<1>3. ASSUME NEW u \in Tokens \ {t}, Pending(h, u) PROVE Pending(g, u)
  BY <1>1, <1>3 DEF Pending
<1> QED
  BY <1>2, <1>3 DEF g

-----------------------------------------------------------------------------
(* The store and the chains.                                                *)

LEMMA StoreInit == Init => Store
<1> SUFFICES ASSUME Init PROVE Store
  OBVIOUS
<1> USE DEF Init
<1>1. StoreTyped
  BY DEF StoreTyped
<1>2. IndexesAgree
  BY LockAssumption DEF IndexesAgree
<1>3. TokensWereIssued
  BY DEF TokensWereIssued
<1>4. Matches
  BY DEF Matches, ChainMatches
<1> QED
  BY <1>1, <1>2, <1>3, <1>4 DEF Store

LEMMA MatchesNext ==
  ASSUME NEW h, NEW b, history' = h, byToken' = b,
         \A s \in Sessions : ChainMatches(h[s]),
         \A t \in Tokens : b[t] # NoSession => Pending(h[b[t]], t)
  PROVE  Matches'
BY DEF Matches, ChainMatches, Pending

\* Records leave the store, and the chains stay: tokens lapse, or are swept.
LEMMA RecordsLeave ==
  ASSUME Store, NEW D \in SUBSET Tokens,
         UNCHANGED <<history, issued>>, lapsed' \in SUBSET issued,
         byToken' = [t \in Tokens |-> IF t \in D THEN NoSession ELSE byToken[t]],
         bySession' = [s \in Sessions |-> bySession[s] \ D]
  PROVE  Store'
<1>1. StoreTyped'
  BY DEF Store, StoreTyped
<1>2. IndexesAgree'
  BY LockAssumption DEF Store, StoreTyped, IndexesAgree
<1>3. TokensWereIssued'
  BY DEF Store, StoreTyped, TokensWereIssued
<1>4. Matches'
  <2> DEFINE h == history
             b == byToken'
  <2>1. \A s \in Sessions : ChainMatches(h[s])
    BY DEF Store, Matches
  <2>2. \A t \in Tokens : b[t] # NoSession => Pending(h[b[t]], t)
    BY DEF Store, Matches
  <2>3. history' = h /\ byToken' = b
    OBVIOUS
  <2> HIDE DEF h, b
  <2> QED
    BY <2>1, <2>2, <2>3, MatchesNext
<1> QED
  BY <1>1, <1>2, <1>3, <1>4 DEF Store

LEMMA RecordsStay ==
  ASSUME Store, UNCHANGED <<history, byToken, bySession, issued>>, lapsed' \in SUBSET issued
  PROVE  Store'
<1>1. byToken' = [t \in Tokens |-> IF t \in {} THEN NoSession ELSE byToken[t]]
  BY DEF Store, StoreTyped
<1>2. bySession' = [s \in Sessions |-> bySession[s] \ {}]
  BY DEF Store, StoreTyped
<1>3. {} \in SUBSET Tokens
  OBVIOUS
<1> QED
  BY <1>1, <1>2, <1>3, RecordsLeave

\* A session is cleared: its chain and the tokens that its calls issued go together.
LEMMA ChainLeaves ==
  ASSUME Store, NEW s \in Sessions,
         history' = [history EXCEPT ![s] = <<>>], SuspensionsCleared(s),
         UNCHANGED <<issued, lapsed>>
  PROVE  Store'
<1> USE DEF SuspensionsCleared
<1>0. /\ <<>> \in Seq(Entries)
      /\ Len(<<>>) = 0
  OBVIOUS
<1>1. StoreTyped'
  BY <1>0 DEF Store, StoreTyped
<1>2. IndexesAgree'
  BY LockAssumption DEF Store, StoreTyped, IndexesAgree
<1>3. TokensWereIssued'
  <2>1. \A t \in Tokens : byToken'[t] # NoSession => t \in issued'
    BY DEF Store, StoreTyped, TokensWereIssued
  <2>2. ASSUME NEW q \in Sessions, NEW i \in 1..Len(history'[q]) PROVE history'[q][i][2] \in issued'
    BY <1>0, <2>2 DEF Store, StoreTyped, TokensWereIssued
  <2> QED
    BY <2>1, <2>2 DEF TokensWereIssued
<1>4. Matches'
  <2> DEFINE h == history'
             b == byToken'
  <2>1. \A q \in Sessions : ChainMatches(h[q])
    <3>1. ChainMatches(<<>>)
      BY DEF ChainMatches
    <3> QED
      BY <3>1 DEF Store, StoreTyped, Matches
  <2>2. \A t \in Tokens : b[t] # NoSession => Pending(h[b[t]], t)
    <3>1. ASSUME NEW t \in Tokens, b[t] # NoSession
          PROVE  b[t] = byToken[t] /\ byToken[t] \in Sessions \ {s}
      BY <3>1 DEF Store, StoreTyped, IndexesAgree
    <3> QED
      BY <3>1 DEF Store, StoreTyped, Matches
  <2>3. history' = h /\ byToken' = b
    OBVIOUS
  <2> HIDE DEF h, b
  <2> QED
    BY <2>1, <2>2, <2>3, MatchesNext
<1> QED
  BY <1>1, <1>2, <1>3, <1>4 DEF Store

\* A call is suspended under a fresh token, after the chain or instead of it.
LEMMA CallSuspended ==
  ASSUME Store, NEW s \in Sessions, NEW t \in Tokens, t \notin issued,
         NEW base, NEW D,
         (base = history[s] /\ D = {}) \/ (base = <<>> /\ D = bySession[s]),
         history' = [history EXCEPT ![s] = Append(base, <<"call", t>>)],
         byToken' = [q \in Tokens |-> IF q = t THEN s
                                      ELSE IF q \in D THEN NoSession ELSE byToken[q]],
         bySession' = [bySession EXCEPT ![s] = (@ \ D) \cup {t}],
         issued' = issued \cup {t}, lapsed' = lapsed
  PROVE  Store'
<1> DEFINE g == Append(base, <<"call", t>>)
<1>1. base \in Seq(Entries)
  <2>1. history[s] \in Seq(Entries)
    BY DEF Store, StoreTyped
  <2>2. <<>> \in Seq(Entries)
    OBVIOUS
  <2> QED
    BY <2>1, <2>2
<1>2. /\ g \in Seq(Entries)
      /\ Len(g) = Len(base) + 1
      /\ Len(base) \in Nat
      /\ \A i \in 1..Len(base) : g[i] = base[i]
      /\ g[Len(base) + 1] = <<"call", t>>
  BY <1>1 DEF Entries
<1>3. ChainMatches(base)
  <2>1. ChainMatches(<<>>)
    BY DEF ChainMatches
  <2> QED
    BY <2>1 DEF Store, Matches
<1>4. \A i \in 1..Len(base) : base[i][2] \in issued
  BY DEF Store, TokensWereIssued
<1>5. ChainMatches(g) /\ Pending(g, t) /\ \A u \in Tokens : Pending(base, u) => Pending(g, u)
  <2>1. \A i \in 1..Len(base) : base[i][2] # t
    BY <1>4
  <2> QED
    BY <1>1, <1>3, <2>1, AppendCall
<1>6. history' = [history EXCEPT ![s] = g]
  OBVIOUS
<1> HIDE DEF g
<1>7. StoreTyped'
  BY <1>2, <1>6 DEF Store, StoreTyped
<1>8. IndexesAgree'
  <2>1. byToken[t] = NoSession /\ \A q \in Sessions : t \notin bySession[q]
    BY LockAssumption DEF Store, StoreTyped, IndexesAgree, TokensWereIssued
  <2>2. ASSUME NEW q \in Tokens, NEW z \in Sessions
        PROVE  q \in bySession'[z] <=> byToken'[q] = z
    <3>1. CASE q = t
      BY <2>1, <3>1 DEF Store, StoreTyped
    <3>2. CASE q # t /\ q \in D
      BY <3>2, LockAssumption DEF Store, StoreTyped, IndexesAgree
    <3>3. CASE q # t /\ q \notin D
      BY <3>3 DEF Store, StoreTyped, IndexesAgree
    <3> QED
      BY <3>1, <3>2, <3>3
  <2> QED
    BY <2>2 DEF IndexesAgree
<1>9. TokensWereIssued'
  <2>1. \A q \in Tokens : byToken'[q] # NoSession => q \in issued'
    BY DEF Store, StoreTyped, TokensWereIssued
  <2>2. ASSUME NEW q \in Sessions, NEW i \in 1..Len(history'[q]) PROVE history'[q][i][2] \in issued'
    <3>1. CASE q # s
      BY <1>6, <2>2, <3>1 DEF Store, StoreTyped, TokensWereIssued
    <3>2. CASE q = s
      <4>1. history'[q] = g
        BY <1>6, <3>2 DEF Store, StoreTyped
      <4>2. CASE i \in 1..Len(base)
        BY <1>2, <1>4, <4>1, <4>2
      <4>3. CASE i = Len(base) + 1
        BY <1>2, <4>1, <4>3
      <4> QED
        BY <1>2, <2>2, <4>1, <4>2, <4>3
    <3> QED
      BY <3>1, <3>2
  <2> QED
    BY <2>1, <2>2 DEF TokensWereIssued
<1>10. Matches'
  <2> DEFINE h == history'
             b == byToken'
  <2>1. ASSUME NEW q \in Sessions PROVE ChainMatches(h[q])
    BY <1>5, <1>6 DEF Store, StoreTyped, Matches
  <2>2. ASSUME NEW q \in Tokens, b[q] # NoSession PROVE Pending(h[b[q]], q)
    <3>1. CASE q = t
      BY <1>5, <1>6, <3>1 DEF Store, StoreTyped
    <3>2. CASE q # t
      <4>1. b[q] = byToken[q] /\ q \notin D /\ byToken[q] \in Sessions
        BY <2>2, <3>2 DEF Store, StoreTyped
      <4>2. CASE byToken[q] = s
        <5>1. base = history[s]
          BY <4>1, <4>2 DEF Store, IndexesAgree
        <5>2. Pending(base, q)
          BY <4>1, <4>2, <5>1, LockAssumption DEF Store, Matches
        <5>3. h[b[q]] = g
          BY <1>6, <4>1, <4>2 DEF Store, StoreTyped
        <5> QED
          BY <1>5, <5>2, <5>3
      <4>3. CASE byToken[q] # s
        <5>1. h[b[q]] = history[byToken[q]]
          BY <1>6, <4>1, <4>3 DEF Store, StoreTyped
        <5> QED
          BY <4>1, <5>1, LockAssumption DEF Store, Matches
      <4> QED
        BY <4>2, <4>3
    <3> QED
      BY <3>1, <3>2
  <2>3. history' = h /\ byToken' = b
    OBVIOUS
  <2> HIDE DEF h, b
  <2> QED
    BY <2>1, <2>2, <2>3, MatchesNext
<1> QED
  BY <1>7, <1>8, <1>9, <1>10 DEF Store

\* A call is answered: the answer goes on the chain of its call, and its token goes.
LEMMA CallAnswered ==
  ASSUME Store, NEW s \in Sessions, NEW t \in Tokens, byToken[t] = s,
         history' = [history EXCEPT ![s] = Append(@, <<"answer", t>>)],
         Deleted(t), UNCHANGED <<issued, lapsed>>
  PROVE  Store'
<1> USE DEF Deleted
<1> DEFINE base == history[s]
           g == Append(base, <<"answer", t>>)
<1>1. base \in Seq(Entries)
  BY DEF Store, StoreTyped
<1>2. /\ g \in Seq(Entries)
      /\ Len(g) = Len(base) + 1
      /\ Len(base) \in Nat
      /\ \A i \in 1..Len(base) : g[i] = base[i]
      /\ g[Len(base) + 1] = <<"answer", t>>
  BY <1>1 DEF Entries
<1>3. ChainMatches(base) /\ Pending(base, t)
  BY LockAssumption DEF Store, Matches
<1>4. t \in issued /\ \A i \in 1..Len(base) : base[i][2] \in issued
  BY LockAssumption DEF Store, TokensWereIssued
<1>6. history' = [history EXCEPT ![s] = g]
  OBVIOUS
<1>0. base = history[s]
  OBVIOUS
<1>5. ChainMatches(g) /\ \A u \in Tokens \ {t} : Pending(base, u) => Pending(g, u)
  <2> HIDE DEF base
  <2> QED
    BY <1>1, <1>3, AppendAnswer
<1> HIDE DEF g, base
<1>7. StoreTyped'
  BY <1>2, <1>6 DEF Store, StoreTyped
<1>8. IndexesAgree'
  BY LockAssumption DEF Store, StoreTyped, IndexesAgree
<1>9. TokensWereIssued'
  <2>1. \A q \in Tokens : byToken'[q] # NoSession => q \in issued'
    BY DEF Store, StoreTyped, TokensWereIssued
  <2>2. ASSUME NEW q \in Sessions, NEW i \in 1..Len(history'[q]) PROVE history'[q][i][2] \in issued'
    <3>1. CASE q # s
      BY <1>6, <2>2, <3>1 DEF Store, StoreTyped, TokensWereIssued
    <3>2. CASE q = s
      <4>1. history'[q] = g
        BY <1>6, <3>2 DEF Store, StoreTyped
      <4>2. CASE i \in 1..Len(base)
        BY <1>2, <1>4, <4>1, <4>2
      <4>3. CASE i = Len(base) + 1
        BY <1>2, <1>4, <4>1, <4>3
      <4> QED
        BY <1>2, <2>2, <4>1, <4>2, <4>3
    <3> QED
      BY <3>1, <3>2
  <2> QED
    BY <2>1, <2>2 DEF TokensWereIssued
<1>10. Matches'
  <2> DEFINE h == history'
             b == byToken'
  <2>1. ASSUME NEW q \in Sessions PROVE ChainMatches(h[q])
    BY <1>5, <1>6 DEF Store, StoreTyped, Matches
  <2>2. ASSUME NEW q \in Tokens, b[q] # NoSession PROVE Pending(h[b[q]], q)
    <3>1. q # t /\ b[q] = byToken[q] /\ byToken[q] \in Sessions
      BY <2>2 DEF Store, StoreTyped
    <3>2. CASE byToken[q] = s
      <4>1. Pending(base, q)
        BY <1>0, <3>1, <3>2, LockAssumption DEF Store, Matches
      <4>2. h[b[q]] = g
        BY <1>6, <3>1, <3>2 DEF Store, StoreTyped
      <4> QED
        BY <1>5, <3>1, <4>1, <4>2
    <3>3. CASE byToken[q] # s
      <4>1. h[b[q]] = history[byToken[q]]
        BY <1>6, <3>1, <3>3 DEF Store, StoreTyped
      <4> QED
        BY <3>1, <4>1, LockAssumption DEF Store, Matches
    <3> QED
      BY <3>2, <3>3
  <2>3. history' = h /\ byToken' = b
    OBVIOUS
  <2> HIDE DEF h, b
  <2> QED
    BY <2>1, <2>2, <2>3, MatchesNext
<1> QED
  BY <1>7, <1>8, <1>9, <1>10 DEF Store

LEMMA AdmitStore ==
  ASSUME Store, NEW r \in Requests, Admit(r), presented[r] \in Tokens, session[r] \in Sessions
  PROVE  Store'
<1> DEFINE t == presented[r]
           s == session[r]
<1>1. UNCHANGED <<issued, lapsed>>
  BY DEF Admit
<1>2. CASE /\ Presentable(t, s)
           /\ history' = [history EXCEPT ![s] = Append(@, <<"answer", t>>)]
           /\ Deleted(t)
  <2>1. byToken[t] = s
    BY <1>2 DEF Presentable
  <2> HIDE DEF t, s
  <2>2. t \in Tokens /\ s \in Sessions
    BY DEF t, s
  <2> QED
    BY <1>1, <1>2, <2>1, <2>2, CallAnswered
<1>3. CASE byToken[t] # NoSession /\ Deleted(t) /\ UNCHANGED history
  <2>1. byToken' = [q \in Tokens |-> IF q \in {t} THEN NoSession ELSE byToken[q]]
    BY <1>3 DEF Deleted, Store, StoreTyped
  <2>2. bySession' = [z \in Sessions |-> bySession[z] \ {t}]
    <3>1. PICK owner \in Sessions : owner = byToken[t]
      BY <1>3 DEF Store, StoreTyped
    <3>2. \A z \in Sessions \ {owner} : bySession[z] = bySession[z] \ {t}
      BY <3>1 DEF Store, IndexesAgree
    <3>3. bySession' = [bySession EXCEPT ![owner] = bySession[owner] \ {t}]
      BY <1>3, <3>1 DEF Deleted
    <3>4. bySession \in [Sessions -> SUBSET Tokens]
      BY DEF Store, StoreTyped
    <3> HIDE DEF t
    <3> QED
      BY <3>2, <3>3, <3>4
  <2>3. lapsed' \in SUBSET issued
    BY <1>1 DEF Store, StoreTyped
  <2>4. {t} \in SUBSET Tokens
    OBVIOUS
  <2> HIDE DEF t
  <2> QED
    BY <1>1, <1>3, <2>1, <2>2, <2>3, <2>4, RecordsLeave
<1>4. CASE UNCHANGED <<history, byToken, bySession>>
  <2>1. lapsed' \in SUBSET issued
    BY <1>1 DEF Store, StoreTyped
  <2> QED
    BY <1>1, <1>4, <2>1, RecordsStay
<1> QED
  BY <1>2, <1>3, <1>4 DEF Admit

LEMMA RunningSession ==
  ASSUME LockTypeOK, NEW r \in Requests, NEW k, Inside(r, k)
  PROVE  session[r] \in Sessions
BY DEF LockTypeOK, Inside

LEMMA StoreStep ==
  ASSUME LockTypeOK, RequestsTyped, Store, [Next]_vars
  PROVE  Store'
<1>1. ASSUME UNCHANGED <<history, storeVars>>
      PROVE  Store'
  BY <1>1, RecordsStay DEF storeVars, Store, StoreTyped
<1>2. ASSUME NEW r \in Requests, NEW t \in Tokens, SuspendCall(r, t)
      PROVE  Store'
  <2>1. session[r] \in Sessions
    BY <1>2, RunningSession DEF SuspendCall
  <2> DEFINE s == session[r]
             base == history[s]
             D == {}
  <2>2. /\ t \notin issued
        /\ issued' = issued \cup {t}
        /\ lapsed' = lapsed
        /\ history' = [history EXCEPT ![s] = Append(base, <<"call", t>>)]
    BY <1>2 DEF SuspendCall, Suspend
  <2>3. byToken' = [q \in Tokens |-> IF q = t THEN s
                                     ELSE IF q \in D THEN NoSession ELSE byToken[q]]
    BY <1>2 DEF SuspendCall, Suspend, Store, StoreTyped
  <2>4. bySession' = [bySession EXCEPT ![s] = (@ \ D) \cup {t}]
    BY <1>2 DEF SuspendCall, Suspend, Store, StoreTyped
  <2>5. s \in Sessions /\ base = history[s] /\ D = {}
    BY <2>1
  <2> HIDE DEF s, base, D
  <2> QED
    BY <2>2, <2>3, <2>4, <2>5, CallSuspended
<1>3. ASSUME NEW r \in Requests, NEW t \in Tokens, ReplaceBySuspension(r, t)
      PROVE  Store'
  <2>1. session[r] \in Sessions
    BY <1>3, RunningSession DEF ReplaceBySuspension, ResetEnds
  <2> DEFINE s == session[r]
             base == <<>>
             D == bySession[s]
  <2>2. /\ t \notin issued
        /\ issued' = issued \cup {t}
        /\ lapsed' = lapsed
        /\ byToken' = [q \in Tokens |-> IF q = t THEN s
                                        ELSE IF q \in D THEN NoSession ELSE byToken[q]]
    BY <1>3 DEF ReplaceBySuspension, ResetEnds
  <2>3. history' = [history EXCEPT ![s] = Append(base, <<"call", t>>)]
    <3>1. Append(<<>>, <<"call", t>>) = <<<<"call", t>>>>
      OBVIOUS
    <3>2. history' = [history EXCEPT ![s] = <<<<"call", t>>>>]
      BY <1>3 DEF ReplaceBySuspension
    <3> QED
      BY <3>1, <3>2
  <2>4. bySession' = [bySession EXCEPT ![s] = (@ \ D) \cup {t}]
    <3>1. bySession' = [bySession EXCEPT ![s] = {t}]
      BY <1>3 DEF ReplaceBySuspension
    <3>2. (bySession[s] \ D) \cup {t} = {t}
      OBVIOUS
    <3> QED
      BY <3>1, <3>2
  <2>5. s \in Sessions /\ base = <<>> /\ D = bySession[s]
    BY <2>1
  <2> HIDE DEF s, base, D
  <2> QED
    BY <2>2, <2>3, <2>4, <2>5, CallSuspended
<1>4. ASSUME NEW r \in Requests, CommitReset(r) \/ FailReset(r)
      PROVE  Store'
  <2>1. session[r] \in Sessions
    BY <1>4, RunningSession DEF CommitReset, FailReset, ResetEnds
  <2>2. UNCHANGED <<issued, lapsed>>
    BY <1>4 DEF CommitReset, FailReset, ResetEnds
  <2>3. CASE history' = [history EXCEPT ![session[r]] = <<>>] /\ SuspensionsCleared(session[r])
    BY <2>1, <2>2, <2>3, ChainLeaves
  <2>4. CASE UNCHANGED <<history, byToken, bySession>>
    BY <1>1, <2>2, <2>4 DEF storeVars
  <2> QED
    BY <1>4, <2>3, <2>4 DEF CommitReset, FailReset
<1>5. ASSUME NEW s \in Sessions, Evict(s)
      PROVE  Store'
  BY <1>5, ChainLeaves DEF Evict
<1>6. ASSUME Sweep
      PROVE  Store'
  BY <1>6, RecordsLeave DEF Sweep, Store, StoreTyped
<1>7. ASSUME NEW t \in Tokens, Lapse(t)
      PROVE  Store'
  <2>1. UNCHANGED <<history, byToken, bySession, issued>>
    BY <1>7 DEF Lapse
  <2>2. lapsed' \in SUBSET issued
    BY <1>7 DEF Lapse, Store, StoreTyped
  <2> QED
    BY <2>1, <2>2, RecordsStay
<1>8. ASSUME NEW r \in Requests, Admit(r)
      PROVE  Store'
  <2>1. session[r] \in Sessions
    BY <1>8, RunningSession DEF Admit
  <2>2. presented[r] \in Tokens
    BY <1>8 DEF Admit, Inside, RequestsTyped
  <2> QED
    BY <1>8, <2>1, <2>2, AdmitStore
<1>9. ASSUME NEW r \in Requests,
             \/ StartReset(r) \/ EnterSection(r) \/ SettlePlace(r)
             \/ LeaveSection(r) \/ JoinToken(r) \/ LockTimeout(r)
      PROVE  Store'
  BY <1>1, <1>9 DEF StartReset, EnterSection, SettlePlace, LeaveSection, JoinToken, LockTimeout
<1>10. ASSUME NEW r \in Requests, NEW s \in Sessions,
              \/ BeginReset(r, s)
              \/ \E k \in {"call", "observe"} : \E t \in Tokens \cup {NoToken} : Begin(r, s, k, t)
       PROVE  Store'
  BY <1>1, <1>10 DEF BeginReset, Begin
<1>11. CASE UNCHANGED vars
  BY <1>1, <1>11 DEF vars
<1> QED
  BY <1>2, <1>3, <1>4, <1>5, <1>6, <1>7, <1>8, <1>9, <1>10, <1>11 DEF Next, Proceed

-----------------------------------------------------------------------------
(* Theorems.                                                                *)

LEMMA StoreMatches == StoreTyped /\ Matches => CallsAndAnswers
<1> SUFFICES ASSUME StoreTyped, Matches PROVE CallsAndAnswers
  OBVIOUS
<1>1. \A s \in Sessions : DOMAIN history[s] = 1..Len(history[s]) /\ Len(history[s]) \in Nat
  BY DEF StoreTyped
<1>2. ASSUME NEW s \in Sessions, NEW i \in DOMAIN history[s], history[s][i][1] = "answer"
      PROVE  /\ \E j \in 1..(i - 1) : history[s][j] = <<"call", history[s][i][2]>>
             /\ \A j \in 1..(i - 1) : history[s][j] # <<"answer", history[s][i][2]>>
  BY <1>1, <1>2 DEF Matches, ChainMatches
<1>3. ASSUME NEW t \in Tokens, byToken[t] # NoSession
      PROVE  LET chain == {history[byToken[t]][i] : i \in DOMAIN history[byToken[t]]} IN
             <<"call", t>> \in chain /\ <<"answer", t>> \notin chain
  <2>1. byToken[t] \in Sessions
    BY <1>3 DEF StoreTyped
  <2> QED
    BY <1>1, <1>3, <2>1 DEF Matches, Pending
<1> QED
  BY <1>2, <1>3 DEF CallsAndAnswers, AnswersMatchCalls, SuspensionsHaveCalls

\* The requests and the tokens keep their inductive invariant (ThoughtProcessor.process,
\* resetSession, InMemorySuspensionStore).
THEOREM Invariance == Spec => []IInv
<1>1. Init => RequestsTyped /\ Store
  BY RequestsInit, StoreInit
<1>2. LockTypeOK /\ RequestsTyped /\ Store /\ [Next]_vars => (RequestsTyped /\ Store)'
  BY RequestsStep, StoreStep
<1> QED
  BY <1>1, <1>2, LockTyped, PTL DEF Spec, IInv

\* Every variable keeps its type, and only generated tokens lapse (InMemorySuspensionStore).
THEOREM TypeCorrect == Spec => []TypeOK
<1>1. IInv => TypeOK
  BY DEF IInv, RequestsTyped, Store, StoreTyped, TypeOK, Entries
<1> QED
  BY <1>1, Invariance, PTL

\* A chain answers its own calls only, each at most once, and every pending token is one of a
\* live chain that holds its call unanswered (_handleToolCall, compareAndAdmit, clearSession).
THEOREM CallsAnswered == Spec => []CallsAndAnswers
<1>1. IInv => CallsAndAnswers
  BY StoreMatches DEF IInv, Store
<1> QED
  BY <1>1, Invariance, PTL

\* A token goes with its answer, with its time or with its chain (contracts/suspension.ts:117).
LostWithReason(t) ==
  byToken[t] # NoSession /\ byToken'[t] = NoSession =>
    LET s == byToken[t] IN
    \/ t \in lapsed
    \/ history'[s] = Append(history[s], <<"answer", t>>)
    \/ \A i \in DOMAIN history'[s] : history'[s][i] # <<"call", t>>

LEMMA ClearedToken ==
  ASSUME Store, NEW s \in Sessions, NEW t \in Tokens,
         byToken[t] # NoSession, byToken'[t] = NoSession,
         history' = [history EXCEPT ![s] = <<>>], SuspensionsCleared(s)
  PROVE  \A i \in DOMAIN history'[byToken[t]] : history'[byToken[t]][i] # <<"call", t>>
<1>1. byToken[t] = s
  BY DEF SuspensionsCleared, Store, StoreTyped, IndexesAgree
<1>2. history'[s] = <<>>
  BY DEF Store, StoreTyped
<1> QED
  BY <1>1, <1>2

LEMMA TokenStep ==
  ASSUME IInv, [Next]_vars, NEW t \in Tokens
  PROVE  LostWithReason(t)
<1> SUFFICES ASSUME byToken[t] # NoSession, byToken'[t] = NoSession
             PROVE  LET s == byToken[t] IN
                    \/ t \in lapsed
                    \/ history'[s] = Append(history[s], <<"answer", t>>)
                    \/ \A i \in DOMAIN history'[s] : history'[s][i] # <<"call", t>>
  BY DEF LostWithReason
<1> USE DEF IInv
<1>1. byToken' # byToken
  OBVIOUS
<1>2. ASSUME NEW r \in Requests, NEW u \in Tokens, SuspendCall(r, u) PROVE FALSE
  <2>1. session[r] # NoSession
    BY <1>2, RunningSession, LockAssumption DEF SuspendCall
  <2>2. byToken' = [byToken EXCEPT ![u] = session[r]]
    BY <1>2 DEF SuspendCall, Suspend
  <2> QED
    BY <2>1, <2>2 DEF Store, StoreTyped
<1>3. ASSUME NEW r \in Requests, NEW u \in Tokens, ReplaceBySuspension(r, u)
      PROVE  \A i \in DOMAIN history'[byToken[t]] : history'[byToken[t]][i] # <<"call", t>>
  <2>1. session[r] \in Sessions
    BY <1>3, RunningSession DEF ReplaceBySuspension, ResetEnds
  <2>2. u # t
    BY <1>3 DEF ReplaceBySuspension, Store, TokensWereIssued
  <2>3. byToken[t] = session[r]
    <3>1. byToken'[t] = IF t \in bySession[session[r]] THEN NoSession ELSE byToken[t]
      BY <1>3, <2>2 DEF ReplaceBySuspension
    <3> QED
      BY <2>1, <3>1 DEF Store, IndexesAgree
  <2>4. history'[session[r]] = <<<<"call", u>>>>
    BY <1>3, <2>1 DEF ReplaceBySuspension, Store, StoreTyped
  <2> QED
    BY <2>2, <2>3, <2>4
<1>4. ASSUME NEW r \in Requests, CommitReset(r) \/ FailReset(r)
      PROVE  \A i \in DOMAIN history'[byToken[t]] : history'[byToken[t]][i] # <<"call", t>>
  <2>1. session[r] \in Sessions
    BY <1>4, RunningSession DEF CommitReset, FailReset, ResetEnds
  <2>2. history' = [history EXCEPT ![session[r]] = <<>>] /\ SuspensionsCleared(session[r])
    BY <1>1, <1>4 DEF CommitReset, FailReset
  <2> QED
    BY <2>1, <2>2, ClearedToken
<1>5. ASSUME NEW s \in Sessions, Evict(s)
      PROVE  \A i \in DOMAIN history'[byToken[t]] : history'[byToken[t]][i] # <<"call", t>>
  BY <1>5, ClearedToken DEF Evict
<1>6. ASSUME Sweep PROVE t \in lapsed
  BY <1>6 DEF Sweep
<1>7. ASSUME NEW r \in Requests, Admit(r)
      PROVE  t \in lapsed \/ history'[byToken[t]] = Append(history[byToken[t]], <<"answer", t>>)
  <2>1. presented[r] = t
    BY <1>1, <1>7 DEF Admit, Deleted, Store, StoreTyped
  <2>2. byToken[t] \in Sessions
    BY DEF Store, StoreTyped
  <2>3. CASE /\ Presentable(t, session[r])
             /\ history' = [history EXCEPT ![session[r]] = Append(@, <<"answer", t>>)]
    BY <2>2, <2>3 DEF Presentable, Store, StoreTyped
  <2> QED
    BY <1>1, <1>7, <2>1, <2>3 DEF Admit
<1>8. ASSUME NEW r \in Requests,
             \/ StartReset(r) \/ EnterSection(r) \/ SettlePlace(r)
             \/ LeaveSection(r) \/ JoinToken(r) \/ LockTimeout(r)
      PROVE  FALSE
  BY <1>1, <1>8 DEF StartReset, EnterSection, SettlePlace, LeaveSection, JoinToken, LockTimeout,
                    storeVars
<1>9. ASSUME NEW r \in Requests, NEW s \in Sessions,
             \/ BeginReset(r, s)
             \/ \E k \in {"call", "observe"} : \E u \in Tokens \cup {NoToken} : Begin(r, s, k, u)
      PROVE  FALSE
  BY <1>1, <1>9 DEF BeginReset, Begin, storeVars
<1>10. ~(\E u \in Tokens : Lapse(u)) /\ ~(UNCHANGED vars)
  BY <1>1 DEF Lapse, vars, storeVars
<1> QED
  BY <1>2, <1>3, <1>4, <1>5, <1>6, <1>7, <1>8, <1>9, <1>10 DEF Next, Proceed

\* No step drops a pending token but by its answer, its time or the end of its chain: a refused
\* or interrupted admission leaves it (compareAndAdmit, contracts/suspension.ts:117).
THEOREM TokensKept == Spec => TokensAreNotLost
<1>1. IInv /\ [Next]_vars => [\A t \in Tokens : LostWithReason(t)]_vars
  BY TokenStep
<1>2. [\A t \in Tokens : LostWithReason(t)]_vars
      => [\A t \in Tokens : byToken[t] # NoSession /\ byToken'[t] = NoSession =>
            LET s == byToken[t] IN
            \/ t \in lapsed
            \/ history'[s] = Append(history[s], <<"answer", t>>)
            \/ \A i \in DOMAIN history'[s] : history'[s][i] # <<"call", t>>]_vars
  BY DEF LostWithReason
<1> QED
  BY <1>1, <1>2, Invariance, PTL DEF Spec, TokensAreNotLost

=============================================================================
