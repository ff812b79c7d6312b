----------------------- MODULE PersistenceBufferProofs -----------------------
(***************************************************************************)
(* Proofs about PersistenceBuffer, for any sessions, slots and barriers.   *)
(***************************************************************************)
EXTENDS PersistenceBuffer, FiniteSetTheorems, TLAPS

OfSession(b) == barriers[b].kind \in {"reset", "eviction"}
OfAll(b) == barriers[b].kind = "global_reset"

\* The fields of a barrier that go together.
BarrierShape ==
  \A b \in Barriers :
    /\ barriers[b].kind = "none" => barriers[b] = NoBarrier
    /\ OfSession(b) => barriers[b].session \in Sessions
    /\ OfAll(b) => barriers[b].session = NoSession
    /\ barriers[b].stage = "queued" => barriers[b].joined = "none"
    /\ barriers[b].joined = "none" => barriers[b].stage \in {"idle", "queued"}
    /\ barriers[b].stage = "idle" => barriers[b].kind = "none"

\* The FIFO of a session lists its barriers once each, and only its head has begun.
SessionFifo ==
  /\ \A s \in Sessions : \A i \in 1..Len(sessionBarriers[s]) :
       /\ OfSession(sessionBarriers[s][i])
       /\ barriers[sessionBarriers[s][i]].session = s
       /\ i # 1 => barriers[sessionBarriers[s][i]].stage = "queued"
  /\ \A s \in Sessions : \A i, j \in 1..Len(sessionBarriers[s]) :
       sessionBarriers[s][i] = sessionBarriers[s][j] => i = j
  /\ \A b \in Barriers : OfSession(b) =>
       \E i \in 1..Len(sessionBarriers[barriers[b].session]) :
         sessionBarriers[barriers[b].session][i] = b

\* So does the FIFO of the global resets.
GlobalFifo ==
  /\ \A i \in 1..Len(globalBarriers) :
       /\ OfAll(globalBarriers[i])
       /\ i # 1 => barriers[globalBarriers[i]].stage = "queued"
  /\ \A i, j \in 1..Len(globalBarriers) : globalBarriers[i] = globalBarriers[j] => i = j
  /\ \A b \in Barriers : OfAll(b) => \E i \in 1..Len(globalBarriers) : globalBarriers[i] = b

\* A global reset that has begun found no session barrier, and none came since.
GlobalAlone ==
  \A b \in Barriers : OfAll(b) /\ barriers[b].stage # "queued" =>
    \A s \in Sessions : sessionBarriers[s] = <<>>

Owners == BarrierShape /\ SessionFifo /\ GlobalFifo /\ GlobalAlone

\* Tokens are used once.
TokensFresh ==
  /\ \A w \in queue : w.token < nextSequence
  /\ \A v, w \in queue : v.token = w.token => v = w
  /\ \A v, w \in queue : v.session = w.session /\ v.slot = w.slot /\ v.slot # "thought" => v = w
  /\ drain # NoDrain =>
       /\ \A w \in drain.selected : w.token < nextSequence
       /\ \A w \in queue : w.token = drain.work.token => w = drain.work

\* A generation remembers what it selected: whatever of it is still queued has
\* failed, but for the work that is being written.
GenerationRemembers ==
  /\ drain # NoDrain <=> settlement = "pending"
  /\ drain # NoDrain =>
       /\ drain.work \in drain.selected
       /\ \A w \in drain.selected \cap queue : w = drain.work \/ w \in failed

Generation == TokensFresh /\ GenerationRemembers

\* Nothing of session s is queued or written but what has failed before.
Quiet(s) ==
  /\ WorkOf(queue, s) \subseteq failed
  /\ drain # NoDrain /\ drain.work.session = s => drain.work \in failed

\* A generation joined by a barrier is explicit; after it, the session is quiet.
JoinedAreExplicit ==
  \A b \in Barriers : barriers[b].joined = "active" =>
    drain # NoDrain /\ drain.mode = "explicit"

SettledAreQuiet ==
  \A b \in Barriers :
    OfSession(b) /\ (barriers[b].joined = "settled" \/ Operating(b)) =>
      Quiet(barriers[b].session)

EvictionsFindNothing ==
  \A b \in Barriers : Operating(b) /\ barriers[b].kind = "eviction" =>
    WorkOf(queue, barriers[b].session) = {}

Quiescence == JoinedAreExplicit /\ SettledAreQuiet /\ EvictionsFindNothing

\* A write that landed is in the backend, or a reset has cleared it.
LandedIsDurable ==
  drain # NoDrain /\ drain.landed /\ drain.work \in queue =>
    Reached(durable, drain.work) \/ BeingReset(drain.work.session)

\* What may still be written: the entries of the queue and the work in hand.
Pending == IF drain = NoDrain THEN queue ELSE queue \cup {drain.work}

\* What is pending at a slot is at least as new as what the backend holds there,
\* and the work in hand is the oldest of its slot.
SlotsAreOlder ==
  /\ \A s \in Sessions, k \in Slots : durable[s].slots[k] < nextSequence
  /\ \A w \in Pending : w.slot # "thought" =>
       durable[w.session].slots[w.slot] <= w.token
  /\ drain # NoDrain => \A w \in queue :
       w.session = drain.work.session /\ w.slot = drain.work.slot /\ w.slot # "thought" =>
         drain.work.token <= w.token

Landed(w) == drain # NoDrain /\ w = drain.work /\ drain.landed

\* A pending thought is not in the backend yet, unless its write has just landed.
ThoughtsAreNew ==
  /\ \A s \in Sessions : \A i \in DOMAIN durable[s].thoughts :
       durable[s].thoughts[i] < nextSequence
  /\ \A w \in Pending : w.slot = "thought" /\ ~Landed(w) =>
       \A i \in DOMAIN durable[w.session].thoughts : durable[w.session].thoughts[i] # w.token

Durability == LandedIsDurable /\ SlotsAreOlder /\ ThoughtsAreNew /\ NoDuplicateThought

IInv == TypeOK /\ Owners /\ Generation /\ Quiescence /\ Durability
-----------------------------------------------------------------------------
(* Lemmas about the operators.                                             *)

\* Every set of natural numbers that is not empty has a least element.
LEMMA LeastNumber ==
  ASSUME NEW T \in SUBSET Nat, T # {}
  PROVE  \E x \in T : \A y \in T : x <= y
<1> DEFINE Below == {0..x : x \in T}
<1>1. Below \subseteq FiniteSubsetsOf(Nat)
  <2>1. \A x \in T : IsFiniteSet(0..x)
    BY FS_Interval
  <2>2. \A x \in T : 0..x \subseteq Nat
    OBVIOUS
  <2> QED
    BY <2>1, <2>2 DEF FiniteSubsetsOf
<1>2. IsWellFoundedOn(StrictSubsetOrdering(Nat), FiniteSubsetsOf(Nat))
  BY FS_StrictSubsetOrderingWellFounded
<1>3. Below # {}
  OBVIOUS
<1> HIDE DEF Below
<1>4. PICK B \in Below : \A C \in Below : ~(<<C, B>> \in StrictSubsetOrdering(Nat))
  BY <1>1, <1>2, <1>3, WFMin
<1>5. PICK x \in T : B = 0..x
  BY <1>4 DEF Below
<1>6. \A y \in T : x <= y
  <2> SUFFICES ASSUME NEW y \in T, y < x PROVE FALSE
    OBVIOUS
  <2>1. 0..y \in Below
    BY DEF Below
  <2>2. 0..y \subseteq 0..x /\ 0..y # 0..x /\ 0..x \subseteq Nat
    OBVIOUS
  <2>3. <<0..y, B>> \in StrictSubsetOrdering(Nat)
    BY <1>5, <2>2 DEF StrictSubsetOrdering
  <2> QED
    BY <1>4, <2>1, <2>3
<1> QED
  BY <1>6

\* The work a generation selects is one of those it may select.
LEMMA OldestIsMember ==
  ASSUME NEW W \in SUBSET Work, W # {}
  PROVE  Oldest(W) \in W
<1> DEFINE T == {w.token : w \in W}
<1>1. T \in SUBSET Nat /\ T # {}
  BY DEF Work
<1>2. PICK x \in T : \A y \in T : x <= y
  BY <1>1, LeastNumber
<1>3. \E w \in W : \A v \in W : w.token <= v.token
  BY <1>2
<1> QED
  BY <1>3 DEF Oldest

\* The step of a generation between two awaits: it closes, with nothing left to
\* select, or goes on with a work it had not selected.
LEMMA RunCases ==
  ASSUME queue' \in SUBSET Work, NEW mode \in {"explicit", "background"},
         NEW selected \in SUBSET Work, Run(mode, selected)
  PROVE  \/ /\ drain' = NoDrain
            /\ Eligible(mode, selected, queue', failed') = {}
            /\ settlement' \in {"resolved", "rejected"}
            /\ settlement' = "resolved" => selected \cap queue' \cap failed' = {}
         \/ /\ drain' \in Drain
            /\ drain' # NoDrain
            /\ drain'.mode = mode
            /\ drain'.work \in Eligible(mode, selected, queue', failed')
            /\ drain'.selected = (selected \cap queue') \cup {drain'.work}
            /\ drain'.attempt = 0
            /\ drain'.landed = FALSE
            /\ settlement' = "pending"
<1> DEFINE E == Eligible(mode, selected, queue', failed')
<1>1. E \in SUBSET Work
  BY DEF Eligible
<1>2. CASE E = {}
  BY <1>2 DEF Run, Advance, Outcome
<1>3. CASE E # {}
  <2>1. Oldest(E) \in E /\ Oldest(E) \in Work
    BY <1>1, <1>3, OldestIsMember
  <2>2. drain' = [mode |-> mode, selected |-> (selected \cap queue') \cup {Oldest(E)},
                  work |-> Oldest(E), attempt |-> 0, landed |-> FALSE]
    BY <1>3 DEF Run, Advance
  <2>3. settlement' = "pending"
    BY <1>3 DEF Run, Outcome
  <2>4. drain' \in Drain
    BY <2>1, <2>2, ConstantsAssumption DEF Drain
  <2> HIDE DEF E
  <2>5. /\ drain'.mode = mode
        /\ drain'.work = Oldest(E)
        /\ drain'.selected = (selected \cap queue') \cup {Oldest(E)}
        /\ drain'.attempt = 0
        /\ drain'.landed = FALSE
    BY <2>2
  <2> QED
    BY <2>1, <2>3, <2>4, <2>5, NoDrainAssumption DEF E
<1> QED
  BY <1>2, <1>3

\* What a notification does to the barriers: whoever waits is ready to look again,
\* and whoever joined the generation that closed keeps what is left of its selection.
Noticed(p) ==
  /\ p \in [Barriers -> Barrier]
  /\ \A b \in Barriers :
       /\ p[b].kind = barriers[b].kind
       /\ p[b].session = barriers[b].session
       /\ p[b].stage = barriers[b].stage \/ (barriers[b].stage = "waiting" /\ p[b].stage = "ready")
       /\ IF drain' = NoDrain /\ barriers[b].joined = "active"
          THEN p[b].joined = "settled" /\ p[b].selected = drain.selected \cap queue'
          ELSE p[b].joined = barriers[b].joined /\ p[b].selected = barriers[b].selected

LEMMA ProgressedNoticed ==
  ASSUME TypeOK, JoinedAreExplicit, queue' \in SUBSET Work
  PROVE  Noticed(Progressed)
<1> SUFFICES ASSUME NEW b \in Barriers
             PROVE  /\ Progressed[b] \in Barrier
                    /\ Progressed[b].kind = barriers[b].kind
                    /\ Progressed[b].session = barriers[b].session
                    /\ \/ Progressed[b].stage = barriers[b].stage
                       \/ barriers[b].stage = "waiting" /\ Progressed[b].stage = "ready"
                    /\ IF drain' = NoDrain /\ barriers[b].joined = "active"
                       THEN /\ Progressed[b].joined = "settled"
                            /\ Progressed[b].selected = drain.selected \cap queue'
                       ELSE /\ Progressed[b].joined = barriers[b].joined
                            /\ Progressed[b].selected = barriers[b].selected
  BY DEF Noticed, Progressed
<1> DEFINE B == barriers[b]
           S == IF B.stage = "waiting" THEN [B EXCEPT !.stage = "ready"] ELSE B
<1>1. B \in Barrier
  BY DEF TypeOK
<1>2. /\ S \in Barrier
      /\ S.kind = B.kind /\ S.session = B.session
      /\ S.joined = B.joined /\ S.selected = B.selected
      /\ S.stage = B.stage \/ (B.stage = "waiting" /\ S.stage = "ready")
  BY <1>1 DEF Barrier
<1>3. Progressed[b] = IF drain' = NoDrain /\ B.joined = "active"
                      THEN [S EXCEPT !.joined = "settled", !.selected = drain.selected \cap queue']
                      ELSE S
  BY DEF Progressed
<1> HIDE DEF S
<1>4. CASE drain' = NoDrain /\ B.joined = "active"
  <2>1. drain.selected \cap queue' \in SUBSET Work
    OBVIOUS
  <2> QED
    BY <1>2, <1>3, <1>4, <2>1 DEF Barrier
<1>5. CASE ~(drain' = NoDrain /\ B.joined = "active")
  BY <1>2, <1>3, <1>5
<1> QED
  BY <1>4, <1>5

\* Joining the active generation, or starting one.
LEMMA JoinCases ==
  ASSUME TypeOK, queue' \in SUBSET Work, NEW mode \in {"explicit", "background"},
         JoinOrStart(mode)
  PROVE  \/ /\ drain # NoDrain
            /\ drain' \in Drain
            /\ drain' # NoDrain
            /\ drain'.mode = IF mode = "explicit" THEN "explicit" ELSE drain.mode
            /\ drain'.work = drain.work
            /\ drain'.selected = drain.selected
            /\ drain'.landed = drain.landed
            /\ settlement' = settlement
         \/ /\ drain = NoDrain
            /\ drain' = NoDrain
            /\ Eligible(mode, {}, queue', failed') = {}
            /\ settlement' \in {"resolved", "rejected"}
         \/ /\ drain = NoDrain
            /\ drain' \in Drain
            /\ drain' # NoDrain
            /\ drain'.mode = mode
            /\ drain'.work \in Eligible(mode, {}, queue', failed')
            /\ drain'.selected = {drain'.work}
            /\ drain'.landed = FALSE
            /\ settlement' = "pending"
<1>1. CASE drain # NoDrain
  <2>1. drain \in Drain
    BY <1>1 DEF TypeOK
  <2>2. /\ drain' = [drain EXCEPT !.mode = IF mode = "explicit" THEN mode ELSE drain.mode]
        /\ settlement' = settlement
    BY <1>1 DEF JoinOrStart
  <2>3. drain' \in Drain
    BY <2>1, <2>2 DEF Drain
  <2>4. /\ drain'.mode = IF mode = "explicit" THEN "explicit" ELSE drain.mode
        /\ drain'.work = drain.work
        /\ drain'.selected = drain.selected
        /\ drain'.landed = drain.landed
    BY <2>1, <2>2 DEF Drain
  <2> QED
    BY <1>1, <2>2, <2>3, <2>4, NoDrainAssumption
<1>2. CASE drain = NoDrain
  <2>1. Run(mode, {})
    BY <1>2 DEF JoinOrStart
  <2>2. {} \in SUBSET Work /\ \A w : ({} \cap queue') \cup {w} = {w}
    OBVIOUS
  <2> QED
    BY <1>2, <2>1, <2>2, RunCases
<1> QED
  BY <1>1, <1>2

LEMMA StartNoticed ==
  ASSUME TypeOK, JoinedAreExplicit, queue' \in SUBSET Work,
         NEW mode \in {"explicit", "background"}, JoinOrStart(mode)
  PROVE  Noticed(StartProgressed)
<1>1. CASE drain = NoDrain /\ drain' = NoDrain
  BY <1>1, ProgressedNoticed DEF StartProgressed
<1>2. CASE ~(drain = NoDrain /\ drain' = NoDrain)
  <2>1. StartProgressed = barriers
    BY <1>2 DEF StartProgressed
  <2>2. drain' # NoDrain
    BY <1>2, JoinCases
  <2> QED
    BY <2>1, <2>2 DEF Noticed, TypeOK
<1> QED
  BY <1>1, <1>2

LEMMA AcceptedIsWork ==
  ASSUME TypeOK, NEW s \in Sessions, NEW k \in Slots \cup {"thought"}
  PROVE  /\ Accepted(s, k) \in Work
         /\ Accepted(s, k).token = nextSequence
         /\ Accepted(s, k).session = s
         /\ Accepted(s, k).slot = k
BY DEF Accepted, Work, TypeOK

\* A write appends a thought or overwrites a slot, and nothing else.
LEMMA SavedFacts ==
  ASSUME TypeOK, NEW w \in Work, durable' = Saved(durable, w)
  PROVE  /\ durable' \in [Sessions -> [thoughts : Seq(Nat), slots : [Slots -> Nat]]]
         /\ \A s \in Sessions \ {w.session} : durable'[s] = durable[s]
         /\ w.slot = "thought" =>
              /\ durable'[w.session].thoughts = Append(durable[w.session].thoughts, w.token)
              /\ durable'[w.session].slots = durable[w.session].slots
         /\ w.slot # "thought" =>
              /\ durable'[w.session].thoughts = durable[w.session].thoughts
              /\ w.slot \in Slots
              /\ durable'[w.session].slots = [durable[w.session].slots EXCEPT ![w.slot] = w.token]
<1>1. /\ w.session \in Sessions /\ w.token \in Nat /\ w.slot \in Slots \cup {"thought"}
      /\ durable[w.session].thoughts \in Seq(Nat)
      /\ durable[w.session].slots \in [Slots -> Nat]
  BY DEF TypeOK, Work
<1> DEFINE R == [thoughts : Seq(Nat), slots : [Slots -> Nat]]
           old == durable[w.session]
<1>2. durable \in [Sessions -> R] /\ old \in R
  BY <1>1 DEF TypeOK
<1>3. ASSUME NEW r \in R, durable' = [durable EXCEPT ![w.session] = r]
      PROVE  /\ durable' \in [Sessions -> R]
             /\ durable'[w.session] = r
             /\ \A s \in Sessions \ {w.session} : durable'[s] = durable[s]
  BY <1>1, <1>2, <1>3
<1>4. CASE w.slot = "thought"
  <2> DEFINE r == [old EXCEPT !.thoughts = Append(old.thoughts, w.token)]
  <2>1. durable' = [durable EXCEPT ![w.session] = r]
    BY <1>4 DEF Saved
  <2>2. Append(old.thoughts, w.token) \in Seq(Nat)
    BY <1>1
  <2>3. r \in R /\ r.thoughts = Append(old.thoughts, w.token) /\ r.slots = old.slots
    BY <1>2, <2>2
  <2> QED
    BY <1>3, <1>4, <2>1, <2>3
<1>5. CASE w.slot # "thought"
  <2> DEFINE r == [old EXCEPT !.slots = [old.slots EXCEPT ![w.slot] = w.token]]
  <2>1. durable' = [durable EXCEPT ![w.session] = r]
    BY <1>5 DEF Saved
  <2>2. [old.slots EXCEPT ![w.slot] = w.token] \in [Slots -> Nat]
    BY <1>1
  <2>3. r \in R /\ r.thoughts = old.thoughts
        /\ r.slots = [old.slots EXCEPT ![w.slot] = w.token]
    BY <1>2, <2>2
  <2> QED
    BY <1>1, <1>3, <1>5, <2>1, <2>3
<1> QED
  BY <1>4, <1>5

\* A session barrier that has become the head of its FIFO.
LEMMA StartSessionFacts ==
  ASSUME TypeOK, JoinedAreExplicit, NEW b \in Barriers, StartSessionBarrier(b)
  PROVE  \E p : /\ Noticed(p)
                /\ barriers' \in [Barriers -> Barrier]
                /\ \A c \in Barriers \ {b} : barriers'[c] = p[c]
                /\ barriers'[b].kind = barriers[b].kind
                /\ barriers'[b].session = barriers[b].session
                /\ barriers'[b].joined = Joined
                /\ barriers'[b].stage =
                     NextStage(barriers[b].kind, barriers[b].session, drain', "explicit",
                               IF drain' = NoDrain THEN {} ELSE drain'.selected)
                /\ barriers'[b].stage \in {"waiting", "operating", "rejected"}
<1> DEFINE p == StartProgressed
           st == NextStage(barriers[b].kind, barriers[b].session, drain', "explicit",
                           IF drain' = NoDrain THEN {} ELSE drain'.selected)
<1>1. queue' \in SUBSET Work /\ JoinOrStart("explicit")
  BY DEF StartSessionBarrier, queueVars, TypeOK
<1>2. Noticed(p)
  BY <1>1, StartNoticed
<1>3. barriers' = [p EXCEPT ![b] = [p[b] EXCEPT !.joined = Joined, !.stage = st]]
  BY DEF StartSessionBarrier
<1>4. st \in {"waiting", "operating", "rejected"} /\ Joined \in {"settled", "active"}
  BY DEF NextStage, Joined
<1> HIDE DEF p, st
<1>5. p \in [Barriers -> Barrier]
  BY <1>2 DEF Noticed
<1>6. /\ p[b].kind = barriers[b].kind
      /\ p[b].session = barriers[b].session
  BY <1>2 DEF Noticed
<1>7. [p[b] EXCEPT !.joined = Joined, !.stage = st] \in Barrier
  BY <1>4, <1>5 DEF Barrier
<1>8. /\ barriers' \in [Barriers -> Barrier]
      /\ \A c \in Barriers \ {b} : barriers'[c] = p[c]
      /\ barriers'[b] = [p[b] EXCEPT !.joined = Joined, !.stage = st]
  BY <1>3, <1>5, <1>7
<1>9. /\ barriers'[b].kind = p[b].kind
      /\ barriers'[b].session = p[b].session
      /\ barriers'[b].joined = Joined
      /\ barriers'[b].stage = st
  BY <1>5, <1>8 DEF Barrier
<1> QED
  BY <1>2, <1>4, <1>6, <1>8, <1>9 DEF st

\* A global reset that has become the head of its FIFO.
LEMMA StartGlobalFacts ==
  ASSUME TypeOK, JoinedAreExplicit, NEW b \in Barriers, StartGlobalReset(b)
  PROVE  \E p : /\ Noticed(p)
                /\ barriers' \in [Barriers -> Barrier]
                /\ \A c \in Barriers \ {b} : barriers'[c] = p[c]
                /\ barriers'[b].kind = barriers[b].kind
                /\ barriers'[b].session = barriers[b].session
                /\ barriers'[b].joined = Joined
                /\ barriers'[b].stage = "draining"
<1> DEFINE p == StartProgressed
<1>1. queue' \in SUBSET Work /\ JoinOrStart("explicit")
  BY DEF StartGlobalReset, queueVars, TypeOK
<1>2. Noticed(p)
  BY <1>1, StartNoticed
<1>3. barriers' = [p EXCEPT ![b] = [p[b] EXCEPT !.stage = "draining", !.joined = Joined]]
  BY DEF StartGlobalReset
<1>4. Joined \in {"settled", "active"}
  BY DEF Joined
<1> HIDE DEF p
<1>5. p \in [Barriers -> Barrier] /\ p[b].kind = barriers[b].kind
      /\ p[b].session = barriers[b].session
  BY <1>2 DEF Noticed
<1>7. [p[b] EXCEPT !.stage = "draining", !.joined = Joined] \in Barrier
  BY <1>4, <1>5 DEF Barrier
<1>8. /\ barriers' \in [Barriers -> Barrier]
      /\ \A c \in Barriers \ {b} : barriers'[c] = p[c]
      /\ barriers'[b] = [p[b] EXCEPT !.stage = "draining", !.joined = Joined]
  BY <1>3, <1>5, <1>7
<1>9. /\ barriers'[b].kind = p[b].kind
      /\ barriers'[b].session = p[b].session
      /\ barriers'[b].joined = Joined
      /\ barriers'[b].stage = "draining"
  BY <1>5, <1>8 DEF Barrier
<1> QED
  BY <1>2, <1>5, <1>8, <1>9

-----------------------------------------------------------------------------
(* Who owns the sessions.                                                  *)

\* A barrier of a session that has begun heads the FIFO of its session.
LEMMA SessionHead ==
  ASSUME TypeOK, Owners, NEW b \in Barriers, OfSession(b)
  PROVE  /\ barriers[b].session \in Sessions
         /\ sessionBarriers[barriers[b].session] \in Seq(Barriers)
         /\ sessionBarriers[barriers[b].session] # <<>>
         /\ Len(sessionBarriers[barriers[b].session]) \in Nat \ {0}
         /\ barriers[b].stage # "queued" => sessionBarriers[barriers[b].session][1] = b
<1>1. barriers[b].session \in Sessions
  BY DEF Owners, BarrierShape
<1> DEFINE q == sessionBarriers[barriers[b].session]
<1>2. q \in Seq(Barriers) /\ Len(q) \in Nat
  BY <1>1 DEF TypeOK
<1>3. PICK i \in 1..Len(q) : q[i] = b
  BY DEF Owners, SessionFifo
<1>4. barriers[b].stage # "queued" => i = 1
  BY <1>1, <1>3 DEF Owners, SessionFifo
<1>5. q # <<>> /\ Len(q) # 0
  BY <1>2, <1>3
<1> QED
  BY <1>1, <1>2, <1>3, <1>4, <1>5

\* A global reset that has begun heads the global FIFO.
LEMMA GlobalHead ==
  ASSUME TypeOK, Owners, NEW b \in Barriers, OfAll(b)
  PROVE  /\ globalBarriers \in Seq(Barriers)
         /\ globalBarriers # <<>>
         /\ Len(globalBarriers) \in Nat \ {0}
         /\ barriers[b].stage # "queued" => globalBarriers[1] = b
<1>2. globalBarriers \in Seq(Barriers) /\ Len(globalBarriers) \in Nat
  BY DEF TypeOK
<1>3. PICK i \in 1..Len(globalBarriers) : globalBarriers[i] = b
  BY DEF Owners, GlobalFifo
<1>4. barriers[b].stage # "queued" => i = 1
  BY <1>3 DEF Owners, GlobalFifo
<1>5. globalBarriers # <<>> /\ Len(globalBarriers) # 0
  BY <1>2, <1>3
<1> QED
  BY <1>2, <1>3, <1>4, <1>5

\* A session to which new work may be added has no barrier.
LEMMA AdmissionFindsNoBarrier ==
  ASSUME TypeOK, Owners, NEW s \in Sessions, AdmissionOpen(s), NEW b \in Barriers
  PROVE  /\ ~OfAll(b)
         /\ OfSession(b) => barriers[b].session # s
BY SessionHead, GlobalHead DEF AdmissionOpen

\* Barriers may begin only at the head of their FIFO.
AtHead(b) ==
  /\ OfSession(b) => sessionBarriers[barriers[b].session][1] = b
  /\ OfAll(b) => globalBarriers[1] = b /\ \A s \in Sessions : sessionBarriers[s] = <<>>

\* Barriers that stay who they are, and begin only at the head of their FIFO.
Keeps(b) ==
  /\ barriers'[b].kind = barriers[b].kind
  /\ barriers'[b].session = barriers[b].session
  /\ barriers[b].kind = "none" => barriers'[b] = barriers[b]
  /\ barriers'[b].stage = "queued" => barriers[b].stage = "queued" /\ barriers'[b].joined = "none"
  /\ barriers[b].stage = "queued" => barriers'[b].stage = "queued" \/ AtHead(b)
  /\ barriers'[b].joined = "none" => barriers'[b].stage \in {"idle", "queued"}
  /\ barriers'[b].stage = "idle" => barriers[b].kind = "none"

LEMMA SameOwners ==
  ASSUME TypeOK, Owners, UNCHANGED ownerVars, \A b \in Barriers : Keeps(b)
  PROVE  Owners'
<1>1. BarrierShape'
  BY DEF Keeps, Owners, BarrierShape, OfSession, OfAll
<1>2. /\ \A s \in Sessions : sessionBarriers'[s] = sessionBarriers[s]
      /\ globalBarriers' = globalBarriers
      /\ \A s \in Sessions : sessionBarriers[s] \in Seq(Barriers)
      /\ globalBarriers \in Seq(Barriers)
  BY DEF TypeOK, ownerVars
<1>3. \A b \in Barriers : (OfSession(b)' <=> OfSession(b)) /\ (OfAll(b)' <=> OfAll(b))
  BY DEF Keeps, OfSession, OfAll
<1>4. SessionFifo'
  <2>1. ASSUME NEW s \in Sessions, NEW i \in 1..Len(sessionBarriers[s])
        PROVE  /\ barriers'[sessionBarriers[s][i]].kind \in {"reset", "eviction"}
               /\ barriers'[sessionBarriers[s][i]].session = s
               /\ i # 1 => barriers'[sessionBarriers[s][i]].stage = "queued"
    <3> DEFINE c == sessionBarriers[s][i]
    <3>1. c \in Barriers
      BY <1>2
    <3>2. /\ OfSession(c) /\ barriers[c].session = s
          /\ i # 1 => barriers[c].stage = "queued"
      BY DEF Owners, SessionFifo
    <3>3. i # 1 => barriers'[c].stage = "queued"
      <4> SUFFICES ASSUME i # 1, barriers'[c].stage # "queued" PROVE FALSE
        OBVIOUS
      <4>1. sessionBarriers[s][1] = c
        BY <3>1, <3>2 DEF Keeps, AtHead
      <4>2. 1 \in 1..Len(sessionBarriers[s])
        BY <1>2
      <4> QED
        BY <4>1, <4>2 DEF Owners, SessionFifo
    <3> QED
      BY <3>1, <3>2, <3>3 DEF Keeps, OfSession
  <2>2. \A b \in Barriers : OfSession(b)' =>
          \E i \in 1..Len(sessionBarriers[barriers'[b].session]) :
            sessionBarriers[barriers'[b].session][i] = b
    BY <1>3 DEF Keeps, Owners, SessionFifo
  <2>3. sessionBarriers' = sessionBarriers
    BY DEF ownerVars
  <2> QED
    BY <2>1, <2>2, <2>3 DEF Owners, SessionFifo, OfSession
<1>5. GlobalFifo'
  <2>1. ASSUME NEW i \in 1..Len(globalBarriers)
        PROVE  /\ barriers'[globalBarriers[i]].kind = "global_reset"
               /\ i # 1 => barriers'[globalBarriers[i]].stage = "queued"
    <3> DEFINE c == globalBarriers[i]
    <3>1. c \in Barriers
      BY <1>2
    <3>2. OfAll(c) /\ (i # 1 => barriers[c].stage = "queued")
      BY DEF Owners, GlobalFifo
    <3>3. i # 1 => barriers'[c].stage = "queued"
      <4> SUFFICES ASSUME i # 1, barriers'[c].stage # "queued" PROVE FALSE
        OBVIOUS
      <4>1. globalBarriers[1] = c
        BY <3>1, <3>2 DEF Keeps, AtHead
      <4>2. 1 \in 1..Len(globalBarriers)
        BY <1>2
      <4> QED
        BY <4>1, <4>2 DEF Owners, GlobalFifo
    <3> QED
      BY <3>1, <3>2, <3>3 DEF Keeps, OfAll
  <2> QED
    BY <1>2, <1>3, <2>1 DEF Owners, GlobalFifo, OfAll
<1>6. GlobalAlone'
  BY <1>2, <1>3 DEF Keeps, AtHead, Owners, GlobalAlone
<1> QED
  BY <1>1, <1>4, <1>5, <1>6 DEF Owners

\* A new barrier joins the end of the FIFO of its session.
LEMMA NewSessionBarrier ==
  ASSUME TypeOK, Owners, NEW b \in Barriers, NEW s \in Sessions,
         NEW kind \in {"reset", "eviction"}, BeginSessionBarrier(b, s, kind)
  PROVE  TypeOK' /\ Owners'
<1> DEFINE new == [NoBarrier EXCEPT !.kind = kind, !.session = s, !.stage = "queued"]
           q == sessionBarriers[s]
           r == Append(sessionBarriers[s], b)
<1>1. /\ new \in Barrier
      /\ new.kind = kind /\ new.session = s /\ new.stage = "queued" /\ new.joined = "none"
  BY DEF NoBarrier, Barrier
<1> HIDE DEF new
<1>2. /\ barriers[b].kind = "none" /\ barriers[b].stage = "idle"
      /\ globalBarriers = <<>>
      /\ barriers' = [barriers EXCEPT ![b] = new]
      /\ sessionBarriers' = [sessionBarriers EXCEPT ![s] = r]
      /\ UNCHANGED <<queueVars, durable, drainVars, globalBarriers, quarantineVars>>
  BY DEF BeginSessionBarrier, NoBarrier, new
<1>3. q \in Seq(Barriers) /\ Len(q) \in Nat
  BY DEF TypeOK
<1>4. /\ r \in Seq(Barriers) /\ Len(r) = Len(q) + 1 /\ r[Len(q) + 1] = b
      /\ \A i \in 1..Len(q) : r[i] = q[i]
  BY <1>3
<1>5. TypeOK'
  BY <1>1, <1>2, <1>4 DEF TypeOK, queueVars, drainVars, quarantineVars
<1>6. /\ barriers'[b] = new
      /\ \A c \in Barriers \ {b} : barriers'[c] = barriers[c]
      /\ sessionBarriers'[s] = r
      /\ \A t \in Sessions \ {s} : sessionBarriers'[t] = sessionBarriers[t]
  BY <1>2, <1>3, <1>4 DEF TypeOK
<1> HIDE DEF q, r
<1>7. BarrierShape'
  BY <1>1, <1>6 DEF Owners, BarrierShape, OfSession, OfAll
<1>8. /\ \A c \in Barriers \ {b} : (OfSession(c)' <=> OfSession(c)) /\ (OfAll(c)' <=> OfAll(c))
      /\ OfSession(b)' /\ ~OfAll(b)' /\ ~OfSession(b) /\ ~OfAll(b)
  BY <1>1, <1>2, <1>6 DEF OfSession, OfAll
<1>9. \A t \in Sessions : \A i \in 1..Len(sessionBarriers[t]) :
        sessionBarriers[t][i] \in Barriers \ {b}
  BY <1>8 DEF Owners, SessionFifo, TypeOK
<1>10. SessionFifo'
  <2>1. ASSUME NEW t \in Sessions, NEW i \in 1..Len(sessionBarriers'[t])
        PROVE  /\ barriers'[sessionBarriers'[t][i]].kind \in {"reset", "eviction"}
               /\ barriers'[sessionBarriers'[t][i]].session = t
               /\ i # 1 => barriers'[sessionBarriers'[t][i]].stage = "queued"
    <3>1. CASE t # s
      BY <3>1, <1>6, <1>9 DEF Owners, SessionFifo, OfSession
    <3>2. CASE t = s /\ i \in 1..Len(q)
      <4>1. sessionBarriers'[t][i] = sessionBarriers[s][i] /\ i \in 1..Len(sessionBarriers[s])
        BY <3>2, <1>4, <1>6 DEF q
      <4> QED
        BY <3>2, <4>1, <1>6, <1>9 DEF Owners, SessionFifo, OfSession
    <3>3. CASE t = s /\ i = Len(q) + 1
      BY <3>3, <1>1, <1>4, <1>6
    <3> QED
      BY <3>1, <3>2, <3>3, <1>3, <1>4, <1>6
  <2>2. ASSUME NEW t \in Sessions, NEW i \in 1..Len(sessionBarriers'[t]),
               NEW j \in 1..Len(sessionBarriers'[t]),
               sessionBarriers'[t][i] = sessionBarriers'[t][j]
        PROVE  i = j
    <3>1. CASE t # s
      BY <2>2, <3>1, <1>6 DEF Owners, SessionFifo
    <3>2. CASE t = s
      <4>1. \A k \in 1..Len(r) : k \in 1..Len(q) \/ k = Len(q) + 1
        BY <1>3, <1>4
      <4>2. \A k \in 1..Len(r) : r[k] = b <=> k = Len(q) + 1
        BY <4>1, <1>3, <1>4, <1>9 DEF q
      <4>3. \A k, l \in 1..Len(q) : r[k] = r[l] => k = l
        BY <1>4 DEF Owners, SessionFifo, q
      <4> QED
        BY <2>2, <3>2, <4>1, <4>2, <4>3, <1>6
    <3> QED
      BY <3>1, <3>2
  <2>3. ASSUME NEW c \in Barriers, OfSession(c)'
        PROVE  \E i \in 1..Len(sessionBarriers'[barriers'[c].session]) :
                 sessionBarriers'[barriers'[c].session][i] = c
    <3>1. CASE c = b
      BY <3>1, <1>1, <1>3, <1>4, <1>6
    <3>2. CASE c # b
      <4>1. OfSession(c) /\ barriers'[c].session = barriers[c].session
            /\ barriers[c].session \in Sessions
        BY <2>3, <3>2, <1>6, <1>8 DEF Owners, BarrierShape
      <4>2. PICK i \in 1..Len(sessionBarriers[barriers[c].session]) :
              sessionBarriers[barriers[c].session][i] = c
        BY <4>1 DEF Owners, SessionFifo
      <4>3. CASE barriers[c].session # s
        BY <4>1, <4>2, <4>3, <1>6
      <4>4. CASE barriers[c].session = s
        <5>1. i \in 1..Len(q) /\ q[i] = c
          BY <4>2, <4>4 DEF q
        <5> QED
          BY <5>1, <4>1, <4>4, <1>3, <1>4, <1>6
      <4> QED
        BY <4>3, <4>4
    <3> QED
      BY <3>1, <3>2
  <2> QED
    BY <2>1, <2>2, <2>3 DEF SessionFifo, OfSession
<1>11. GlobalFifo' /\ GlobalAlone'
  <2>1. \A c \in Barriers : ~OfAll(c)
    BY <1>2 DEF Owners, GlobalFifo
  <2>2. \A c \in Barriers : ~OfAll(c)'
    BY <2>1, <1>8
  <2> QED
    BY <1>2, <2>2 DEF GlobalFifo, GlobalAlone
<1> QED
  BY <1>5, <1>7, <1>10, <1>11 DEF Owners

\* A new global reset joins the end of the global FIFO.
LEMMA NewGlobalBarrier ==
  ASSUME TypeOK, Owners, NEW b \in Barriers, BeginGlobalReset(b)
  PROVE  TypeOK' /\ Owners'
<1> DEFINE new == [NoBarrier EXCEPT !.kind = "global_reset", !.stage = "queued"]
           q == globalBarriers
           r == Append(globalBarriers, b)
<1>1. /\ new \in Barrier
      /\ new.kind = "global_reset" /\ new.session = NoSession
      /\ new.stage = "queued" /\ new.joined = "none"
  BY DEF NoBarrier, Barrier
<1> HIDE DEF new
<1>2. /\ barriers[b].kind = "none" /\ barriers[b].stage = "idle"
      /\ barriers' = [barriers EXCEPT ![b] = new]
      /\ globalBarriers' = r
      /\ UNCHANGED <<queueVars, durable, drainVars, sessionBarriers, quarantineVars>>
  BY DEF BeginGlobalReset, NoBarrier, new
<1>3. q \in Seq(Barriers) /\ Len(q) \in Nat
  BY DEF TypeOK
<1>4. /\ r \in Seq(Barriers) /\ Len(r) = Len(q) + 1 /\ r[Len(q) + 1] = b
      /\ \A i \in 1..Len(q) : r[i] = q[i]
  BY <1>3
<1>5. TypeOK'
  BY <1>1, <1>2, <1>4 DEF TypeOK, queueVars, drainVars, quarantineVars
<1>6. /\ barriers'[b] = new
      /\ \A c \in Barriers \ {b} : barriers'[c] = barriers[c]
      /\ globalBarriers' = r
      /\ sessionBarriers' = sessionBarriers
  BY <1>2, <1>3, <1>4 DEF TypeOK
<1> HIDE DEF r
<1>7. BarrierShape'
  BY <1>1, <1>6 DEF Owners, BarrierShape, OfSession, OfAll
<1>8. \A s \in Sessions : \A i \in 1..Len(sessionBarriers[s]) :
        sessionBarriers[s][i] \in Barriers \ {b}
  BY <1>2 DEF Owners, SessionFifo, OfSession, TypeOK
<1>9. \A i \in 1..Len(q) : q[i] \in Barriers \ {b}
  BY <1>2 DEF Owners, GlobalFifo, OfAll, TypeOK
<1>10. \A c \in Barriers \ {b} : (OfSession(c)' <=> OfSession(c)) /\ (OfAll(c)' <=> OfAll(c))
  BY <1>6 DEF OfSession, OfAll
<1>11. SessionFifo'
  <2>1. \A s \in Sessions : \A i \in 1..Len(sessionBarriers[s]) :
          /\ barriers'[sessionBarriers[s][i]].kind \in {"reset", "eviction"}
          /\ barriers'[sessionBarriers[s][i]].session = s
          /\ i # 1 => barriers'[sessionBarriers[s][i]].stage = "queued"
    BY <1>6, <1>8 DEF Owners, SessionFifo, OfSession
  <2>2. \A c \in Barriers : OfSession(c)' => c # b /\ OfSession(c)
    BY <1>1, <1>6 DEF OfSession
  <2> QED
    BY <1>6, <2>1, <2>2 DEF Owners, SessionFifo, OfSession
<1>12. GlobalFifo'
  <2>1. ASSUME NEW i \in 1..Len(r)
        PROVE  /\ barriers'[r[i]].kind = "global_reset"
               /\ i # 1 => barriers'[r[i]].stage = "queued"
    <3>1. CASE i \in 1..Len(q)
      BY <3>1, <1>4, <1>6, <1>9 DEF Owners, GlobalFifo, OfAll
    <3>2. CASE i = Len(q) + 1
      BY <3>2, <1>1, <1>4, <1>6
    <3> QED
      BY <3>1, <3>2, <1>3, <1>4
  <2>2. \A i, j \in 1..Len(r) : r[i] = r[j] => i = j
    <3>1. \A k \in 1..Len(r) : k \in 1..Len(q) \/ k = Len(q) + 1
      BY <1>3, <1>4
    <3>2. \A k \in 1..Len(r) : r[k] = b <=> k = Len(q) + 1
      BY <3>1, <1>3, <1>4, <1>9
    <3>3. \A k, l \in 1..Len(q) : r[k] = r[l] => k = l
      BY <1>4 DEF Owners, GlobalFifo
    <3> QED
      BY <3>1, <3>2, <3>3
  <2>3. ASSUME NEW c \in Barriers, OfAll(c)'
        PROVE  \E i \in 1..Len(r) : r[i] = c
    <3>1. CASE c = b
      BY <3>1, <1>3, <1>4
    <3>2. CASE c # b
      <4>1. PICK i \in 1..Len(q) : q[i] = c
        BY <2>3, <3>2, <1>10 DEF Owners, GlobalFifo
      <4> QED
        BY <4>1, <1>3, <1>4
    <3> QED
      BY <3>1, <3>2
  <2> QED
    BY <1>6, <2>1, <2>2, <2>3 DEF GlobalFifo, OfAll
<1>13. GlobalAlone'
  BY <1>1, <1>6, <1>10 DEF Owners, GlobalAlone
<1> QED
  BY <1>5, <1>7, <1>11, <1>12, <1>13 DEF Owners

\* A session barrier that ends leaves the head of its FIFO to the next one.
LEMMA SessionReleased ==
  ASSUME TypeOK, Owners, NEW b \in Barriers, OfSession(b), barriers[b].stage # "queued",
         ReleaseSession(b)
  PROVE  /\ barriers' \in [Barriers -> Barrier]
         /\ sessionBarriers' \in [Sessions -> Seq(Barriers)]
         /\ globalBarriers' \in Seq(Barriers)
         /\ barriers'[b] = NoBarrier
         /\ \A c \in Barriers \ {b} : barriers'[c] = barriers[c]
         /\ Owners'
<1> DEFINE s == barriers[b].session
           q == sessionBarriers[barriers[b].session]
           r == Tail(sessionBarriers[barriers[b].session])
<1>1. /\ s \in Sessions /\ q \in Seq(Barriers) /\ q # <<>>
      /\ Len(q) \in Nat \ {0} /\ q[1] = b
  BY SessionHead
<1>2. /\ r \in Seq(Barriers) /\ Len(r) = Len(q) - 1
      /\ \A i \in 1..Len(r) : r[i] = q[i + 1] /\ i + 1 \in 1..Len(q)
  BY <1>1
<1>3. /\ barriers' = [barriers EXCEPT ![b] = NoBarrier]
      /\ sessionBarriers' = [sessionBarriers EXCEPT ![s] = r]
      /\ globalBarriers' = globalBarriers
  BY DEF ReleaseSession
<1>4. NoBarrier \in Barrier /\ NoBarrier.kind = "none" /\ NoBarrier.stage = "idle"
  BY DEF NoBarrier, Barrier
<1>5. /\ barriers' \in [Barriers -> Barrier]
      /\ sessionBarriers' \in [Sessions -> Seq(Barriers)]
      /\ barriers'[b] = NoBarrier
      /\ \A c \in Barriers \ {b} : barriers'[c] = barriers[c]
      /\ sessionBarriers'[s] = r
      /\ \A t \in Sessions \ {s} : sessionBarriers'[t] = sessionBarriers[t]
  BY <1>1, <1>2, <1>3, <1>4 DEF TypeOK
<1>6. globalBarriers' \in Seq(Barriers)
  BY <1>3 DEF TypeOK
<1>7. BarrierShape'
  BY <1>4, <1>5 DEF Owners, BarrierShape, OfSession, OfAll
<1>8. /\ \A t \in Sessions \ {s} : \A i \in 1..Len(sessionBarriers[t]) :
           sessionBarriers[t][i] \in Barriers \ {b}
      /\ \A i \in 1..Len(r) : r[i] \in Barriers \ {b}
  <2>1. \A t \in Sessions \ {s} : \A i \in 1..Len(sessionBarriers[t]) :
          sessionBarriers[t][i] \in Barriers \ {b}
    BY DEF Owners, SessionFifo, TypeOK
  <2>2. ASSUME NEW i \in 1..Len(r) PROVE r[i] \in Barriers \ {b}
    <3>1. r[i] = q[i + 1] /\ i + 1 \in 1..Len(q) /\ i + 1 # 1 /\ 1 \in 1..Len(q)
      BY <1>1, <1>2
    <3>2. q[i + 1] # q[1]
      BY <1>1, <3>1 DEF Owners, SessionFifo
    <3> QED
      BY <1>1, <3>1, <3>2
  <2> QED
    BY <2>1, <2>2
<1> HIDE DEF r
<1>9. \A c \in Barriers \ {b} : (OfSession(c)' <=> OfSession(c)) /\ (OfAll(c)' <=> OfAll(c))
  BY <1>5 DEF OfSession, OfAll
<1>10. ~OfSession(b)' /\ ~OfAll(b)'
  BY <1>4, <1>5 DEF OfSession, OfAll
<1>11. SessionFifo'
  <2>1. ASSUME NEW t \in Sessions, NEW i \in 1..Len(sessionBarriers'[t])
        PROVE  /\ barriers'[sessionBarriers'[t][i]].kind \in {"reset", "eviction"}
               /\ barriers'[sessionBarriers'[t][i]].session = t
               /\ i # 1 => barriers'[sessionBarriers'[t][i]].stage = "queued"
    <3>1. CASE t # s
      BY <3>1, <1>5, <1>8 DEF Owners, SessionFifo, OfSession
    <3>2. CASE t = s
      <4>1. i \in 1..Len(r) /\ sessionBarriers'[t][i] = r[i]
        BY <3>2, <1>5
      <4>2. r[i] = q[i + 1] /\ i + 1 \in 1..Len(q) /\ i + 1 # 1
        BY <4>1, <1>2
      <4>3. /\ barriers[q[i + 1]].kind \in {"reset", "eviction"}
            /\ barriers[q[i + 1]].session = s
            /\ barriers[q[i + 1]].stage = "queued"
        BY <1>1, <4>2 DEF Owners, SessionFifo, OfSession
      <4> QED
        BY <3>2, <4>1, <4>2, <4>3, <1>5, <1>8
    <3> QED
      BY <3>1, <3>2
  <2>2. ASSUME NEW t \in Sessions, NEW i \in 1..Len(sessionBarriers'[t]),
               NEW j \in 1..Len(sessionBarriers'[t]),
               sessionBarriers'[t][i] = sessionBarriers'[t][j]
        PROVE  i = j
    <3>1. CASE t # s
      BY <2>2, <3>1, <1>5 DEF Owners, SessionFifo
    <3>2. CASE t = s
      <4>1. i \in 1..Len(r) /\ j \in 1..Len(r) /\ r[i] = r[j]
        BY <2>2, <3>2, <1>5
      <4>2. q[i + 1] = q[j + 1] /\ i + 1 \in 1..Len(q) /\ j + 1 \in 1..Len(q)
        BY <4>1, <1>2
      <4>3. i + 1 = j + 1
        BY <1>1, <4>2 DEF Owners, SessionFifo
      <4> QED
        BY <4>1, <4>3, <1>2
    <3> QED
      BY <3>1, <3>2
  <2>3. ASSUME NEW c \in Barriers, OfSession(c)'
        PROVE  \E i \in 1..Len(sessionBarriers'[barriers'[c].session]) :
                 sessionBarriers'[barriers'[c].session][i] = c
    <3>1. c # b /\ OfSession(c) /\ barriers'[c] = barriers[c]
      BY <2>3, <1>5, <1>9, <1>10
    <3>2. barriers[c].session \in Sessions
      BY <3>1 DEF Owners, BarrierShape
    <3>3. PICK i \in 1..Len(sessionBarriers[barriers[c].session]) :
            sessionBarriers[barriers[c].session][i] = c
      BY <3>1 DEF Owners, SessionFifo
    <3>4. CASE barriers[c].session # s
      BY <3>1, <3>2, <3>3, <3>4, <1>5
    <3>5. CASE barriers[c].session = s
      <4>1. i \in 1..Len(q) /\ q[i] = c
        BY <3>3, <3>5
      <4>2. i - 1 \in 1..Len(r) /\ (i - 1) + 1 = i
        BY <4>1, <3>1, <1>1, <1>2
      <4>3. r[i - 1] = c
        BY <4>1, <4>2, <1>2
      <4> QED
        BY <4>2, <4>3, <3>1, <3>5, <1>5
    <3> QED
      BY <3>4, <3>5
  <2> QED
    BY <2>1, <2>2, <2>3 DEF SessionFifo, OfSession
<1>12. GlobalFifo'
  <2>1. \A i \in 1..Len(globalBarriers) : globalBarriers[i] \in Barriers \ {b}
    BY DEF Owners, GlobalFifo, OfAll, OfSession, TypeOK
  <2>2. \A c \in Barriers : OfAll(c)' => c # b /\ OfAll(c)
    BY <1>9, <1>10
  <2> QED
    BY <1>3, <1>5, <2>1, <2>2 DEF Owners, GlobalFifo, OfAll
<1>13. GlobalAlone'
  <2>1. ASSUME NEW c \in Barriers, OfAll(c)', barriers'[c].stage # "queued"
        PROVE  FALSE
    <3>1. c # b /\ OfAll(c) /\ barriers[c].stage # "queued"
      BY <2>1, <1>5, <1>9, <1>10
    <3> QED
      BY <3>1, <1>1 DEF Owners, GlobalAlone
  <2> QED
    BY <2>1 DEF GlobalAlone
<1> QED
  BY <1>5, <1>6, <1>7, <1>11, <1>12, <1>13 DEF Owners

\* So does a global reset.
LEMMA GlobalReleased ==
  ASSUME TypeOK, Owners, NEW b \in Barriers, OfAll(b), barriers[b].stage # "queued",
         ReleaseGlobal(b)
  PROVE  /\ barriers' \in [Barriers -> Barrier]
         /\ sessionBarriers' = sessionBarriers
         /\ globalBarriers' \in Seq(Barriers)
         /\ barriers'[b] = NoBarrier
         /\ \A c \in Barriers \ {b} : barriers'[c] = barriers[c]
         /\ Owners'
<1> DEFINE q == globalBarriers
           r == Tail(globalBarriers)
<1>1. q \in Seq(Barriers) /\ q # <<>> /\ Len(q) \in Nat \ {0} /\ q[1] = b
  BY GlobalHead
<1>2. /\ r \in Seq(Barriers) /\ Len(r) = Len(q) - 1
      /\ \A i \in 1..Len(r) : r[i] = q[i + 1] /\ i + 1 \in 1..Len(q)
  BY <1>1
<1>3. /\ barriers' = [barriers EXCEPT ![b] = NoBarrier]
      /\ globalBarriers' = r
      /\ sessionBarriers' = sessionBarriers
  BY DEF ReleaseGlobal
<1>4. NoBarrier \in Barrier /\ NoBarrier.kind = "none" /\ NoBarrier.stage = "idle"
  BY DEF NoBarrier, Barrier
<1>5. /\ barriers' \in [Barriers -> Barrier]
      /\ barriers'[b] = NoBarrier
      /\ \A c \in Barriers \ {b} : barriers'[c] = barriers[c]
  BY <1>3, <1>4 DEF TypeOK
<1>6. globalBarriers' \in Seq(Barriers)
  BY <1>2, <1>3
<1>7. BarrierShape'
  BY <1>4, <1>5 DEF Owners, BarrierShape, OfSession, OfAll
<1>8. \A i \in 1..Len(r) : r[i] \in Barriers \ {b}
  <2> SUFFICES ASSUME NEW i \in 1..Len(r) PROVE r[i] \in Barriers \ {b}
    OBVIOUS
  <2>1. r[i] = q[i + 1] /\ i + 1 \in 1..Len(q) /\ i + 1 # 1 /\ 1 \in 1..Len(q)
    BY <1>1, <1>2
  <2>2. q[i + 1] # q[1]
    BY <2>1 DEF Owners, GlobalFifo
  <2> QED
    BY <1>1, <2>1, <2>2
<1> HIDE DEF r
<1>9. \A c \in Barriers \ {b} : (OfSession(c)' <=> OfSession(c)) /\ (OfAll(c)' <=> OfAll(c))
  BY <1>5 DEF OfSession, OfAll
<1>10. ~OfSession(b)' /\ ~OfAll(b)'
  BY <1>4, <1>5 DEF OfSession, OfAll
<1>11. \A s \in Sessions : sessionBarriers[s] = <<>>
  BY DEF Owners, GlobalAlone
<1>12. SessionFifo'
  <2>1. \A c \in Barriers : OfSession(c)' => c # b /\ OfSession(c)
    BY <1>9, <1>10
  <2>2. \A c \in Barriers : ~OfSession(c)
    BY <1>11, SessionHead
  <2>3. \A s \in Sessions : Len(sessionBarriers[s]) = 0
    BY <1>11
  <2> QED
    BY <1>3, <2>1, <2>2, <2>3 DEF SessionFifo
<1>13. GlobalFifo'
  <2>1. ASSUME NEW i \in 1..Len(r)
        PROVE  /\ barriers'[r[i]].kind = "global_reset"
               /\ barriers'[r[i]].stage = "queued"
    <3>1. r[i] = q[i + 1] /\ i + 1 \in 1..Len(q) /\ i + 1 # 1
      BY <1>2
    <3> QED
      BY <3>1, <1>5, <1>8 DEF Owners, GlobalFifo, OfAll
  <2>2. ASSUME NEW i \in 1..Len(r), NEW j \in 1..Len(r), r[i] = r[j]
        PROVE  i = j
    <3>1. q[i + 1] = q[j + 1] /\ i + 1 \in 1..Len(q) /\ j + 1 \in 1..Len(q)
      BY <2>2, <1>2
    <3>2. i + 1 = j + 1
      BY <3>1 DEF Owners, GlobalFifo
    <3> QED
      BY <3>2, <1>2
  <2>3. ASSUME NEW c \in Barriers, OfAll(c)'
        PROVE  \E i \in 1..Len(r) : r[i] = c
    <3>1. c # b /\ OfAll(c)
      BY <2>3, <1>9, <1>10
    <3>2. PICK i \in 1..Len(q) : q[i] = c
      BY <3>1 DEF Owners, GlobalFifo
    <3>3. i - 1 \in 1..Len(r) /\ (i - 1) + 1 = i
      BY <3>1, <3>2, <1>1, <1>2
    <3> QED
      BY <3>2, <3>3, <1>2
  <2> QED
    BY <1>3, <2>1, <2>2, <2>3 DEF GlobalFifo, OfAll
<1>14. GlobalAlone'
  BY <1>3, <1>11 DEF GlobalAlone
<1> QED
  BY <1>3, <1>5, <1>6, <1>7, <1>12, <1>13, <1>14 DEF Owners

\* A notification leaves the owners as they are.
LEMMA NoticedKeeps ==
  ASSUME TypeOK, Owners, NEW p, Noticed(p), NEW b \in Barriers, barriers'[b] = p[b]
  PROVE  Keeps(b)
<1>1. barriers[b].kind = "none" => barriers'[b] = barriers[b]
  <2> SUFFICES ASSUME barriers[b].kind = "none" PROVE p[b] = barriers[b]
    OBVIOUS
  <2>1. barriers[b].stage = "idle" /\ barriers[b].joined = "none"
    BY DEF Owners, BarrierShape, NoBarrier
  <2>2. /\ p[b].kind = barriers[b].kind /\ p[b].session = barriers[b].session
        /\ p[b].stage = barriers[b].stage /\ p[b].joined = barriers[b].joined
        /\ p[b].selected = barriers[b].selected
    BY <2>1 DEF Noticed
  <2>3. p[b] \in Barrier /\ barriers[b] \in Barrier
    BY DEF Noticed, TypeOK
  <2> QED
    BY <2>2, <2>3 DEF Barrier
<1>2. /\ barriers'[b].kind = barriers[b].kind
      /\ barriers'[b].session = barriers[b].session
      /\ barriers'[b].stage = "queued" => barriers[b].stage = "queued" /\ barriers'[b].joined = "none"
      /\ barriers[b].stage = "queued" => barriers'[b].stage = "queued"
      /\ barriers'[b].joined = "none" => barriers'[b].stage \in {"idle", "queued"}
      /\ barriers'[b].stage = "idle" => barriers[b].kind = "none"
  BY DEF Noticed, Owners, BarrierShape
<1> QED
  BY <1>1, <1>2 DEF Keeps

\* Steps of the queue and of the generation: the owners are only notified.
LEMMA NotifiedOwners ==
  ASSUME TypeOK, Owners, UNCHANGED ownerVars, Noticed(barriers')
  PROVE  barriers' \in [Barriers -> Barrier] /\ Owners'
<1>1. \A b \in Barriers : Keeps(b)
  BY NoticedKeeps
<1> QED
  BY <1>1, SameOwners DEF Noticed

\* The step of one barrier that has begun: the others stay as they are.
LEMMA BegunOwners ==
  ASSUME TypeOK, Owners, UNCHANGED ownerVars, NEW b \in Barriers,
         barriers[b].kind # "none", barriers[b].stage # "queued",
         NEW st, st \in {"waiting", "rejected", "operating", "cleared"},
         barriers' = [barriers EXCEPT ![b].stage = st]
  PROVE  /\ barriers' \in [Barriers -> Barrier]
         /\ \A c \in Barriers \ {b} : barriers'[c] = barriers[c]
         /\ barriers'[b] = [barriers[b] EXCEPT !.stage = st]
         /\ barriers'[b].stage = st
         /\ barriers'[b].kind = barriers[b].kind
         /\ barriers'[b].session = barriers[b].session
         /\ barriers'[b].joined = barriers[b].joined
         /\ barriers'[b].selected = barriers[b].selected
         /\ Owners'
<1>1. barriers \in [Barriers -> Barrier]
  BY DEF TypeOK
<1>2. [barriers[b] EXCEPT !.stage = st] \in Barrier
  BY <1>1 DEF Barrier
<1>3. /\ barriers' \in [Barriers -> Barrier]
      /\ \A c \in Barriers \ {b} : barriers'[c] = barriers[c]
      /\ barriers'[b] = [barriers[b] EXCEPT !.stage = st]
  BY <1>1, <1>2
<1>4. /\ barriers'[b].stage = st
      /\ barriers'[b].kind = barriers[b].kind
      /\ barriers'[b].session = barriers[b].session
      /\ barriers'[b].joined = barriers[b].joined
      /\ barriers'[b].selected = barriers[b].selected
  BY <1>1, <1>3 DEF Barrier
<1>5. Keeps(b)
  BY <1>4 DEF Keeps, Owners, BarrierShape
<1>6. \A c \in Barriers \ {b} : Keeps(c)
  BY <1>3 DEF Keeps, Owners, BarrierShape
<1>7. Owners'
  BY <1>5, <1>6, SameOwners
<1> QED
  BY <1>3, <1>4, <1>7

\* A barrier that starts was the head of its FIFO.
LEMMA StartOwners ==
  ASSUME TypeOK, Owners, UNCHANGED ownerVars, NEW b \in Barriers,
         barriers[b].stage = "queued", barriers[b].kind # "none", AtHead(b),
         NEW p, Noticed(p), \A c \in Barriers \ {b} : barriers'[c] = p[c],
         barriers'[b].kind = barriers[b].kind,
         barriers'[b].session = barriers[b].session,
         barriers'[b].stage \notin {"idle", "queued"},
         barriers'[b].joined # "none"
  PROVE  Owners'
<1>1. \A c \in Barriers \ {b} : Keeps(c)
  BY NoticedKeeps
<1>2. Keeps(b)
  BY DEF Keeps
<1> QED
  BY <1>1, <1>2, SameOwners

\* The types and the owners, for the steps of the queue and of the generation.
LEMMA WorkStructure ==
  ASSUME TypeOK, Owners, Generation, Quiescence,
         \/ \E s \in Sessions : BufferThought(s)
         \/ \E s \in Sessions, k \in Slots : BufferSnapshot(s, k)
         \/ \E mode \in {"explicit", "background"} : RequestDrain(mode)
         \/ Write
  PROVE  TypeOK' /\ Owners'
<1>1. JoinedAreExplicit
  BY DEF Quiescence
<1> USE DEF queueVars, drainVars, quarantineVars
<1>2. ASSUME NEW s \in Sessions, BufferThought(s) PROVE TypeOK' /\ Owners'
  <2> USE <1>2 DEF BufferThought
  <2>1. /\ queue' \in SUBSET Work /\ failed' \in SUBSET queue'
        /\ nextSequence' \in Nat \ {0}
    BY AcceptedIsWork DEF TypeOK
  <2>2. /\ drain' \in Drain \cup {NoDrain} /\ settlement' \in {"pending", "resolved", "rejected"}
        /\ Noticed(barriers')
    <3>1. CASE Cardinality(Thoughts(queue')) >= BufferSize
      <4>1. JoinOrStart("background") /\ barriers' = StartProgressed
        BY <3>1
      <4>2. Noticed(barriers')
        BY <4>1, <2>1, <1>1, StartNoticed
      <4>3. drain' \in Drain \cup {NoDrain} /\ settlement' \in {"pending", "resolved", "rejected"}
        BY <4>1, <2>1, JoinCases DEF TypeOK
      <4> QED
        BY <4>2, <4>3
    <3>2. CASE ~(Cardinality(Thoughts(queue')) >= BufferSize)
      BY <3>2, <1>1 DEF TypeOK, Noticed, JoinedAreExplicit
    <3> QED
      BY <3>1, <3>2
  <2>3. barriers' \in [Barriers -> Barrier] /\ Owners'
    BY <2>2, NotifiedOwners
  <2> QED
    BY <2>1, <2>2, <2>3 DEF TypeOK, ownerVars
<1>3. ASSUME NEW s \in Sessions, NEW k \in Slots, BufferSnapshot(s, k) PROVE TypeOK' /\ Owners'
  <2> USE <1>3 DEF BufferSnapshot
  <2>1. /\ queue' \in SUBSET Work /\ failed' \in SUBSET queue'
        /\ nextSequence' \in Nat \ {0}
    BY AcceptedIsWork DEF TypeOK, Replaced
  <2>2. Owners'
    BY <1>1, NotifiedOwners DEF TypeOK, Noticed, JoinedAreExplicit
  <2> QED
    BY <2>1, <2>2 DEF TypeOK, ownerVars
<1>4. ASSUME NEW mode \in {"explicit", "background"}, RequestDrain(mode) PROVE TypeOK' /\ Owners'
  <2> USE <1>4 DEF RequestDrain
  <2>1. queue' \in SUBSET Work
    BY DEF TypeOK
  <2>2. Noticed(barriers')
    BY <2>1, <1>1, StartNoticed
  <2>3. drain' \in Drain \cup {NoDrain} /\ settlement' \in {"pending", "resolved", "rejected"}
    BY <2>1, JoinCases DEF TypeOK
  <2>4. barriers' \in [Barriers -> Barrier] /\ Owners'
    BY <2>2, NotifiedOwners
  <2> QED
    BY <2>3, <2>4 DEF TypeOK, ownerVars
<1>5. CASE WriteLands
  <2> USE <1>5 DEF WriteLands, Writing
  <2>1. drain \in Drain /\ drain.work \in Work
    BY DEF TypeOK, Drain
  <2>2. durable' \in [Sessions -> [thoughts : Seq(Nat), slots : [Slots -> Nat]]]
    BY <2>1, SavedFacts
  <2>3. drain' \in Drain
    BY <2>1 DEF Drain
  <2>4. Owners'
    BY <2>1, <2>3, NoDrainAssumption, NotifiedOwners DEF TypeOK, Noticed
  <2> QED
    BY <2>2, <2>3, <2>4 DEF TypeOK, ownerVars
<1>6. CASE RetryWrite
  <2> USE <1>6 DEF RetryWrite, Writing
  <2>1. drain \in Drain
    BY DEF TypeOK
  <2>2. drain.attempt + 1 \in 0..MaxRetries
    BY <2>1, ConstantsAssumption DEF Drain
  <2>3. drain' \in Drain
    BY <2>1, <2>2 DEF Drain
  <2>4. Owners'
    BY <2>3, NoDrainAssumption, NotifiedOwners DEF TypeOK, Noticed
  <2> QED
    BY <2>3, <2>4 DEF TypeOK, ownerVars
<1>7. CASE WriteSucceeds \/ WriteFails
  <2>1. /\ drain \in Drain
        /\ drain.mode \in {"explicit", "background"} /\ drain.selected \in SUBSET Work
        /\ drain.work \in Work
    BY <1>7 DEF TypeOK, Drain, WriteSucceeds, WriteFails, Writing
  <2>2. /\ queue' \in SUBSET Work /\ failed' \in SUBSET queue' /\ nextSequence' = nextSequence
    BY <1>7 DEF TypeOK, WriteSucceeds, WriteFails, IsCurrent
  <2>3. Run(drain.mode, drain.selected) /\ barriers' = Progressed
    BY <1>7 DEF WriteSucceeds, WriteFails
  <2>4. drain' \in Drain \cup {NoDrain} /\ settlement' \in {"pending", "resolved", "rejected"}
    BY <2>1, <2>2, <2>3, RunCases
  <2>5. Noticed(barriers')
    BY <2>2, <2>3, <1>1, ProgressedNoticed
  <2>6. UNCHANGED <<durable, ownerVars, quarantineVars>>
    BY <1>7 DEF WriteSucceeds, WriteFails
  <2>7. barriers' \in [Barriers -> Barrier] /\ Owners'
    BY <2>5, <2>6, NotifiedOwners
  <2> QED
    BY <2>2, <2>4, <2>6, <2>7 DEF TypeOK, ownerVars
<1> QED
  BY <1>2, <1>3, <1>4, <1>5, <1>6, <1>7 DEF Write

\* A barrier of one of the kinds that a guard names has begun if its stage says so.
LEMMA BegunBarrier ==
  ASSUME TypeOK, Owners, NEW b \in Barriers,
         barriers[b].stage \in {"waiting", "ready", "draining", "operating", "cleared", "rejected"}
  PROVE  barriers[b].kind # "none" /\ (OfSession(b) \/ OfAll(b)) /\ barriers[b].stage # "queued"
BY DEF Owners, BarrierShape, NoBarrier, TypeOK, Barrier, OfSession, OfAll

\* The types and the owners, for the steps of the barriers.
LEMMA BarrierStructure ==
  ASSUME TypeOK, Owners, Generation, Quiescence, NEW b \in Barriers, Proceed(b)
  PROVE  TypeOK' /\ Owners'
<1>1. JoinedAreExplicit
  BY DEF Quiescence
<1> USE DEF queueVars, drainVars, quarantineVars
<1>2. CASE StartSessionBarrier(b)
  <2>1. PICK p : /\ Noticed(p)
                 /\ barriers' \in [Barriers -> Barrier]
                 /\ \A c \in Barriers \ {b} : barriers'[c] = p[c]
                 /\ barriers'[b].kind = barriers[b].kind
                 /\ barriers'[b].session = barriers[b].session
                 /\ barriers'[b].stage \in {"waiting", "operating", "rejected"}
                 /\ barriers'[b].joined = Joined
    BY <1>1, <1>2, StartSessionFacts
  <2>2. /\ OfSession(b) /\ ~OfAll(b) /\ barriers[b].kind # "none"
        /\ barriers[b].stage = "queued" /\ Head(sessionBarriers[barriers[b].session]) = b
        /\ UNCHANGED ownerVars /\ JoinOrStart("explicit")
        /\ UNCHANGED <<queueVars, durable, quarantineVars>>
    BY <1>2 DEF StartSessionBarrier, OfSession, OfAll
  <2>3. AtHead(b)
    BY <2>2, SessionHead DEF AtHead
  <2>4. Owners'
    BY <2>1, <2>2, <2>3, StartOwners DEF Joined
  <2>5. drain' \in Drain \cup {NoDrain} /\ settlement' \in {"pending", "resolved", "rejected"}
    BY <2>2, JoinCases DEF TypeOK
  <2> QED
    BY <2>1, <2>2, <2>4, <2>5 DEF TypeOK, ownerVars
<1>3. CASE StartGlobalReset(b)
  <2>1. PICK p : /\ Noticed(p)
                 /\ barriers' \in [Barriers -> Barrier]
                 /\ \A c \in Barriers \ {b} : barriers'[c] = p[c]
                 /\ barriers'[b].kind = barriers[b].kind
                 /\ barriers'[b].session = barriers[b].session
                 /\ barriers'[b].stage = "draining"
                 /\ barriers'[b].joined = Joined
    BY <1>1, <1>3, StartGlobalFacts
  <2>2. /\ ~OfSession(b) /\ OfAll(b) /\ barriers[b].kind # "none"
        /\ barriers[b].stage = "queued" /\ Head(globalBarriers) = b
        /\ \A s \in Sessions : sessionBarriers[s] = <<>>
        /\ UNCHANGED ownerVars /\ JoinOrStart("explicit")
        /\ UNCHANGED <<queueVars, durable, quarantineVars>>
    BY <1>3 DEF StartGlobalReset, OfSession, OfAll
  <2>3. AtHead(b)
    BY <2>2, GlobalHead DEF AtHead
  <2>4. Owners'
    BY <2>1, <2>2, <2>3, StartOwners DEF Joined
  <2>5. drain' \in Drain \cup {NoDrain} /\ settlement' \in {"pending", "resolved", "rejected"}
    BY <2>2, JoinCases DEF TypeOK
  <2> QED
    BY <2>1, <2>2, <2>4, <2>5 DEF TypeOK, ownerVars
<1>4. CASE ResumeSessionBarrier(b) \/ GlobalDrained(b) \/ ClearSession(b) \/ ClearAll(b)
  <2>1. /\ barriers[b].kind # "none" /\ barriers[b].stage # "queued"
    BY <1>4, BegunBarrier DEF ResumeSessionBarrier, GlobalDrained, ClearSession, ClearAll
  <2>2. PICK st \in {"waiting", "rejected", "operating", "cleared"} :
          barriers' = [barriers EXCEPT ![b].stage = st]
    BY <1>4 DEF ResumeSessionBarrier, GlobalDrained, ClearSession, ClearAll, NextStage
  <2>3. UNCHANGED <<queueVars, drainVars, ownerVars, quarantineVars>>
    BY <1>4 DEF ResumeSessionBarrier, GlobalDrained, ClearSession, ClearAll
  <2>4. barriers' \in [Barriers -> Barrier] /\ Owners'
    BY <2>1, <2>2, <2>3, BegunOwners
  <2>5. durable' \in [Sessions -> [thoughts : Seq(Nat), slots : [Slots -> Nat]]]
    <3>1. Nothing \in [thoughts : Seq(Nat), slots : [Slots -> Nat]]
      BY DEF Nothing
    <3> QED
      BY <1>4, <3>1 DEF ResumeSessionBarrier, GlobalDrained, ClearSession, ClearAll, TypeOK
  <2> QED
    BY <2>3, <2>4, <2>5 DEF TypeOK, ownerVars
<1>5. CASE CommitSessionReset(b) \/ FailSessionReset(b) \/ \E ok \in BOOLEAN : FinishEviction(b, ok)
  <2>1. /\ OfSession(b) /\ barriers[b].stage # "queued" /\ ReleaseSession(b)
        /\ UNCHANGED <<nextSequence, durable, drainVars, globalQuarantined>>
    BY <1>5 DEF CommitSessionReset, FailSessionReset, FinishEviction, OfSession
  <2>2. barriers[b].session \in Sessions
    BY <2>1, SessionHead
  <2>3. /\ queue' \in SUBSET Work /\ failed' \in SUBSET queue'
        /\ quarantined' \in SUBSET Sessions /\ evictionQuarantined' \in SUBSET Sessions
    BY <1>5, <2>2 DEF CommitSessionReset, FailSessionReset, FinishEviction, Discarded, TypeOK
  <2> QED
    BY <2>1, <2>3, SessionReleased DEF TypeOK
<1>6. CASE CommitGlobalReset(b) \/ FailGlobalReset(b)
  <2>1. /\ OfAll(b) /\ barriers[b].stage # "queued" /\ ReleaseGlobal(b)
        /\ UNCHANGED <<nextSequence, durable, drainVars>>
    BY <1>6 DEF CommitGlobalReset, FailGlobalReset, OfAll
  <2>2. /\ queue' \in SUBSET Work /\ failed' \in SUBSET queue'
        /\ quarantined' \in SUBSET Sessions /\ evictionQuarantined' \in SUBSET Sessions
        /\ globalQuarantined' \in BOOLEAN
    BY <1>6 DEF CommitGlobalReset, FailGlobalReset, TypeOK
  <2> QED
    BY <2>1, <2>2, GlobalReleased DEF TypeOK
<1> QED
  BY <1>2, <1>3, <1>4, <1>5, <1>6 DEF Proceed

-----------------------------------------------------------------------------
(* What the generation remembers.                                          *)

\* A step of the generation over queue' and failed', when tokens stay fresh and
\* what it selected before is either still unsettled no more or has failed.
LEMMA GenerationRuns ==
  ASSUME TypeOK, queue' \in SUBSET Work, NEW mode \in {"explicit", "background"},
         NEW selected \in SUBSET Work, Run(mode, selected),
         \A w \in queue' : w.token < nextSequence',
         \A v, w \in queue' : v.token = w.token => v = w,
         \A v, w \in queue' :
           v.session = w.session /\ v.slot = w.slot /\ v.slot # "thought" => v = w,
         selected \cap queue' \subseteq failed'
  PROVE  Generation'
<1>1. CASE drain' = NoDrain /\ settlement' \in {"resolved", "rejected"}
  BY <1>1 DEF Generation, TokensFresh, GenerationRemembers
<1>2. CASE /\ drain' # NoDrain
           /\ drain'.work \in Eligible(mode, selected, queue', failed')
           /\ drain'.selected = (selected \cap queue') \cup {drain'.work}
           /\ settlement' = "pending"
  <2>1. drain'.work \in queue'
    BY <1>2 DEF Eligible
  <2> QED
    BY <1>2, <2>1 DEF Generation, TokensFresh, GenerationRemembers
<1> QED
  BY <1>1, <1>2, RunCases

\* The queue changed, and the generation under way still fits it.
Fits ==
  /\ queue' \in SUBSET Work
  /\ \A w \in queue' : w.token < nextSequence'
  /\ \A v, w \in queue' : v.token = w.token => v = w
  /\ \A v, w \in queue' :
       v.session = w.session /\ v.slot = w.slot /\ v.slot # "thought" => v = w
  /\ drain # NoDrain =>
       /\ \A w \in drain.selected : w.token < nextSequence'
       /\ \A w \in queue' : w.token = drain.work.token => w = drain.work
       /\ \A w \in drain.selected \cap queue' : w = drain.work \/ w \in failed'

LEMMA GenerationStays ==
  ASSUME Generation, Fits, UNCHANGED drainVars
  PROVE  Generation'
BY DEF Generation, TokensFresh, GenerationRemembers, Fits, drainVars

LEMMA GenerationJoins ==
  ASSUME TypeOK, Generation, Fits, NEW mode \in {"explicit", "background"}, JoinOrStart(mode)
  PROVE  Generation'
<1>1. CASE drain # NoDrain
  BY <1>1, JoinCases DEF Generation, TokensFresh, GenerationRemembers, Fits
<1>2. CASE drain = NoDrain
  <2>1. Run(mode, {}) /\ {} \in SUBSET Work /\ {} \cap queue' \subseteq failed'
    BY <1>2 DEF JoinOrStart
  <2> QED
    BY <2>1, GenerationRuns DEF Fits
<1> QED
  BY <1>1, <1>2

\* A shorter queue, of whose entries as many have failed, still fits.
LEMMA ShorterFits ==
  ASSUME TypeOK, Generation, queue' \subseteq queue, failed \cap queue' \subseteq failed',
         nextSequence' = nextSequence
  PROVE  Fits
BY DEF Fits, Generation, TokensFresh, GenerationRemembers, TypeOK, Drain

LEMMA GenerationStep ==
  ASSUME TypeOK, Owners, Generation, Quiescence, [Next]_vars
  PROVE  Generation'
<1> USE DEF queueVars, drainVars
<1>1. ASSUME NEW s \in Sessions, NEW k \in Slots \cup {"thought"},
             queue' \in SUBSET (queue \cup {Accepted(s, k)}),
             \A w \in queue' : w.slot # "thought" /\ w.session = s /\ w.slot = k => w = Accepted(s, k),
             failed \cap queue' \subseteq failed', nextSequence' = nextSequence + 1
      PROVE  Fits
  <2> DEFINE a == Accepted(s, k)
  <2>1. /\ a \in Work /\ a.token = nextSequence /\ a.session = s /\ a.slot = k
        /\ nextSequence \in Nat /\ queue \in SUBSET Work
    BY AcceptedIsWork DEF TypeOK
  <2>2. /\ \A w \in queue : w.token < nextSequence /\ w.token \in Nat
        /\ drain # NoDrain => \A w \in drain.selected : w.token < nextSequence /\ w.token \in Nat
    BY <2>1 DEF Generation, TokensFresh, Work, TypeOK, Drain
  <2> HIDE DEF a
  <2>3. queue' \in SUBSET Work /\ \A w \in queue' : w.token < nextSequence'
    BY <1>1, <2>1, <2>2 DEF a
  <2>4. \A v, w \in queue' : v.token = w.token => v = w
    BY <1>1, <2>1, <2>2 DEF Generation, TokensFresh, a
  <2>5. \A v, w \in queue' :
          v.session = w.session /\ v.slot = w.slot /\ v.slot # "thought" => v = w
    BY <1>1, <2>1 DEF Generation, TokensFresh, a
  <2>6. ASSUME drain # NoDrain
        PROVE  /\ \A w \in drain.selected : w.token < nextSequence'
               /\ \A w \in queue' : w.token = drain.work.token => w = drain.work
               /\ \A w \in drain.selected \cap queue' : w = drain.work \/ w \in failed'
    <3>1. drain.work \in drain.selected
      BY <2>6 DEF Generation, GenerationRemembers
    <3>2. a \notin drain.selected
      BY <2>1, <2>2, <2>6
    <3>3. \A w \in queue' : w \in queue \/ w = a
      BY <1>1 DEF a
    <3>4. \A w \in drain.selected : w.token < nextSequence'
      BY <1>1, <2>1, <2>2, <2>6
    <3>5. \A w \in queue' : w.token = drain.work.token => w = drain.work
      BY <2>1, <2>2, <2>6, <3>1, <3>3 DEF Generation, TokensFresh
    <3>6. \A w \in drain.selected \cap queue' : w = drain.work \/ w \in failed'
      BY <1>1, <2>6, <3>2, <3>3 DEF Generation, GenerationRemembers
    <3> QED
      BY <3>4, <3>5, <3>6
  <2> QED
    BY <2>3, <2>4, <2>5, <2>6 DEF Fits
<1>2. ASSUME NEW s \in Sessions, BufferThought(s) PROVE Generation'
  <2>1. /\ queue' = queue \cup {Accepted(s, "thought")} /\ failed' = failed
        /\ nextSequence' = nextSequence + 1
    BY <1>2 DEF BufferThought
  <2>2. \A w \in queue' : w.slot = "thought" /\ w.session = s => w.slot = "thought"
    OBVIOUS
  <2>3. Fits
    BY <1>1, <2>1
  <2>4. JoinOrStart("background") \/ UNCHANGED drainVars
    BY <1>2 DEF BufferThought
  <2> QED
    BY <2>3, <2>4, GenerationStays, GenerationJoins
<1>3. ASSUME NEW s \in Sessions, NEW k \in Slots, BufferSnapshot(s, k) PROVE Generation'
  <2>1. /\ queue' = Replaced(s, k) /\ failed' = failed \cap queue'
        /\ nextSequence' = nextSequence + 1 /\ UNCHANGED drainVars
    BY <1>3 DEF BufferSnapshot
  <2>2. Fits
    BY <1>1, <2>1 DEF Replaced
  <2> QED
    BY <2>1, <2>2, GenerationStays
<1>4. ASSUME NEW mode \in {"explicit", "background"}, RequestDrain(mode) PROVE Generation'
  <2>1. Fits
    BY <1>4, ShorterFits DEF RequestDrain
  <2> QED
    BY <1>4, <2>1, GenerationJoins DEF RequestDrain
<1>5. CASE WriteLands \/ RetryWrite
  <2>1. /\ drain \in Drain /\ drain' \in Drain /\ drain # NoDrain /\ drain' # NoDrain
        /\ drain'.work = drain.work /\ drain'.selected = drain.selected
        /\ settlement' = settlement /\ UNCHANGED queueVars
    <3>1. drain \in Drain /\ drain # NoDrain
      BY <1>5 DEF WriteLands, RetryWrite, Writing, TypeOK
    <3>2. CASE WriteLands
      BY <3>1, <3>2, NoDrainAssumption DEF WriteLands, Drain
    <3>3. CASE RetryWrite
      <4>1. drain.attempt + 1 \in 0..MaxRetries
        BY <3>1, <3>3, ConstantsAssumption DEF RetryWrite, Drain
      <4> QED
        BY <3>1, <3>3, <4>1, NoDrainAssumption DEF RetryWrite, Drain
    <3> QED
      BY <1>5, <3>1, <3>2, <3>3 DEF WriteLands, RetryWrite
  <2> QED
    BY <2>1 DEF Generation, TokensFresh, GenerationRemembers
<1>6. CASE WriteSucceeds \/ WriteFails
  <2>1. /\ drain \in Drain /\ drain # NoDrain
        /\ drain.mode \in {"explicit", "background"} /\ drain.selected \in SUBSET Work
    BY <1>6 DEF TypeOK, Drain, WriteSucceeds, WriteFails, Writing
  <2>2. /\ queue' \subseteq queue /\ nextSequence' = nextSequence
        /\ failed \cap queue' \subseteq failed'
        /\ drain.work \notin queue' \/ drain.work \in failed'
    BY <1>6 DEF WriteSucceeds, WriteFails, IsCurrent, TypeOK
  <2>3. Fits
    BY <2>2, ShorterFits
  <2>4. drain.selected \cap queue' \subseteq failed'
    BY <2>1, <2>2, <2>3 DEF Fits
  <2>5. Run(drain.mode, drain.selected)
    BY <1>6 DEF WriteSucceeds, WriteFails
  <2> QED
    BY <2>1, <2>3, <2>4, <2>5, GenerationRuns DEF Fits
<1>7. ASSUME NEW b \in Barriers, StartSessionBarrier(b) \/ StartGlobalReset(b) PROVE Generation'
  <2>1. UNCHANGED queueVars /\ JoinOrStart("explicit")
    BY <1>7 DEF StartSessionBarrier, StartGlobalReset
  <2>2. Fits
    BY <2>1, ShorterFits
  <2> QED
    BY <2>1, <2>2, GenerationJoins
<1>8. ASSUME NEW b \in Barriers,
             \/ \E s \in Sessions, kind \in {"reset", "eviction"} : BeginSessionBarrier(b, s, kind)
             \/ BeginGlobalReset(b)
             \/ ResumeSessionBarrier(b) \/ GlobalDrained(b) \/ ClearSession(b) \/ ClearAll(b)
             \/ CommitSessionReset(b) \/ FailSessionReset(b)
             \/ \E ok \in BOOLEAN : FinishEviction(b, ok)
             \/ CommitGlobalReset(b) \/ FailGlobalReset(b)
      PROVE  Generation'
  <2>1. /\ queue' \subseteq queue /\ failed \cap queue' \subseteq failed'
        /\ nextSequence' = nextSequence /\ UNCHANGED drainVars
    BY <1>8 DEF BeginSessionBarrier, BeginGlobalReset, ResumeSessionBarrier, GlobalDrained,
                ClearSession, ClearAll, CommitSessionReset, FailSessionReset, FinishEviction,
                CommitGlobalReset, FailGlobalReset, Discarded
  <2> QED
    BY <2>1, ShorterFits, GenerationStays
<1>9. CASE UNCHANGED vars
  BY <1>9, ShorterFits, GenerationStays DEF vars
<1> QED
  BY <1>2, <1>3, <1>4, <1>5, <1>6, <1>7, <1>8, <1>9 DEF Next, Write, Proceed

-----------------------------------------------------------------------------
(* The quiescence that a barrier waits for.                                *)

\* What a step may do to a session that is held by a barrier: its work is settled,
\* none is added, and the generation goes on to work that was queued before.
Held(s) ==
  /\ WorkOf(queue', s) \subseteq WorkOf(queue, s)
  /\ WorkOf(failed, s) \cap queue' \subseteq failed'
  /\ \/ drain' = NoDrain
     \/ drain'.work \in queue'
     \/ /\ drain # NoDrain
        /\ drain'.work = drain.work
        /\ drain.work.session = s /\ drain.work \in failed => drain.work \in failed'

LEMMA QuietStays ==
  ASSUME TypeOK, NEW s \in Sessions, Quiet(s), Held(s)
  PROVE  Quiet(s)'
BY DEF Quiet, Held, WorkOf, TypeOK

\* Joining a generation, or starting one, goes on to queued work.
LEMMA JoinHolds ==
  ASSUME TypeOK, queue' \in SUBSET Work, NEW mode \in {"explicit", "background"},
         JoinOrStart(mode)
  PROVE  \/ drain' = NoDrain
         \/ drain'.work \in queue'
         \/ drain # NoDrain /\ drain'.work = drain.work
BY JoinCases DEF Eligible

\* Of two barriers that have begun, none is global and they are for two sessions.
LEMMA BegunAreApart ==
  ASSUME TypeOK, Owners, NEW b \in Barriers, NEW c \in Barriers, b # c, OfSession(b),
         barriers[b].stage # "queued", barriers[c].stage # "queued",
         OfSession(c) \/ OfAll(c)
  PROVE  OfSession(c) /\ barriers[c].session # barriers[b].session
<1>1. ~OfAll(c)
  BY SessionHead DEF Owners, GlobalAlone
<1> QED
  BY <1>1, SessionHead

\* Whatever happens, a session with a barrier that has begun is held.
LEMMA SessionsHeld ==
  ASSUME TypeOK, Owners, Generation, Quiescence, [Next]_vars,
         NEW b \in Barriers, OfSession(b), OfSession(b)', barriers[b].stage # "queued",
         NEW s \in Sessions, barriers[b].session = s
  PROVE  Held(s)
<1> USE DEF queueVars, drainVars
<1>2. ASSUME NEW t \in Sessions, AdmissionOpen(t) PROVE t # s
  BY <1>2, AdmissionFindsNoBarrier
<1>3. ASSUME NEW t \in Sessions, BufferThought(t) PROVE Held(s)
  <2>1. /\ t # s
        /\ queue' = queue \cup {Accepted(t, "thought")} /\ failed' = failed
        /\ JoinOrStart("background") \/ UNCHANGED drainVars
    BY <1>2, <1>3 DEF BufferThought
  <2>2. queue' \in SUBSET Work /\ Accepted(t, "thought").session = t
    BY <2>1, AcceptedIsWork DEF TypeOK
  <2>3. WorkOf(queue', s) = WorkOf(queue, s)
    BY <2>1, <2>2 DEF WorkOf
  <2>4. drain' = NoDrain \/ drain'.work \in queue' \/ (drain # NoDrain /\ drain'.work = drain.work)
    BY <2>1, <2>2, JoinHolds
  <2> QED
    BY <2>1, <2>3, <2>4 DEF Held, WorkOf
<1>4. ASSUME NEW t \in Sessions, NEW k \in Slots, BufferSnapshot(t, k) PROVE Held(s)
  <2>1. /\ t # s
        /\ queue' = Replaced(t, k) /\ failed' = failed \cap queue' /\ UNCHANGED drainVars
    BY <1>2, <1>4 DEF BufferSnapshot
  <2>2. Accepted(t, k).session = t
    BY AcceptedIsWork
  <2>3. WorkOf(queue', s) = WorkOf(queue, s)
    BY <2>1, <2>2 DEF WorkOf, Replaced
  <2>4. \A w \in failed : w.session = s => w \in queue'
    BY <2>1 DEF Replaced, TypeOK
  <2> QED
    BY <2>1, <2>3, <2>4 DEF Held, WorkOf
<1>5. ASSUME NEW mode \in {"explicit", "background"}, JoinOrStart(mode), UNCHANGED queueVars
      PROVE  Held(s)
  BY <1>5, JoinHolds DEF Held, WorkOf, TypeOK
<1>6. CASE WriteLands \/ RetryWrite
  <2>1. drain # NoDrain /\ drain'.work = drain.work /\ UNCHANGED queueVars
    BY <1>6 DEF WriteLands, RetryWrite, Writing, TypeOK, Drain
  <2> QED
    BY <2>1 DEF Held, WorkOf
<1>7. CASE WriteSucceeds \/ WriteFails
  <2>1. /\ drain.mode \in {"explicit", "background"} /\ drain.selected \in SUBSET Work
    BY <1>7 DEF TypeOK, Drain, WriteSucceeds, WriteFails, Writing
  <2>2. /\ queue' \subseteq queue /\ queue' \in SUBSET Work
        /\ failed \cap queue' \subseteq failed'
    BY <1>7 DEF WriteSucceeds, WriteFails, IsCurrent, TypeOK
  <2>3. Run(drain.mode, drain.selected)
    BY <1>7 DEF WriteSucceeds, WriteFails
  <2>4. drain' = NoDrain \/ drain'.work \in queue'
    BY <2>1, <2>2, <2>3, RunCases DEF Eligible
  <2> QED
    BY <2>2, <2>4 DEF Held, WorkOf
<1>8. ASSUME UNCHANGED queueVars, UNCHANGED drainVars PROVE Held(s)
  BY <1>8 DEF Held, WorkOf
<1>9. ASSUME NEW c \in Barriers, CommitSessionReset(c) PROVE Held(s)
  <2>1. /\ OfSession(c) /\ barriers[c].stage = "cleared" /\ ReleaseSession(c)
        /\ queue' = Discarded(barriers[c].session) /\ failed' = failed \cap queue'
        /\ UNCHANGED drainVars
    BY <1>9 DEF CommitSessionReset, OfSession
  <2>2. ~OfSession(c)'
    BY <2>1, SessionReleased DEF OfSession, NoBarrier
  <2>3. c # b
    BY <2>2
  <2>4. barriers[c].session # s
    BY <2>1, <2>3, BegunAreApart
  <2>5. \A w \in queue : w.session = s => w \in queue'
    BY <2>1, <2>4 DEF Discarded
  <2>6. queue' \subseteq queue /\ failed \subseteq queue
    BY <2>1 DEF Discarded, TypeOK
  <2> QED
    BY <2>1, <2>5, <2>6 DEF Held, WorkOf
<1>10. ASSUME NEW c \in Barriers, CommitGlobalReset(c) PROVE FALSE
  <2>1. OfAll(c) /\ barriers[c].stage # "queued"
    BY <1>10 DEF CommitGlobalReset, OfAll
  <2>2. ~OfSession(c)
    BY <2>1 DEF OfAll, OfSession
  <2> QED
    BY <2>1, <2>2, BegunAreApart
<1>11. ASSUME NEW c \in Barriers, Proceed(c) PROVE Held(s)
  <2>1. CASE StartSessionBarrier(c) \/ StartGlobalReset(c)
    BY <2>1, <1>5 DEF StartSessionBarrier, StartGlobalReset
  <2>2. CASE ResumeSessionBarrier(c) \/ ClearSession(c) \/ FailSessionReset(c)
             \/ GlobalDrained(c) \/ ClearAll(c) \/ FailGlobalReset(c)
             \/ \E ok \in BOOLEAN : FinishEviction(c, ok)
    <3>1. UNCHANGED queueVars /\ UNCHANGED drainVars
      BY <2>2 DEF ResumeSessionBarrier, ClearSession, FailSessionReset, GlobalDrained, ClearAll,
                  FailGlobalReset, FinishEviction
    <3> QED
      BY <3>1, <1>8
  <2> QED
    BY <1>9, <1>10, <1>11, <2>1, <2>2 DEF Proceed
<1>12. ASSUME NEW c \in Barriers,
              \/ \E t \in Sessions, kind \in {"reset", "eviction"} : BeginSessionBarrier(c, t, kind)
              \/ BeginGlobalReset(c)
       PROVE  Held(s)
  BY <1>8, <1>12 DEF BeginSessionBarrier, BeginGlobalReset
<1>13. ASSUME NEW mode \in {"explicit", "background"}, RequestDrain(mode) PROVE Held(s)
  BY <1>5, <1>13 DEF RequestDrain
<1>14. CASE UNCHANGED vars
  <2>1. UNCHANGED queueVars /\ UNCHANGED drainVars
    BY <1>14 DEF vars
  <2> QED
    BY <2>1, <1>8
<1> QED
  BY <1>3, <1>4, <1>6, <1>7, <1>11, <1>12, <1>13, <1>14 DEF Next, Write

\* A barrier that goes on while it has joined a generation leaves nothing of its
\* session to that generation.
LEMMA OperatingFindsQuiet ==
  ASSUME TypeOK, NEW g \in Drain, NEW s \in Sessions, NEW kind,
         \A w \in g.selected \cap queue : w = g.work \/ w \in failed,
         NextStage(kind, s, g, "explicit", g.selected) = "operating"
  PROVE  /\ WorkOf(queue, s) \subseteq failed
         /\ g.work.session # s
         /\ kind = "eviction" => WorkOf(queue, s) = {}
<1>1. g # NoDrain
  BY NoDrainAssumption
<1>2. /\ g.work.session # s
      /\ WorkOf(Eligible("explicit", g.selected, queue, failed), s) = {}
      /\ kind = "eviction" => WorkOf(g.selected \cap failed, s) = {}
  BY <1>1 DEF NextStage
<1>3. \A w \in WorkOf(queue, s) : w \in g.selected
  BY <1>2 DEF WorkOf, Eligible
<1>4. \A w \in WorkOf(queue, s) : w \in failed /\ w \in WorkOf(g.selected \cap failed, s)
  BY <1>2, <1>3 DEF WorkOf
<1> QED
  BY <1>2, <1>4

\* So does one that goes on after that generation has settled.
LEMMA OperatingAfterwards ==
  ASSUME NEW s \in Sessions, NEW kind, NEW selected,
         WorkOf(queue, s) \subseteq failed,
         NextStage(kind, s, NoDrain, "explicit", selected) = "operating"
  PROVE  kind = "eviction" => WorkOf(queue, s) = {}
BY DEF NextStage, WorkOf, Eligible

\* What the invariant says of one barrier.
QuiescenceOf(b) ==
  /\ barriers[b].joined = "active" => drain # NoDrain /\ drain.mode = "explicit"
  /\ OfSession(b) /\ (barriers[b].joined = "settled" \/ Operating(b)) =>
       Quiet(barriers[b].session)
  /\ Operating(b) /\ barriers[b].kind = "eviction" =>
       WorkOf(queue, barriers[b].session) = {}

\* A barrier that is not the one to move, while the generation goes on or is joined.
LEMMA UndisturbedQuiescence ==
  ASSUME TypeOK, Owners, Generation, Quiescence, [Next]_vars, NEW b \in Barriers,
         barriers'[b].kind = barriers[b].kind,
         barriers'[b].session = barriers[b].session,
         barriers'[b].joined = barriers[b].joined,
         OfSession(b) /\ Operating(b)' => Operating(b),
         barriers[b].joined = "active" => drain' # NoDrain /\ drain'.mode = "explicit"
  PROVE  QuiescenceOf(b)'
<1>1. OfSession(b)' <=> OfSession(b)
  BY DEF OfSession
<1>2. ASSUME OfSession(b), barriers[b].joined = "settled" \/ Operating(b)
      PROVE  /\ Quiet(barriers[b].session)'
             /\ Operating(b) /\ barriers[b].kind = "eviction" =>
                  WorkOf(queue', barriers'[b].session) = {}
  <2>1. barriers[b].stage # "queued"
    BY <1>2 DEF Operating, Owners, BarrierShape
  <2>2. PICK s \in Sessions : s = barriers[b].session
    BY <1>2, SessionHead
  <2>3. Held(s)
    BY <1>1, <1>2, <2>1, <2>2, SessionsHeld
  <2>4. Quiet(s)
    BY <1>2, <2>2 DEF Quiescence, SettledAreQuiet, Quiet
  <2>5. Quiet(s)'
    BY <2>3, <2>4, QuietStays
  <2>6. Operating(b) /\ barriers[b].kind = "eviction" => WorkOf(queue', s) = {}
    BY <2>2, <2>3 DEF Held, Quiescence, EvictionsFindNothing
  <2> QED
    BY <2>2, <2>5, <2>6 DEF Quiet
<1>3. Operating(b)' /\ barriers'[b].kind = "eviction" => OfSession(b)
  BY DEF OfSession
<1> QED
  BY <1>1, <1>2, <1>3 DEF QuiescenceOf, Quiet

\* Where the barriers are only notified, the one of a generation that closes finds
\* that all that is left of the queue has failed.
LEMMA NotifiedQuiescence ==
  ASSUME TypeOK, Owners, Generation, Quiescence, [Next]_vars,
         NEW p, Noticed(p), NEW b \in Barriers, barriers'[b] = p[b],
         drain # NoDrain /\ drain.mode = "explicit" =>
           \/ drain' = NoDrain /\ queue' \subseteq failed'
           \/ drain' # NoDrain /\ drain'.mode = "explicit"
  PROVE  QuiescenceOf(b)'
<1>1. /\ barriers'[b].kind = barriers[b].kind
      /\ barriers'[b].session = barriers[b].session
      /\ Operating(b)' => Operating(b)
      /\ IF drain' = NoDrain /\ barriers[b].joined = "active"
         THEN barriers'[b].joined = "settled"
         ELSE barriers'[b].joined = barriers[b].joined
  BY DEF Noticed, Operating
<1>2. barriers[b].joined = "active" => drain # NoDrain /\ drain.mode = "explicit"
  BY DEF Quiescence, JoinedAreExplicit
<1>3. CASE ~(drain' = NoDrain /\ barriers[b].joined = "active")
  BY <1>1, <1>2, <1>3, UndisturbedQuiescence
<1>4. CASE drain' = NoDrain /\ barriers[b].joined = "active"
  <2>1. queue' \subseteq failed' /\ barriers'[b].joined = "settled"
    BY <1>1, <1>2, <1>4
  <2>2. Quiet(barriers[b].session)'
    BY <1>4, <2>1 DEF Quiet, WorkOf
  <2>3. Operating(b)' /\ barriers'[b].kind = "eviction" =>
          WorkOf(queue', barriers'[b].session) = {}
    <3> SUFFICES ASSUME Operating(b)', barriers'[b].kind = "eviction"
                 PROVE  WorkOf(queue', barriers'[b].session) = {}
      OBVIOUS
    <3>1. OfSession(b) /\ OfSession(b)' /\ Operating(b) /\ barriers[b].stage # "queued"
      BY <1>1 DEF OfSession, Operating
    <3>2. PICK s \in Sessions : s = barriers[b].session
      BY <3>1, SessionHead
    <3>3. Held(s)
      BY <3>1, <3>2, SessionsHeld
    <3> QED
      BY <1>1, <3>1, <3>2, <3>3 DEF Held, Quiescence, EvictionsFindNothing
  <2> QED
    BY <2>1, <2>2, <2>3 DEF QuiescenceOf, Quiet
<1> QED
  BY <1>3, <1>4

LEMMA QuiescenceStep ==
  ASSUME TypeOK, Owners, Generation, Quiescence, [Next]_vars, TypeOK', Generation'
  PROVE  Quiescence'
<1> USE DEF queueVars, drainVars
<1>1. SUFFICES \A b \in Barriers : QuiescenceOf(b)'
  BY DEF Quiescence, JoinedAreExplicit, SettledAreQuiet, EvictionsFindNothing, QuiescenceOf
<1>2. JoinedAreExplicit
  BY DEF Quiescence
<1>3. \A b \in Barriers : barriers[b].joined = "active" => drain # NoDrain /\ drain.mode = "explicit"
  BY <1>2 DEF JoinedAreExplicit
<1>4. queue' \in SUBSET Work
  BY DEF TypeOK
<1>5. ASSUME Noticed(barriers'),
             drain # NoDrain /\ drain.mode = "explicit" => drain' # NoDrain /\ drain'.mode = "explicit"
      PROVE  \A b \in Barriers : QuiescenceOf(b)'
  BY <1>5, NotifiedQuiescence
<1>6. ASSUME NEW mode \in {"explicit", "background"}, JoinOrStart(mode)
      PROVE  drain # NoDrain /\ drain.mode = "explicit" => drain' # NoDrain /\ drain'.mode = "explicit"
  BY <1>4, <1>6, JoinCases
<1>7. ASSUME UNCHANGED barriers, UNCHANGED drainVars
      PROVE  Noticed(barriers')
  BY <1>3, <1>7 DEF Noticed, TypeOK
<1>8. ASSUME NEW s \in Sessions, BufferThought(s) PROVE \A b \in Barriers : QuiescenceOf(b)'
  <2>1. CASE Cardinality(Thoughts(queue')) >= BufferSize
    <3>1. JoinOrStart("background") /\ barriers' = StartProgressed
      BY <1>8, <2>1 DEF BufferThought
    <3>2. Noticed(barriers')
      BY <3>1, <1>2, <1>4, StartNoticed
    <3> QED
      BY <3>1, <3>2, <1>5, <1>6
  <2>2. CASE ~(Cardinality(Thoughts(queue')) >= BufferSize)
    <3>1. UNCHANGED barriers /\ UNCHANGED drainVars
      BY <1>8, <2>2 DEF BufferThought
    <3> QED
      BY <3>1, <1>5, <1>7
  <2> QED
    BY <2>1, <2>2
<1>9. ASSUME NEW s \in Sessions, NEW k \in Slots, BufferSnapshot(s, k)
      PROVE  \A b \in Barriers : QuiescenceOf(b)'
  BY <1>5, <1>7, <1>9 DEF BufferSnapshot
<1>10. ASSUME NEW mode \in {"explicit", "background"}, RequestDrain(mode)
       PROVE  \A b \in Barriers : QuiescenceOf(b)'
  <2>1. JoinOrStart(mode) /\ barriers' = StartProgressed
    BY <1>10 DEF RequestDrain
  <2>2. Noticed(barriers')
    BY <2>1, <1>2, <1>4, StartNoticed
  <2> QED
    BY <2>1, <2>2, <1>5, <1>6
<1>11. CASE WriteLands \/ RetryWrite
  <2>1. drain \in Drain /\ drain # NoDrain /\ UNCHANGED barriers
    BY <1>11 DEF WriteLands, RetryWrite, Writing, TypeOK
  <2>2. drain' # NoDrain /\ drain'.mode = drain.mode
    <3>1. settlement' = "pending"
      BY <1>11, <2>1 DEF WriteLands, RetryWrite, Generation, GenerationRemembers
    <3>2. drain' # NoDrain
      BY <3>1 DEF Generation, GenerationRemembers
    <3> QED
      BY <1>11, <2>1, <3>2 DEF WriteLands, RetryWrite, Drain
  <2>3. Noticed(barriers')
    BY <2>1, <2>2 DEF Noticed, TypeOK
  <2> QED
    BY <2>2, <2>3, <1>5
<1>12. CASE WriteSucceeds \/ WriteFails
  <2>1. /\ drain \in Drain /\ drain # NoDrain
        /\ drain.mode \in {"explicit", "background"} /\ drain.selected \in SUBSET Work
        /\ Run(drain.mode, drain.selected) /\ barriers' = Progressed
    BY <1>12 DEF TypeOK, Drain, WriteSucceeds, WriteFails, Writing
  <2>2. drain.selected \cap queue' \subseteq failed'
    BY <1>12, <2>1 DEF WriteSucceeds, WriteFails, IsCurrent, Generation, GenerationRemembers, TypeOK
  <2>3. drain' = NoDrain /\ drain.mode = "explicit" => queue' \subseteq failed'
    BY <2>1, <2>2, <1>4, RunCases DEF Eligible
  <2>4. drain' # NoDrain => drain'.mode = drain.mode
    BY <2>1, <1>4, RunCases
  <2>5. Noticed(barriers')
    BY <2>1, <1>2, <1>4, ProgressedNoticed
  <2> QED
    BY <2>3, <2>4, <2>5, NotifiedQuiescence
<1>13. ASSUME NEW c \in Barriers, UNCHANGED drainVars,
              \A b \in Barriers \ {c} : barriers'[b] = barriers[b], QuiescenceOf(c)'
       PROVE  \A b \in Barriers : QuiescenceOf(b)'
  <2> SUFFICES ASSUME NEW b \in Barriers \ {c} PROVE QuiescenceOf(b)'
    BY <1>13
  <2>1. barriers'[b] = barriers[b]
    BY <1>13
  <2>2. /\ drain' = drain
        /\ barriers'[b].kind = barriers[b].kind
        /\ barriers'[b].session = barriers[b].session
        /\ barriers'[b].joined = barriers[b].joined
        /\ Operating(b)' => Operating(b)
    BY <1>13, <2>1 DEF Operating
  <2> QED
    BY <2>2, <1>3, UndisturbedQuiescence
<1>14. ASSUME NEW c \in Barriers, barriers'[c].joined = "none",
              barriers'[c].stage \in {"idle", "queued"}
       PROVE  QuiescenceOf(c)'
  BY <1>14 DEF QuiescenceOf, Operating
<1>15. ASSUME NEW c \in Barriers,
              \/ \E s \in Sessions, kind \in {"reset", "eviction"} : BeginSessionBarrier(c, s, kind)
              \/ BeginGlobalReset(c)
       PROVE  \A b \in Barriers : QuiescenceOf(b)'
  <2>1. /\ \A b \in Barriers \ {c} : barriers'[b] = barriers[b]
        /\ barriers'[c].joined = "none" /\ barriers'[c].stage = "queued"
    <3>1. CASE \E s \in Sessions, kind \in {"reset", "eviction"} : BeginSessionBarrier(c, s, kind)
      BY <3>1 DEF BeginSessionBarrier, NoBarrier, TypeOK
    <3>2. CASE BeginGlobalReset(c)
      BY <3>2 DEF BeginGlobalReset, NoBarrier, TypeOK
    <3> QED
      BY <1>15, <3>1, <3>2
  <2>2. UNCHANGED drainVars
    BY <1>15 DEF BeginSessionBarrier, BeginGlobalReset
  <2> QED
    BY <2>1, <2>2, <1>13, <1>14
<1>16. ASSUME NEW c \in Barriers, StartSessionBarrier(c)
       PROVE  \A b \in Barriers : QuiescenceOf(b)'
  <2> DEFINE selected == IF drain' = NoDrain THEN {} ELSE drain'.selected
  <2>1. PICK p : /\ Noticed(p)
                 /\ \A b \in Barriers \ {c} : barriers'[b] = p[b]
                 /\ barriers'[c].kind = barriers[c].kind
                 /\ barriers'[c].session = barriers[c].session
                 /\ barriers'[c].joined = Joined
                 /\ barriers'[c].stage = NextStage(barriers[c].kind, barriers[c].session, drain',
                                                   "explicit", selected)
                 /\ barriers'[c].stage \in {"waiting", "operating", "rejected"}
    BY <1>2, <1>16, StartSessionFacts
  <2>2. /\ UNCHANGED queueVars /\ JoinOrStart("explicit") /\ OfSession(c)
    BY <1>16 DEF StartSessionBarrier, OfSession
  <2>3. drain # NoDrain /\ drain.mode = "explicit" => drain' # NoDrain /\ drain'.mode = "explicit"
    BY <2>2, <1>6
  <2>4. \A b \in Barriers \ {c} : QuiescenceOf(b)'
    BY <2>1, <2>3, NotifiedQuiescence
  <2>5. PICK s \in Sessions : s = barriers[c].session
    BY <2>2, SessionHead
  <2>6. CASE drain' = NoDrain
    <3>1. queue = {} /\ queue' = {}
      BY <2>2, <2>6, <1>4, JoinCases DEF Eligible
    <3> QED
      BY <2>1, <2>4, <2>6, <3>1 DEF QuiescenceOf, Quiet, WorkOf, Joined, Operating
  <2>7. CASE drain' # NoDrain
    <3>1. drain' \in Drain /\ drain'.mode = "explicit"
      BY <2>2, <2>7, <1>4, JoinCases
    <3>2. \A w \in drain'.selected \cap queue : w = drain'.work \/ w \in failed
      BY <2>2, <2>7 DEF Generation, GenerationRemembers
    <3>3. ASSUME barriers'[c].stage = "operating"
          PROVE  /\ WorkOf(queue, s) \subseteq failed
                 /\ drain'.work.session # s
                 /\ barriers[c].kind = "eviction" => WorkOf(queue, s) = {}
      BY <2>1, <2>5, <2>7, <3>1, <3>2, <3>3, OperatingFindsQuiet
    <3>4. QuiescenceOf(c)'
      BY <2>1, <2>2, <2>5, <2>7, <3>1, <3>3 DEF QuiescenceOf, Quiet, Joined, Operating
    <3> QED
      BY <2>4, <3>4
  <2> QED
    BY <2>6, <2>7
<1>17. ASSUME NEW c \in Barriers, StartGlobalReset(c)
       PROVE  \A b \in Barriers : QuiescenceOf(b)'
  <2>1. PICK p : /\ Noticed(p)
                 /\ \A b \in Barriers \ {c} : barriers'[b] = p[b]
                 /\ barriers'[c].kind = barriers[c].kind
                 /\ barriers'[c].joined = Joined
    BY <1>2, <1>17, StartGlobalFacts
  <2>2. JoinOrStart("explicit") /\ barriers[c].kind = "global_reset"
    BY <1>17 DEF StartGlobalReset
  <2>3. drain # NoDrain /\ drain.mode = "explicit" => drain' # NoDrain /\ drain'.mode = "explicit"
    BY <2>2, <1>6
  <2>4. \A b \in Barriers \ {c} : QuiescenceOf(b)'
    BY <2>1, <2>3, NotifiedQuiescence
  <2>5. drain' # NoDrain => drain'.mode = "explicit"
    BY <2>2, <1>4, JoinCases
  <2>6. QuiescenceOf(c)'
    BY <2>1, <2>2, <2>5 DEF QuiescenceOf, OfSession, Joined
  <2> QED
    BY <2>4, <2>6
<1>18. ASSUME NEW c \in Barriers, ResumeSessionBarrier(c)
       PROVE  \A b \in Barriers : QuiescenceOf(b)'
  <2> DEFINE st == IF barriers[c].joined = "active"
                   THEN NextStage(barriers[c].kind, barriers[c].session, drain, drain.mode, drain.selected)
                   ELSE NextStage(barriers[c].kind, barriers[c].session, NoDrain, "explicit",
                                  barriers[c].selected)
  <2>1. /\ barriers[c].stage = "ready"
        /\ barriers' = [barriers EXCEPT ![c].stage = st]
        /\ UNCHANGED <<queueVars, drainVars, ownerVars>>
    BY <1>18 DEF ResumeSessionBarrier
  <2>2. st \in {"waiting", "rejected", "operating"}
    BY DEF NextStage
  <2>3. /\ \A b \in Barriers \ {c} : barriers'[b] = barriers[b]
        /\ barriers'[c].stage = st
        /\ barriers'[c].kind = barriers[c].kind
        /\ barriers'[c].session = barriers[c].session
        /\ barriers'[c].joined = barriers[c].joined
    BY <2>1, <2>2, BegunBarrier, BegunOwners
  <2> HIDE DEF st
  <2>4. barriers[c].joined \in {"active", "settled"}
    BY <2>1 DEF Owners, BarrierShape, TypeOK, Barrier
  <2>5. QuiescenceOf(c)'
    <3>1. CASE ~OfSession(c)
      BY <2>1, <2>3, <3>1, <1>3 DEF QuiescenceOf, OfSession
    <3>2. CASE OfSession(c)
      <4>1. PICK s \in Sessions : s = barriers[c].session
        BY <3>2, SessionHead
      <4>2. CASE barriers[c].joined = "active"
        <5>1. drain \in Drain /\ drain # NoDrain /\ drain.mode = "explicit"
          BY <4>2, <1>3 DEF TypeOK
        <5>2. \A w \in drain.selected \cap queue : w = drain.work \/ w \in failed
          BY <5>1 DEF Generation, GenerationRemembers
        <5>3. st = NextStage(barriers[c].kind, s, drain, "explicit", drain.selected)
          BY <4>1, <4>2, <5>1 DEF st
        <5>4. ASSUME st = "operating"
              PROVE  /\ WorkOf(queue, s) \subseteq failed
                     /\ drain.work.session # s
                     /\ barriers[c].kind = "eviction" => WorkOf(queue, s) = {}
          BY <5>1, <5>2, <5>3, <5>4, OperatingFindsQuiet
        <5> QED
          BY <2>1, <2>2, <2>3, <4>1, <4>2, <5>1, <5>4 DEF QuiescenceOf, Quiet, Operating
      <4>3. CASE barriers[c].joined = "settled"
        <5>1. Quiet(s)
          BY <3>2, <4>1, <4>3 DEF Quiescence, SettledAreQuiet, Quiet
        <5>2. st = NextStage(barriers[c].kind, s, NoDrain, "explicit", barriers[c].selected)
          BY <4>1, <4>3 DEF st
        <5>3. ASSUME st = "operating"
              PROVE  barriers[c].kind = "eviction" => WorkOf(queue, s) = {}
          BY <5>1, <5>2, <5>3, OperatingAfterwards DEF Quiet
        <5> QED
          BY <2>1, <2>2, <2>3, <4>1, <4>3, <5>1, <5>3 DEF QuiescenceOf, Quiet, Operating
      <4> QED
        BY <2>4, <4>2, <4>3
    <3> QED
      BY <3>1, <3>2
  <2> QED
    BY <2>1, <2>3, <2>5, <1>13
<1>19. ASSUME NEW c \in Barriers, ClearSession(c) \/ ClearAll(c) \/ GlobalDrained(c)
       PROVE  \A b \in Barriers : QuiescenceOf(b)'
  <2>1. /\ barriers[c].stage \in {"operating", "draining"}
        /\ barriers[c].stage = "draining" => barriers[c].kind = "global_reset"
        /\ UNCHANGED <<queueVars, drainVars, ownerVars>>
    BY <1>19 DEF ClearSession, ClearAll, GlobalDrained
  <2>2. PICK st \in {"operating", "cleared"} : barriers' = [barriers EXCEPT ![c].stage = st]
    BY <1>19 DEF ClearSession, ClearAll, GlobalDrained
  <2>3. /\ \A b \in Barriers \ {c} : barriers'[b] = barriers[b]
        /\ barriers'[c].kind = barriers[c].kind
        /\ barriers'[c].session = barriers[c].session
        /\ barriers'[c].joined = barriers[c].joined
    BY <2>1, <2>2, BegunBarrier, BegunOwners
  <2>4. OfSession(c) /\ Operating(c)' => Operating(c)
    BY <2>1 DEF OfSession, Operating
  <2>5. QuiescenceOf(c)'
    BY <2>1, <2>3, <2>4, <1>3, UndisturbedQuiescence
  <2> QED
    BY <2>1, <2>3, <2>5, <1>13
<1>20. ASSUME NEW c \in Barriers,
              \/ CommitSessionReset(c) \/ FailSessionReset(c)
              \/ \E ok \in BOOLEAN : FinishEviction(c, ok)
              \/ CommitGlobalReset(c) \/ FailGlobalReset(c)
       PROVE  \A b \in Barriers : QuiescenceOf(b)'
  <2>1. barriers' = [barriers EXCEPT ![c] = NoBarrier] /\ UNCHANGED drainVars
    BY <1>20 DEF CommitSessionReset, FailSessionReset, FinishEviction, CommitGlobalReset,
                 FailGlobalReset, ReleaseSession, ReleaseGlobal
  <2>2. /\ \A b \in Barriers \ {c} : barriers'[b] = barriers[b]
        /\ barriers'[c].joined = "none" /\ barriers'[c].stage = "idle"
    BY <2>1 DEF NoBarrier, TypeOK
  <2> QED
    BY <2>1, <2>2, <1>13, <1>14
<1>21. CASE UNCHANGED vars
  BY <1>5, <1>7, <1>21 DEF vars
<1> QED
  BY <1>8, <1>9, <1>10, <1>11, <1>12, <1>15, <1>16, <1>17, <1>18, <1>19, <1>20, <1>21
  DEF Next, Write, Proceed

-----------------------------------------------------------------------------
(* What the backend holds.                                                 *)

\* A cleared session stays cleared or quarantined until its work is discarded.
LEMMA ResetLasts ==
  ASSUME TypeOK, Owners, Quiescence, [Next]_vars, TypeOK', NEW s \in Sessions, BeingReset(s)
  PROVE  BeingReset(s)' \/ WorkOf(queue', s) = {}
<1> USE DEF queueVars, drainVars, ownerVars, quarantineVars
<1>1. JoinedAreExplicit
  BY DEF Quiescence
<1>2. queue' \in SUBSET Work
  BY DEF TypeOK
<1>3. ASSUME UNCHANGED quarantineVars,
             \A b \in Barriers : barriers[b].stage = "cleared" =>
               barriers'[b].stage = "cleared" /\ barriers'[b].session = barriers[b].session
      PROVE  BeingReset(s)'
  BY <1>3 DEF BeingReset
<1>4. ASSUME NEW p, Noticed(p),
             \A b \in Barriers : barriers[b].stage = "cleared" => barriers'[b] = p[b]
      PROVE  \A b \in Barriers : barriers[b].stage = "cleared" =>
               barriers'[b].stage = "cleared" /\ barriers'[b].session = barriers[b].session
  BY <1>4 DEF Noticed
<1>5. CASE \E t \in Sessions : BufferThought(t)
  <2>1. PICK t \in Sessions : BufferThought(t)
    BY <1>5
  <2>2. UNCHANGED quarantineVars
    BY <2>1 DEF BufferThought
  <2>3. CASE barriers' = StartProgressed /\ JoinOrStart("background")
    BY <1>1, <1>2, <1>3, <1>4, <2>2, <2>3, StartNoticed
  <2>4. CASE UNCHANGED barriers
    BY <1>3, <2>2, <2>4
  <2> QED
    BY <2>1, <2>3, <2>4 DEF BufferThought
<1>6. CASE \E t \in Sessions, k \in Slots : BufferSnapshot(t, k)
  BY <1>3, <1>6 DEF BufferSnapshot
<1>7. CASE \E mode \in {"explicit", "background"} : RequestDrain(mode)
  <2>1. PICK mode \in {"explicit", "background"} : RequestDrain(mode)
    BY <1>7
  <2>2. UNCHANGED quarantineVars /\ barriers' = StartProgressed /\ JoinOrStart(mode)
    BY <2>1 DEF RequestDrain
  <2> QED
    BY <1>1, <1>2, <1>3, <1>4, <2>2, StartNoticed
<1>8. CASE WriteLands \/ RetryWrite
  BY <1>3, <1>8 DEF WriteLands, RetryWrite
<1>9. CASE WriteSucceeds \/ WriteFails
  <2>1. UNCHANGED quarantineVars /\ barriers' = Progressed
    BY <1>9 DEF WriteSucceeds, WriteFails
  <2> QED
    BY <1>1, <1>2, <1>3, <1>4, <2>1, ProgressedNoticed
<1>10. CASE \E b \in Barriers : \/ \E t \in Sessions, kind \in {"reset", "eviction"} :
                                     BeginSessionBarrier(b, t, kind)
                                \/ BeginGlobalReset(b)
  <2>1. PICK b \in Barriers : \/ \E t \in Sessions, kind \in {"reset", "eviction"} :
                                   BeginSessionBarrier(b, t, kind)
                              \/ BeginGlobalReset(b)
    BY <1>10
  <2>2. barriers[b].stage = "idle" /\ UNCHANGED quarantineVars
    <3>1. barriers[b] = NoBarrier /\ UNCHANGED quarantineVars
      BY <2>1 DEF BeginSessionBarrier, BeginGlobalReset
    <3> QED
      BY <3>1 DEF NoBarrier
  <2>3. \A c \in Barriers \ {b} : barriers'[c] = barriers[c]
    BY <2>1 DEF BeginSessionBarrier, BeginGlobalReset, TypeOK
  <2> QED
    BY <1>3, <2>2, <2>3
<1>11. ASSUME NEW b \in Barriers, StartSessionBarrier(b) PROVE BeingReset(s)'
  <2>1. UNCHANGED quarantineVars /\ barriers[b].stage = "queued"
    BY <1>11 DEF StartSessionBarrier
  <2>2. PICK p : Noticed(p) /\ \A c \in Barriers \ {b} : barriers'[c] = p[c]
    BY <1>1, <1>11, StartSessionFacts
  <2> QED
    BY <1>3, <1>4, <2>1, <2>2
<1>12. ASSUME NEW b \in Barriers, StartGlobalReset(b) PROVE BeingReset(s)'
  <2>1. UNCHANGED quarantineVars /\ barriers[b].stage = "queued"
    BY <1>12 DEF StartGlobalReset
  <2>2. PICK p : Noticed(p) /\ \A c \in Barriers \ {b} : barriers'[c] = p[c]
    BY <1>1, <1>12, StartGlobalFacts
  <2> QED
    BY <1>3, <1>4, <2>1, <2>2
<1>13. ASSUME NEW b \in Barriers,
              ResumeSessionBarrier(b) \/ GlobalDrained(b) \/ ClearSession(b) \/ ClearAll(b)
       PROVE  BeingReset(s)'
  <2>1. UNCHANGED quarantineVars /\ barriers[b].stage # "cleared"
    BY <1>13 DEF ResumeSessionBarrier, GlobalDrained, ClearSession, ClearAll
  <2>2. \A c \in Barriers \ {b} : barriers'[c] = barriers[c]
    BY <1>13 DEF ResumeSessionBarrier, GlobalDrained, ClearSession, ClearAll, TypeOK
  <2> QED
    BY <1>3, <2>1, <2>2
<1>14. ASSUME NEW b \in Barriers, barriers' = [barriers EXCEPT ![b] = NoBarrier]
       PROVE  \A c \in Barriers \ {b} : barriers'[c] = barriers[c]
  BY <1>14 DEF TypeOK
<1>15. ASSUME NEW b \in Barriers, CommitSessionReset(b)
       PROVE  BeingReset(s)' \/ WorkOf(queue', s) = {}
  <2>1. CASE barriers[b].session = s
    BY <1>15, <2>1 DEF CommitSessionReset, Discarded, WorkOf
  <2>2. CASE barriers[b].session # s
    <3>1. barriers[b].session # NoSession
      BY <1>15, ConstantsAssumption DEF CommitSessionReset, Owners, BarrierShape, OfSession
    <3>2. \A c \in Barriers \ {b} : barriers'[c] = barriers[c]
      BY <1>14, <1>15 DEF CommitSessionReset, ReleaseSession
    <3>3. quarantined' = quarantined \ {barriers[b].session} /\ UNCHANGED globalQuarantined
      BY <1>15 DEF CommitSessionReset
    <3> QED
      BY <2>2, <3>1, <3>2, <3>3 DEF BeingReset
  <2> QED
    BY <2>1, <2>2
<1>16. ASSUME NEW b \in Barriers, FailSessionReset(b) PROVE BeingReset(s)'
  <2>1. barriers[b].session \in Sessions
    BY <1>16 DEF FailSessionReset, Owners, BarrierShape, OfSession
  <2>2. \A c \in Barriers \ {b} : barriers'[c] = barriers[c]
    BY <1>14, <1>16 DEF FailSessionReset, ReleaseSession
  <2>3. quarantined' = quarantined \cup {barriers[b].session} /\ UNCHANGED globalQuarantined
    BY <1>16 DEF FailSessionReset
  <2> QED
    BY <2>1, <2>2, <2>3, ConstantsAssumption DEF BeingReset
<1>17. ASSUME NEW b \in Barriers, NEW ok \in BOOLEAN, FinishEviction(b, ok) PROVE BeingReset(s)'
  <2>1. barriers[b].stage # "cleared" /\ UNCHANGED <<quarantined, globalQuarantined>>
    BY <1>17 DEF FinishEviction
  <2>2. \A c \in Barriers \ {b} : barriers'[c] = barriers[c]
    BY <1>14, <1>17 DEF FinishEviction, ReleaseSession
  <2> QED
    BY <2>1, <2>2 DEF BeingReset
<1>18. ASSUME NEW b \in Barriers, CommitGlobalReset(b) PROVE WorkOf(queue', s) = {}
  BY <1>18 DEF CommitGlobalReset, WorkOf
<1>19. ASSUME NEW b \in Barriers, FailGlobalReset(b) PROVE BeingReset(s)'
  BY <1>19 DEF FailGlobalReset, BeingReset
<1>20. CASE UNCHANGED vars
  BY <1>3, <1>20 DEF vars
<1> QED
  BY <1>5, <1>6, <1>7, <1>8, <1>9, <1>10, <1>11, <1>12, <1>13, <1>15, <1>16, <1>17, <1>18,
     <1>19, <1>20
  DEF Next, Write, Proceed

\* The backend is left as it is, and whoever was to be written still is, or is newly
\* accepted: the steps that do not write.
Resumes ==
  /\ durable' = durable
  /\ nextSequence' \in Nat /\ nextSequence <= nextSequence'
  /\ \A w \in queue' : \/ w \in queue
                       \/ w.token = nextSequence /\ nextSequence < nextSequence'
  /\ drain' # NoDrain =>
       \/ drain # NoDrain /\ drain'.work = drain.work /\ drain'.landed = drain.landed
       \/ drain'.work \in queue' /\ drain'.landed = FALSE
  /\ drain # NoDrain /\ drain.landed =>
       \/ drain.work \notin queue'
       \/ drain' # NoDrain /\ drain'.work = drain.work /\ drain'.landed

LEMMA ResumedIsDurable ==
  ASSUME TypeOK, TypeOK', Generation, Generation', Durability, Resumes,
         \A s \in Sessions : BeingReset(s) => BeingReset(s)' \/ WorkOf(queue', s) = {}
  PROVE  Durability'
<1>1. /\ nextSequence \in Nat /\ nextSequence' \in Nat
      /\ queue \in SUBSET Work /\ queue' \in SUBSET Work
      /\ \A w \in Work : w.token \in Nat /\ w.session \in Sessions /\ w.slot \in Slots \cup {"thought"}
      /\ \A s \in Sessions, k \in Slots : durable[s].slots[k] \in Nat
      /\ \A s \in Sessions : durable[s].thoughts \in Seq(Nat)
      /\ drain # NoDrain => drain.work \in Work /\ drain.landed \in BOOLEAN
      /\ drain' # NoDrain => drain'.work \in Work /\ drain'.landed \in BOOLEAN
  <2>1. /\ nextSequence \in Nat /\ nextSequence' \in Nat
        /\ queue \in SUBSET Work /\ queue' \in SUBSET Work
        /\ drain # NoDrain => drain \in Drain
        /\ drain' # NoDrain => drain' \in Drain
    BY DEF TypeOK
  <2>2. \A w \in Work : w.token \in Nat /\ w.session \in Sessions /\ w.slot \in Slots \cup {"thought"}
    BY DEF Work
  <2>3. \A s \in Sessions : durable[s] \in [thoughts : Seq(Nat), slots : [Slots -> Nat]]
    BY DEF TypeOK
  <2>4. /\ \A s \in Sessions, k \in Slots : durable[s].slots[k] \in Nat
        /\ \A s \in Sessions : durable[s].thoughts \in Seq(Nat)
    BY <2>3
  <2>5. \A g \in Drain : g.work \in Work /\ g.landed \in BOOLEAN
    BY DEF Drain
  <2> QED
    BY <2>1, <2>2, <2>4, <2>5
<1>2. NoDuplicateThought'
  <2>1. durable' = durable /\ NoDuplicateThought
    BY DEF Resumes, Durability
  <2> QED
    BY <2>1 DEF NoDuplicateThought
<1>3. \A w \in queue' : w \in queue \/ (w.token = nextSequence /\ nextSequence < nextSequence')
  BY DEF Resumes
<1>4. \A w \in Pending' : w \in Pending \/ (w.token = nextSequence /\ nextSequence < nextSequence')
  <2>1. drain' # NoDrain => drain'.work \in queue' \/ (drain # NoDrain /\ drain'.work = drain.work)
    BY DEF Resumes
  <2>2. /\ Pending' = IF drain' = NoDrain THEN queue' ELSE queue' \cup {drain'.work}
        /\ Pending = IF drain = NoDrain THEN queue ELSE queue \cup {drain.work}
    BY DEF Pending
  <2> QED
    BY <1>3, <2>1, <2>2
<1>5. LandedIsDurable'
  <2> SUFFICES ASSUME drain' # NoDrain, drain'.landed, drain'.work \in queue',
                      NEW s \in Sessions, drain'.work.session = s, ~BeingReset(s)'
               PROVE  Reached(durable', drain'.work)
    BY <1>1 DEF LandedIsDurable, Reached, BeingReset
  <2>1. /\ drain # NoDrain /\ drain.landed /\ drain'.work = drain.work
    BY DEF Resumes
  <2>2. drain.work \in queue
    BY <1>1, <1>3, <2>1 DEF Generation, TokensFresh, GenerationRemembers
  <2>4. Reached(durable, drain.work) \/ BeingReset(s)
    BY <2>1, <2>2 DEF Durability, LandedIsDurable
  <2>5. CASE Reached(durable, drain.work)
    BY <2>1, <2>5 DEF Reached, Resumes
  <2>6. CASE BeingReset(s)
    <3>1. drain.work \in WorkOf(queue', s)
      BY <2>1 DEF WorkOf
    <3> QED
      BY <2>6, <3>1
  <2> QED
    BY <2>4, <2>5, <2>6
<1>6. SlotsAreOlder'
  <2>1. \A s \in Sessions, k \in Slots : durable'[s].slots[k] < nextSequence'
    BY <1>1 DEF Resumes, Durability, SlotsAreOlder
  <2>2. \A w \in Pending' : w.slot # "thought" => durable'[w.session].slots[w.slot] <= w.token
    <3> SUFFICES ASSUME NEW w \in Pending', w.slot # "thought"
                 PROVE  durable[w.session].slots[w.slot] <= w.token
      BY DEF Resumes
    <3>1. CASE w \in Pending
      BY <3>1 DEF Durability, SlotsAreOlder
    <3>2. CASE w.token = nextSequence
      <4>1. w \in Work
        BY <1>1 DEF Pending
      <4>2. w.session \in Sessions /\ w.slot \in Slots
        BY <1>1, <4>1
      <4>3. durable[w.session].slots[w.slot] < nextSequence
        BY <4>2 DEF Durability, SlotsAreOlder
      <4> QED
        BY <1>1, <3>2, <4>2, <4>3
    <3> QED
      BY <1>4, <3>1, <3>2
  <2>3. ASSUME drain' # NoDrain, NEW w \in queue', w.session = drain'.work.session,
               w.slot = drain'.work.slot, w.slot # "thought"
        PROVE  drain'.work.token <= w.token
    <3>1. CASE drain'.work \in queue'
      BY <1>1, <2>3, <3>1 DEF Generation, TokensFresh
    <3>2. CASE drain # NoDrain /\ drain'.work = drain.work
      <4>1. drain.work.token < nextSequence
        BY <3>2 DEF Generation, TokensFresh, GenerationRemembers
      <4>2. CASE w \in queue
        BY <2>3, <3>2, <4>2 DEF Durability, SlotsAreOlder
      <4>3. CASE w.token = nextSequence
        BY <1>1, <3>2, <4>1, <4>3
      <4> QED
        BY <1>3, <4>2, <4>3
    <3> QED
      BY <2>3, <3>1, <3>2 DEF Resumes
  <2> QED
    BY <2>1, <2>2, <2>3 DEF SlotsAreOlder
<1>7. ThoughtsAreNew'
  <2>1. ASSUME NEW s \in Sessions, NEW i \in DOMAIN durable'[s].thoughts
        PROVE  durable'[s].thoughts[i] < nextSequence'
    <3>1. durable'[s] = durable[s]
      BY DEF Resumes
    <3>2. durable[s].thoughts[i] < nextSequence /\ durable[s].thoughts[i] \in Nat
      BY <1>1, <2>1, <3>1 DEF Durability, ThoughtsAreNew
    <3> QED
      BY <1>1, <3>1, <3>2 DEF Resumes
  <2>2. ASSUME NEW w \in Pending', w.slot = "thought", ~Landed(w)',
               NEW i \in DOMAIN durable'[w.session].thoughts
        PROVE  durable'[w.session].thoughts[i] # w.token
    <3>1. durable' = durable /\ w \in Work
      BY <1>1 DEF Resumes, Pending
    <3>2. durable[w.session].thoughts[i] < nextSequence
      BY <1>1, <2>2, <3>1 DEF Durability, ThoughtsAreNew
    <3>3. CASE w \in Pending
      <4>1. ~Landed(w)
        <5> SUFFICES ASSUME Landed(w) PROVE FALSE
          OBVIOUS
        <5>1. drain # NoDrain /\ w = drain.work /\ drain.landed
          BY DEF Landed
        <5>2. w \notin queue' \/ (drain' # NoDrain /\ drain'.work = w /\ drain'.landed)
          BY <5>1 DEF Resumes
        <5>3. drain' # NoDrain /\ drain'.work = w
          BY <2>2, <5>2 DEF Pending
        <5> QED
          BY <2>2, <5>1, <5>2, <5>3 DEF Landed, Resumes
      <4> QED
        BY <2>2, <3>1, <3>3, <4>1 DEF Durability, ThoughtsAreNew
    <3>4. CASE w.token = nextSequence
      BY <1>1, <3>1, <3>2, <3>4
    <3> QED
      BY <1>4, <3>3, <3>4
  <2> QED
    BY <2>1, <2>2 DEF ThoughtsAreNew, Landed
<1> QED
  BY <1>2, <1>5, <1>6, <1>7 DEF Durability

\* A queue that grows by what is newly accepted at most.
Grows ==
  /\ durable' = durable
  /\ nextSequence' \in Nat /\ nextSequence <= nextSequence'
  /\ \A w \in queue' : \/ w \in queue
                       \/ w.token = nextSequence /\ nextSequence < nextSequence'

LEMMA JoinResumes ==
  ASSUME TypeOK, queue' \in SUBSET Work, Grows,
         \/ UNCHANGED drainVars
         \/ \E mode \in {"explicit", "background"} : JoinOrStart(mode)
  PROVE  Resumes
<1>1. CASE UNCHANGED drainVars
  BY <1>1 DEF Resumes, Grows, drainVars
<1>2. ASSUME NEW mode \in {"explicit", "background"}, JoinOrStart(mode)
      PROVE  Resumes
  BY <1>2, JoinCases DEF Resumes, Grows, Eligible
<1> QED
  BY <1>1, <1>2

\* A write that has landed or failed is left, and the next one has not landed.
LEMMA AcknowledgedResumes ==
  ASSUME TypeOK, TypeOK', WriteSucceeds \/ WriteFails
  PROVE  Resumes
<1>1. /\ drain \in Drain /\ drain # NoDrain /\ queue' \in SUBSET Work
      /\ drain.mode \in {"explicit", "background"} /\ drain.selected \in SUBSET Work
      /\ Run(drain.mode, drain.selected)
  BY DEF TypeOK, Drain, WriteSucceeds, WriteFails, Writing
<1>2. /\ durable' = durable /\ nextSequence' = nextSequence /\ nextSequence \in Nat
      /\ queue' \subseteq queue
      /\ drain.landed => drain.work \notin queue'
  BY DEF WriteSucceeds, WriteFails, Writing, TypeOK
<1>3. drain' # NoDrain => drain'.work \in queue' /\ drain'.landed = FALSE
  BY <1>1, RunCases DEF Eligible
<1> QED
  BY <1>1, <1>2, <1>3 DEF Resumes

LEMMA AppendedThought ==
  ASSUME NEW T \in Seq(Nat), NEW x \in Nat
  PROVE  /\ Len(T) + 1 \in DOMAIN Append(T, x)
         /\ Append(T, x)[Len(T) + 1] = x
         /\ \A i \in DOMAIN Append(T, x) :
              \/ i \in DOMAIN T /\ Append(T, x)[i] = T[i]
              \/ i = Len(T) + 1 /\ Append(T, x)[i] = x
OBVIOUS

\* A write that lands: the backend holds one more thought, or a newer snapshot.
LEMMA LandedDurability ==
  ASSUME TypeOK, TypeOK', Generation, Durability, WriteLands
  PROVE  Durability'
<1> DEFINE w == drain.work
           s == drain.work.session
<1>1. /\ drain \in Drain /\ drain # NoDrain /\ ~drain.landed
      /\ w \in Work /\ s \in Sessions /\ w.token \in Nat /\ w.slot \in Slots \cup {"thought"}
  BY DEF WriteLands, Writing, TypeOK, Drain, Work
<1>2. /\ durable' = Saved(durable, w)
      /\ queue' = queue /\ nextSequence' = nextSequence
      /\ UNCHANGED <<barriers, quarantineVars>>
  BY DEF WriteLands, queueVars
<1>3. /\ \A t \in Sessions \ {s} : durable'[t] = durable[t]
      /\ w.slot = "thought" =>
           /\ durable'[s].thoughts = Append(durable[s].thoughts, w.token)
           /\ durable'[s].slots = durable[s].slots
      /\ w.slot # "thought" =>
           /\ durable'[s].thoughts = durable[s].thoughts
           /\ w.slot \in Slots
           /\ durable'[s].slots = [durable[s].slots EXCEPT ![w.slot] = w.token]
  BY <1>1, <1>2, SavedFacts
<1>4. drain' = [drain EXCEPT !.landed = TRUE]
  BY DEF WriteLands
<1>5. drain' \in Drain /\ drain' # NoDrain /\ drain'.work = w /\ drain'.landed
  BY <1>1, <1>4, NoDrainAssumption DEF Drain
<1>6. /\ \A t \in Sessions : durable[t].thoughts \in Seq(Nat) /\ durable[t].slots \in [Slots -> Nat]
      /\ nextSequence \in Nat /\ queue \in SUBSET Work
  BY DEF TypeOK
<1>7. w.token < nextSequence
  BY <1>1 DEF Generation, TokensFresh, GenerationRemembers
<1>8. w \in Pending /\ queue \subseteq Pending /\ Pending' = queue \cup {w}
  BY <1>1, <1>2, <1>5 DEF Pending
<1>9. \A v \in Pending' : v \in Work /\ v.session \in Sessions /\ v.token \in Nat
                          /\ v.slot \in Slots \cup {"thought"}
  BY <1>1, <1>6, <1>8 DEF Work
<1> HIDE DEF w, s
<1>10. w.slot = "thought" => \A i \in DOMAIN durable[s].thoughts : durable[s].thoughts[i] # w.token
  BY <1>1, <1>8 DEF Durability, ThoughtsAreNew, Landed, s, w
<1>11. ASSUME w.slot = "thought"
       PROVE  /\ Len(durable[s].thoughts) + 1 \in DOMAIN durable'[s].thoughts
              /\ durable'[s].thoughts[Len(durable[s].thoughts) + 1] = w.token
              /\ \A i \in DOMAIN durable'[s].thoughts :
                   \/ /\ i \in DOMAIN durable[s].thoughts
                      /\ durable'[s].thoughts[i] = durable[s].thoughts[i]
                   \/ /\ i = Len(durable[s].thoughts) + 1
                      /\ durable'[s].thoughts[i] = w.token
  <2>1. /\ durable[s].thoughts \in Seq(Nat) /\ w.token \in Nat
        /\ durable'[s].thoughts = Append(durable[s].thoughts, w.token)
    BY <1>1, <1>3, <1>6, <1>11 DEF s, w
  <2> QED
    BY <2>1, AppendedThought
<1>12. \A t \in Sessions : ~(t = s /\ w.slot = "thought") => durable'[t].thoughts = durable[t].thoughts
  BY <1>1, <1>3
<1>13. LandedIsDurable'
  <2>1. Reached(durable', w)
    <3>1. CASE w.slot = "thought"
      BY <1>11, <3>1 DEF Reached, s, w
    <3>2. CASE w.slot # "thought"
      <4>1. durable'[s].slots[w.slot] = w.token
        BY <1>1, <1>3, <1>6, <3>2
      <4> QED
        BY <1>1, <3>2, <4>1 DEF Reached, s, w
    <3> QED
      BY <3>1, <3>2
  <2> QED
    BY <1>5, <2>1 DEF LandedIsDurable, Reached
<1>14. SlotsAreOlder'
  <2>1. \A t \in Sessions, k \in Slots :
          \/ durable'[t].slots[k] = durable[t].slots[k]
          \/ t = s /\ k = w.slot /\ durable'[t].slots[k] = w.token
    BY <1>1, <1>3, <1>6
  <2>2. \A t \in Sessions, k \in Slots : durable'[t].slots[k] < nextSequence'
    BY <1>2, <1>7, <2>1 DEF Durability, SlotsAreOlder
  <2>3. ASSUME NEW v \in queue, v.session = w.session, v.slot = w.slot, v.slot # "thought"
        PROVE  w.token <= v.token
    BY <1>1, <2>3 DEF Durability, SlotsAreOlder, w
  <2>4. ASSUME NEW v \in Pending', v.slot # "thought"
        PROVE  durable'[v.session].slots[v.slot] <= v.token
    <3>1. v \in Pending /\ (v \in queue \/ v = w) /\ v.session \in Sessions /\ v.slot \in Slots
      BY <1>8, <1>9, <2>4
    <3>2. CASE durable'[v.session].slots[v.slot] = durable[v.session].slots[v.slot]
      BY <2>4, <3>1, <3>2 DEF Durability, SlotsAreOlder
    <3>3. CASE v.session = s /\ v.slot = w.slot /\ durable'[v.session].slots[v.slot] = w.token
      BY <1>1, <2>3, <2>4, <3>1, <3>3 DEF s, w
    <3> QED
      BY <2>1, <3>1, <3>2, <3>3
  <2> QED
    BY <1>2, <1>5, <2>2, <2>3, <2>4 DEF SlotsAreOlder
<1>15. ThoughtsAreNew'
  <2>1. ASSUME NEW t \in Sessions, NEW i \in DOMAIN durable'[t].thoughts
        PROVE  durable'[t].thoughts[i] < nextSequence'
    <3>1. CASE t = s /\ w.slot = "thought"
      BY <1>2, <1>7, <1>11, <2>1, <3>1 DEF Durability, ThoughtsAreNew
    <3>2. CASE ~(t = s /\ w.slot = "thought")
      BY <1>2, <2>1, <3>2, <1>12 DEF Durability, ThoughtsAreNew
    <3> QED
      BY <3>1, <3>2
  <2>2. ASSUME NEW v \in Pending', v.slot = "thought", ~Landed(v)',
               NEW i \in DOMAIN durable'[v.session].thoughts
        PROVE  durable'[v.session].thoughts[i] # v.token
    <3>1. v # w /\ v \in queue /\ v \in Pending /\ ~Landed(v)
      BY <1>1, <1>5, <1>8, <2>2 DEF Landed
    <3>2. v.token # w.token
      BY <1>1, <3>1 DEF Generation, TokensFresh, w
    <3>3. \A j \in DOMAIN durable[v.session].thoughts : durable[v.session].thoughts[j] # v.token
      BY <2>2, <3>1 DEF Durability, ThoughtsAreNew
    <3>4. CASE v.session = s /\ w.slot = "thought"
      BY <1>11, <2>2, <3>2, <3>3, <3>4
    <3>5. CASE ~(v.session = s /\ w.slot = "thought")
      BY <1>9, <1>12, <2>2, <3>3, <3>5
    <3> QED
      BY <3>4, <3>5
  <2> QED
    BY <2>1, <2>2 DEF ThoughtsAreNew, Landed
<1>16. NoDuplicateThought'
  <2> SUFFICES ASSUME NEW t \in Sessions,
                      NEW i \in DOMAIN durable'[t].thoughts, NEW j \in DOMAIN durable'[t].thoughts,
                      durable'[t].thoughts[i] = durable'[t].thoughts[j]
               PROVE  i = j
    BY DEF NoDuplicateThought
  <2>1. CASE t = s /\ w.slot = "thought"
    BY <1>1, <1>10, <1>11, <2>1 DEF Durability, NoDuplicateThought
  <2>2. CASE ~(t = s /\ w.slot = "thought")
    BY <1>12, <2>2 DEF Durability, NoDuplicateThought
  <2> QED
    BY <2>1, <2>2
<1> QED
  BY <1>13, <1>14, <1>15, <1>16 DEF Durability

\* A reset that clears some sessions: nothing pending is held by the backend for them.
LEMMA ClearedDurability ==
  ASSUME TypeOK, TypeOK', Generation, Durability,
         UNCHANGED queueVars, UNCHANGED drainVars, UNCHANGED quarantineVars,
         NEW b \in Barriers, barriers[b].stage # "cleared", barriers'[b].stage = "cleared",
         barriers'[b].session = barriers[b].session,
         \A c \in Barriers \ {b} : barriers'[c] = barriers[c],
         \A s \in Sessions :
           durable'[s] = IF barriers[b].session \in {s, NoSession} THEN Nothing ELSE durable[s]
  PROVE  Durability'
<1> USE DEF queueVars, drainVars, quarantineVars
<1>1. /\ queue' = queue /\ nextSequence' = nextSequence /\ drain' = drain /\ Pending' = Pending
      /\ nextSequence \in Nat \ {0}
  BY DEF Pending, TypeOK
<1>2. \A s \in Sessions : \/ durable'[s] = durable[s]
                          \/ durable'[s] = Nothing /\ barriers[b].session \in {s, NoSession}
  OBVIOUS
<1>3. /\ DOMAIN Nothing.thoughts = {}
      /\ \A k \in Slots : Nothing.slots[k] = 0
  BY DEF Nothing
<1>4. /\ queue \in SUBSET Work
      /\ drain # NoDrain => drain.work \in Work
      /\ \A w \in Work : /\ w.session \in Sessions /\ w.token \in Nat
                         /\ w.slot # "thought" => w.slot \in Slots
  BY DEF TypeOK, Drain, Work
<1>5. \A w \in Pending : w \in Work
  BY <1>4 DEF Pending
<1>6. \A s \in Sessions : BeingReset(s) => BeingReset(s)'
  BY DEF BeingReset
<1>7. LandedIsDurable'
  <2> SUFFICES ASSUME drain # NoDrain, drain.landed, drain.work \in queue,
                      NEW s \in Sessions, drain.work.session = s, ~BeingReset(s)'
               PROVE  Reached(durable', drain.work)
    BY <1>1, <1>4 DEF LandedIsDurable, Reached, BeingReset
  <2>1. Reached(durable, drain.work)
    BY <1>6 DEF Durability, LandedIsDurable
  <2>2. barriers[b].session \notin {s, NoSession}
    BY DEF BeingReset
  <2>3. durable'[s] = durable[s]
    BY <2>2
  <2> QED
    BY <2>1, <2>3 DEF Reached
<1>8. SlotsAreOlder'
  <2>1. \A s \in Sessions, k \in Slots : durable'[s].slots[k] < nextSequence
    <3> SUFFICES ASSUME NEW s \in Sessions, NEW k \in Slots
                 PROVE  durable'[s].slots[k] < nextSequence
      OBVIOUS
    <3>1. CASE durable'[s] = durable[s]
      BY <3>1 DEF Durability, SlotsAreOlder
    <3>2. CASE durable'[s] = Nothing
      BY <1>1, <1>3, <3>2
    <3> QED
      BY <1>2, <3>1, <3>2
  <2>2. ASSUME NEW w \in Pending, w.slot # "thought"
        PROVE  durable'[w.session].slots[w.slot] <= w.token
    <3>1. w.session \in Sessions /\ w.slot \in Slots /\ w.token \in Nat
      BY <1>4, <1>5, <2>2
    <3>2. CASE durable'[w.session] = durable[w.session]
      BY <2>2, <3>2 DEF Durability, SlotsAreOlder
    <3>3. CASE durable'[w.session] = Nothing
      BY <1>3, <3>1, <3>3
    <3> QED
      BY <1>2, <3>1, <3>2, <3>3
  <2>3. drain # NoDrain => \A w \in queue :
          w.session = drain.work.session /\ w.slot = drain.work.slot /\ w.slot # "thought" =>
            drain.work.token <= w.token
    BY DEF Durability, SlotsAreOlder
  <2> QED
    BY <1>1, <2>1, <2>2, <2>3 DEF SlotsAreOlder
<1>9. ThoughtsAreNew'
  <2>1. ASSUME NEW s \in Sessions, NEW i \in DOMAIN durable'[s].thoughts
        PROVE  durable'[s] = durable[s]
    BY <1>2, <1>3, <2>1
  <2>2. \A s \in Sessions : \A i \in DOMAIN durable'[s].thoughts :
          durable'[s].thoughts[i] < nextSequence
    BY <2>1 DEF Durability, ThoughtsAreNew
  <2>3. ASSUME NEW w \in Pending, w.slot = "thought", ~Landed(w),
               NEW i \in DOMAIN durable'[w.session].thoughts
        PROVE  durable'[w.session].thoughts[i] # w.token
    <3>1. durable'[w.session] = durable[w.session]
      BY <1>4, <1>5, <2>1, <2>3
    <3> QED
      BY <2>3, <3>1 DEF Durability, ThoughtsAreNew
  <2> QED
    BY <1>1, <2>2, <2>3 DEF ThoughtsAreNew, Landed
<1>10. NoDuplicateThought'
  <2> SUFFICES ASSUME NEW s \in Sessions,
                      NEW i \in DOMAIN durable'[s].thoughts, NEW j \in DOMAIN durable'[s].thoughts,
                      durable'[s].thoughts[i] = durable'[s].thoughts[j]
               PROVE  i = j
    BY DEF NoDuplicateThought
  <2>1. durable'[s] = durable[s]
    BY <1>2, <1>3
  <2> QED
    BY <2>1 DEF Durability, NoDuplicateThought
<1> QED
  BY <1>7, <1>8, <1>9, <1>10 DEF Durability

LEMMA DurabilityStep ==
  ASSUME TypeOK, Owners, Generation, Quiescence, Durability, [Next]_vars, TypeOK', Generation'
  PROVE  Durability'
<1> USE DEF queueVars, drainVars
<1>1. queue' \in SUBSET Work /\ nextSequence \in Nat /\ nextSequence' \in Nat
  BY DEF TypeOK
<1>2. \A s \in Sessions : BeingReset(s) => BeingReset(s)' \/ WorkOf(queue', s) = {}
  BY ResetLasts
<1>3. ASSUME Resumes PROVE Durability'
  BY <1>2, <1>3, ResumedIsDurable
<1>4. ASSUME Grows,
             \/ UNCHANGED drainVars
             \/ \E mode \in {"explicit", "background"} : JoinOrStart(mode)
      PROVE  Durability'
  BY <1>1, <1>3, <1>4, JoinResumes
<1>5. ASSUME UNCHANGED durable, nextSequence' = nextSequence, queue' \subseteq queue
      PROVE  Grows
  BY <1>1, <1>5 DEF Grows
<1>6. ASSUME NEW s \in Sessions, BufferThought(s) PROVE Durability'
  <2>1. Grows
    BY <1>1, <1>6, AcceptedIsWork DEF BufferThought, Grows
  <2>2. \/ UNCHANGED drainVars
        \/ JoinOrStart("background")
    BY <1>6 DEF BufferThought
  <2> QED
    BY <1>4, <2>1, <2>2
<1>7. ASSUME NEW s \in Sessions, NEW k \in Slots, BufferSnapshot(s, k) PROVE Durability'
  <2>1. Grows
    BY <1>1, <1>7, AcceptedIsWork DEF BufferSnapshot, Replaced, Grows
  <2> QED
    BY <1>4, <1>7, <2>1 DEF BufferSnapshot
<1>8. ASSUME NEW mode \in {"explicit", "background"}, RequestDrain(mode) PROVE Durability'
  BY <1>4, <1>5, <1>8 DEF RequestDrain
<1>9. CASE WriteLands
  BY <1>9, LandedDurability
<1>10. CASE RetryWrite
  <2>1. drain \in Drain /\ drain # NoDrain /\ ~drain.landed
    BY <1>10 DEF RetryWrite, Writing, TypeOK
  <2>2. /\ drain' = [drain EXCEPT !.attempt = drain.attempt + 1]
        /\ queue' = queue /\ nextSequence' = nextSequence /\ durable' = durable
    BY <1>10 DEF RetryWrite
  <2>3. drain'.work = drain.work /\ drain'.landed = drain.landed
    BY <2>1, <2>2 DEF Drain
  <2>4. \A w \in queue' : w \in queue
    BY <2>2
  <2>5. nextSequence <= nextSequence'
    BY <1>1, <2>2
  <2>6. Resumes
    BY <1>1, <2>1, <2>2, <2>3, <2>4, <2>5 DEF Resumes
  <2> QED
    BY <1>3, <2>6
<1>11. CASE WriteSucceeds \/ WriteFails
  BY <1>3, <1>11, AcknowledgedResumes
<1>12. ASSUME NEW b \in Barriers,
              \/ \E s \in Sessions, kind \in {"reset", "eviction"} : BeginSessionBarrier(b, s, kind)
              \/ BeginGlobalReset(b)
              \/ ResumeSessionBarrier(b) \/ FailSessionReset(b)
              \/ \E ok \in BOOLEAN : FinishEviction(b, ok)
              \/ GlobalDrained(b) \/ FailGlobalReset(b)
              \/ CommitSessionReset(b) \/ CommitGlobalReset(b)
       PROVE  Durability'
  <2>1. /\ UNCHANGED <<durable, drainVars>> /\ nextSequence' = nextSequence
        /\ queue' \subseteq queue
    BY <1>12 DEF BeginSessionBarrier, BeginGlobalReset, ResumeSessionBarrier, FailSessionReset,
                 FinishEviction, GlobalDrained, FailGlobalReset, CommitSessionReset,
                 CommitGlobalReset, Discarded
  <2> QED
    BY <1>4, <1>5, <2>1
<1>13. ASSUME NEW b \in Barriers, StartSessionBarrier(b) \/ StartGlobalReset(b) PROVE Durability'
  BY <1>4, <1>5, <1>13 DEF StartSessionBarrier, StartGlobalReset
<1>14. ASSUME NEW b \in Barriers, barriers' = [barriers EXCEPT ![b].stage = "cleared"]
       PROVE  /\ barriers'[b].stage = "cleared"
              /\ barriers'[b].session = barriers[b].session
              /\ \A c \in Barriers \ {b} : barriers'[c] = barriers[c]
  BY <1>14 DEF TypeOK, Barrier
<1>15. durable \in [Sessions -> [thoughts : Seq(Nat), slots : [Slots -> Nat]]]
  BY DEF TypeOK
<1>16. ASSUME NEW b \in Barriers, ClearSession(b) PROVE Durability'
  <2>1. /\ barriers[b].session \in Sessions /\ barriers[b].stage # "cleared"
        /\ durable' = [durable EXCEPT ![barriers[b].session] = Nothing]
        /\ barriers' = [barriers EXCEPT ![b].stage = "cleared"]
        /\ UNCHANGED queueVars /\ UNCHANGED drainVars /\ UNCHANGED quarantineVars
    BY <1>16 DEF ClearSession, Owners, BarrierShape, OfSession
  <2>2. \A s \in Sessions :
          durable'[s] = IF barriers[b].session \in {s, NoSession} THEN Nothing ELSE durable[s]
    BY <1>15, <2>1, ConstantsAssumption
  <2> QED
    BY <1>14, <2>1, <2>2, ClearedDurability
<1>17. ASSUME NEW b \in Barriers, ClearAll(b) PROVE Durability'
  <2>1. /\ barriers[b].session = NoSession /\ barriers[b].stage # "cleared"
        /\ durable' = [s \in Sessions |-> Nothing]
        /\ barriers' = [barriers EXCEPT ![b].stage = "cleared"]
        /\ UNCHANGED queueVars /\ UNCHANGED drainVars /\ UNCHANGED quarantineVars
    BY <1>17 DEF ClearAll, Owners, BarrierShape, OfAll
  <2>2. \A s \in Sessions :
          durable'[s] = IF barriers[b].session \in {s, NoSession} THEN Nothing ELSE durable[s]
    BY <2>1
  <2> QED
    BY <1>14, <2>1, <2>2, ClearedDurability
<1>18. CASE UNCHANGED vars
  BY <1>4, <1>5, <1>18 DEF vars
<1> QED
  BY <1>6, <1>7, <1>8, <1>9, <1>10, <1>11, <1>12, <1>13, <1>16, <1>17, <1>18
  DEF Next, Write, Proceed

-----------------------------------------------------------------------------
(* The invariant, and what follows from it.                                *)

LEMMA InitInv == Init => IInv
<1> SUFFICES ASSUME Init PROVE IInv
  OBVIOUS
<1>1. NoBarrier \in Barrier /\ NoBarrier.kind = "none" /\ NoBarrier.stage = "idle"
      /\ NoBarrier.joined = "none"
  BY DEF NoBarrier, Barrier
<1>2. Nothing \in [thoughts : Seq(Nat), slots : [Slots -> Nat]]
      /\ Nothing.thoughts = <<>> /\ Nothing.slots = [k \in Slots |-> 0]
  BY DEF Nothing
<1>3. \A b \in Barriers : barriers[b] = NoBarrier
  BY DEF Init
<1>4. TypeOK
  <2>1. /\ durable \in [Sessions -> [thoughts : Seq(Nat), slots : [Slots -> Nat]]]
        /\ barriers \in [Barriers -> Barrier]
        /\ sessionBarriers \in [Sessions -> Seq(Barriers)]
        /\ globalBarriers \in Seq(Barriers)
    BY <1>1, <1>2 DEF Init
  <2>2. /\ queue = {} /\ failed = {} /\ nextSequence = 1
        /\ drain = NoDrain /\ settlement = "resolved"
        /\ quarantined = {} /\ evictionQuarantined = {} /\ globalQuarantined = FALSE
    BY DEF Init, QueueInit
  <2>3. queue \in SUBSET Work /\ failed \in SUBSET queue
    BY <2>2
  <2>4. nextSequence \in Nat \ {0} /\ drain \in Drain \cup {NoDrain}
    BY <2>2
  <2>5. /\ settlement \in {"pending", "resolved", "rejected"}
        /\ quarantined \in SUBSET Sessions /\ evictionQuarantined \in SUBSET Sessions
        /\ globalQuarantined \in BOOLEAN
    BY <2>2
  <2> QED
    BY <2>1, <2>3, <2>4, <2>5 DEF TypeOK
<1>5. BarrierShape
  BY <1>1, <1>3 DEF BarrierShape, OfSession, OfAll
<1>6. SessionFifo /\ GlobalFifo /\ GlobalAlone
  BY <1>1, <1>3 DEF Init, SessionFifo, GlobalFifo, GlobalAlone, OfSession, OfAll
<1>7. Generation
  BY DEF Init, QueueInit, Generation, TokensFresh, GenerationRemembers
<1>8. Quiescence
  BY <1>1, <1>3 DEF Quiescence, JoinedAreExplicit, SettledAreQuiet, EvictionsFindNothing,
                    OfSession, Operating
<1>9. \A s \in Sessions : durable[s].thoughts = <<>> /\ \A k \in Slots : durable[s].slots[k] = 0
  BY <1>2 DEF Init
<1>10. Durability
  BY <1>9 DEF Init, QueueInit, Durability, LandedIsDurable, SlotsAreOlder, ThoughtsAreNew,
              NoDuplicateThought, Pending
<1> QED
  BY <1>4, <1>5, <1>6, <1>7, <1>8, <1>10 DEF IInv, Owners

LEMMA StepInv == IInv /\ [Next]_vars => IInv'
<1> SUFFICES ASSUME IInv, [Next]_vars PROVE IInv'
  OBVIOUS
<1>1. TypeOK /\ Owners /\ Generation /\ Quiescence /\ Durability
  BY DEF IInv
<1>2. TypeOK' /\ Owners'
  <2>1. CASE UNCHANGED vars
    <3>1. UNCHANGED <<barriers, sessionBarriers, globalBarriers>>
      BY <2>1 DEF vars, ownerVars
    <3>2. TypeOK'
      BY <1>1, <2>1 DEF TypeOK, vars, queueVars, drainVars, ownerVars, quarantineVars
    <3>3. Owners'
      BY <1>1, <3>1 DEF Owners, BarrierShape, SessionFifo, GlobalFifo, GlobalAlone, OfSession, OfAll
    <3> QED
      BY <3>2, <3>3
  <2>2. CASE Next
    <3>1. ASSUME NEW b \in Barriers, NEW s \in Sessions, NEW kind \in {"reset", "eviction"},
                 BeginSessionBarrier(b, s, kind)
          PROVE  TypeOK' /\ Owners'
      BY <1>1, <3>1, NewSessionBarrier
    <3>2. ASSUME NEW b \in Barriers, BeginGlobalReset(b) PROVE TypeOK' /\ Owners'
      BY <1>1, <3>2, NewGlobalBarrier
    <3>3. ASSUME NEW b \in Barriers, Proceed(b) PROVE TypeOK' /\ Owners'
      BY <1>1, <3>3, BarrierStructure
    <3> QED
      BY <1>1, <2>2, <3>1, <3>2, <3>3, WorkStructure DEF Next
  <2> QED
    BY <2>1, <2>2
<1>3. Generation'
  BY <1>1, GenerationStep
<1>4. Quiescence'
  BY <1>1, <1>2, <1>3, QuiescenceStep
<1>5. Durability'
  BY <1>1, <1>2, <1>3, DurabilityStep
<1> QED
  BY <1>2, <1>3, <1>4, <1>5 DEF IInv

\* The inductive invariant: who owns what, what a generation remembers, what a barrier
\* may rely on, and what of the accepted work the backend holds.
THEOREM Invariance == Spec => []IInv
<1>1. Init => IInv
  BY InitInv
<1>2. IInv /\ [Next]_vars => IInv'
  BY StepInv
<1> QED
  BY <1>1, <1>2, PTL DEF Spec

\* Every variable of the buffer has its type.
THEOREM TypeCorrect == Spec => []TypeOK
<1>1. IInv => TypeOK
  BY DEF IInv
<1> QED
  BY <1>1, Invariance, PTL

\* A barrier whose operation runs owns its session (PersistenceBuffer.ts,
\* withSessionResetBarrier, withSessionEvictionBarrier, withGlobalResetBarrier): nothing
\* operates beside it, an eviction finds the session quiescent and a reset finds only
\* work that has failed, whatever drains, failures and admissions came before.
THEOREM BarriersOwnTheirSession == Spec => []BarriersOwn
<1>1. IInv => BarriersOwn
  <2> SUFFICES ASSUME IInv PROVE BarriersOwn
    OBVIOUS
  <2>1. TypeOK /\ Owners /\ SettledAreQuiet /\ EvictionsFindNothing
    BY DEF IInv, Quiescence
  <2>2. \A b \in Barriers : Operating(b) => (OfSession(b) \/ OfAll(b)) /\ barriers[b].stage # "queued"
    BY <2>1, BegunBarrier DEF Operating
  <2>3. OneOwner
    <3> SUFFICES ASSUME NEW b \in Barriers, NEW c \in Barriers,
                        Operating(b), Operating(c), b # c
                 PROVE  ~OfAll(b) /\ barriers[b].session # barriers[c].session
      BY DEF OneOwner, OfAll
    <3>1. CASE OfSession(b)
      BY <2>1, <2>2, <3>1, BegunAreApart DEF OfSession, OfAll
    <3>2. CASE OfAll(b) /\ OfSession(c)
      BY <2>1, <2>2, <3>2, BegunAreApart DEF OfSession, OfAll
    <3>3. CASE OfAll(b) /\ OfAll(c)
      BY <2>1, <2>2, <3>3, GlobalHead
    <3> QED
      BY <2>2, <3>1, <3>2, <3>3
  <2>4. ASSUME NEW b \in Barriers, Operating(b), OfSession(b)
        PROVE  Quiet(barriers[b].session)
    BY <2>1, <2>4 DEF SettledAreQuiet
  <2>5. failed \subseteq queue
    BY <2>1 DEF TypeOK
  <2>6. EvictionIsQuiescent
    BY <2>1, <2>4, <2>5 DEF EvictionIsQuiescent, EvictionsFindNothing, Quiet, OfSession, WorkOf
  <2>7. ResetOwnsSession
    BY <2>4 DEF ResetOwnsSession, Quiet, OfSession
  <2> QED
    BY <2>3, <2>6, <2>7 DEF BarriersOwn
<1> QED
  BY <1>1, Invariance, PTL

\* What leaves the queue has reached the backend, was replaced or is being reset.
LEMMA LeavesTheQueue ==
  ASSUME IInv, [Next]_vars, NEW w \in queue \ queue'
  PROVE  \/ Reached(durable', w)
         \/ \E v \in queue' : v.session = w.session /\ v.slot = w.slot /\ v.token > w.token
         \/ BeingReset(w.session)
<1> USE DEF queueVars
<1>1. TypeOK /\ Owners /\ Generation /\ Durability
  BY DEF IInv
<1>2. w \in Work /\ w.token \in Nat /\ w.token < nextSequence /\ nextSequence \in Nat
  BY <1>1 DEF TypeOK, Work, Generation, TokensFresh
<1>3. queue # queue'
  OBVIOUS
<1>4. ASSUME NEW s \in Sessions, NEW k \in Slots, BufferSnapshot(s, k)
      PROVE  \E v \in queue' : v.session = w.session /\ v.slot = w.slot /\ v.token > w.token
  BY <1>1, <1>2, <1>4, AcceptedIsWork DEF BufferSnapshot, Replaced
<1>5. ASSUME WriteSucceeds
      PROVE  Reached(durable', w) \/ BeingReset(w.session)
  BY <1>1, <1>5 DEF WriteSucceeds, Durability, LandedIsDurable
<1>6. ASSUME NEW b \in Barriers, CommitSessionReset(b) PROVE BeingReset(w.session)
  BY <1>6 DEF CommitSessionReset, Discarded, BeingReset
<1>7. ASSUME NEW b \in Barriers, CommitGlobalReset(b) PROVE BeingReset(w.session)
  <2>1. barriers[b].session = NoSession /\ barriers[b].stage = "cleared"
    BY <1>1, <1>7 DEF CommitGlobalReset, Owners, BarrierShape, OfAll
  <2> QED
    BY <2>1 DEF BeingReset
<1>8. ASSUME NEW s \in Sessions, BufferThought(s) PROVE FALSE
  BY <1>8 DEF BufferThought
<1>9. ASSUME \/ \E mode \in {"explicit", "background"} : RequestDrain(mode)
             \/ WriteLands \/ RetryWrite \/ WriteFails
      PROVE  FALSE
  BY <1>3, <1>9 DEF RequestDrain, WriteLands, RetryWrite, WriteFails
<1>10. ASSUME NEW b \in Barriers,
              \/ \E s \in Sessions, kind \in {"reset", "eviction"} : BeginSessionBarrier(b, s, kind)
              \/ BeginGlobalReset(b)
              \/ StartSessionBarrier(b) \/ ResumeSessionBarrier(b)
              \/ ClearSession(b) \/ FailSessionReset(b)
              \/ \E ok \in BOOLEAN : FinishEviction(b, ok)
              \/ StartGlobalReset(b) \/ GlobalDrained(b)
              \/ ClearAll(b) \/ FailGlobalReset(b)
       PROVE  FALSE
  BY <1>3, <1>10 DEF BeginSessionBarrier, BeginGlobalReset, StartSessionBarrier,
     ResumeSessionBarrier, ClearSession, FailSessionReset, FinishEviction, StartGlobalReset,
     GlobalDrained, ClearAll, FailGlobalReset
<1>11. ASSUME UNCHANGED vars PROVE FALSE
  BY <1>3, <1>11 DEF vars
<1> QED
  BY <1>4, <1>5, <1>6, <1>7, <1>8, <1>9, <1>10, <1>11 DEF Next, Write, Proceed

\* A slot of the backend is cleared or gets a newer snapshot.
LEMMA SlotGrows ==
  ASSUME IInv, [Next]_vars, NEW s \in Sessions, NEW k \in Slots
  PROVE  durable'[s].slots[k] \in {0} \cup {n \in Nat : n >= durable[s].slots[k]}
<1>1. TypeOK /\ Generation /\ SlotsAreOlder
  BY DEF IInv, Durability
<1>2. /\ durable[s].slots[k] \in Nat
      /\ durable \in [Sessions -> [thoughts : Seq(Nat), slots : [Slots -> Nat]]]
  BY <1>1 DEF TypeOK
<1>3. Nothing.slots[k] = 0
  BY DEF Nothing
<1>4. CASE WriteLands
  <2>1. /\ drain \in Drain /\ drain # NoDrain /\ durable' = Saved(durable, drain.work)
        /\ drain.work \in Work
    BY <1>1, <1>4 DEF TypeOK, Drain, WriteLands, Writing
  <2>2. drain.work \in Pending
    BY <2>1 DEF Pending
  <2>3. drain.work.token \in Nat /\ drain.work.session \in Sessions
    BY <2>1 DEF Work
  <2>4. /\ durable[drain.work.session].slots \in [Slots -> Nat]
        /\ drain.work.slot # "thought" =>
             durable[drain.work.session].slots[drain.work.slot] <= drain.work.token
    BY <1>1, <1>2, <2>2, <2>3 DEF SlotsAreOlder
  <2>5. CASE s = drain.work.session /\ drain.work.slot # "thought"
    <3>1. durable'[s].slots = [durable[s].slots EXCEPT ![drain.work.slot] = drain.work.token]
      BY <1>1, <2>1, <2>5, SavedFacts
    <3> QED
      BY <1>2, <2>3, <2>4, <2>5, <3>1
  <2>6. CASE ~(s = drain.work.session /\ drain.work.slot # "thought")
    <3>1. durable'[s].slots = durable[s].slots
      BY <1>1, <2>1, <2>6, SavedFacts
    <3> QED
      BY <1>2, <3>1
  <2> QED
    BY <2>5, <2>6
<1>5. ASSUME NEW b \in Barriers, ClearSession(b) \/ ClearAll(b)
      PROVE  durable'[s] = durable[s] \/ durable'[s] = Nothing
  BY <1>2, <1>5 DEF ClearSession, ClearAll
<1>6. ASSUME durable' = durable \/ \E b \in Barriers : ClearSession(b) \/ ClearAll(b)
      PROVE  durable'[s].slots[k] \in {0} \cup {n \in Nat : n >= durable[s].slots[k]}
  BY <1>2, <1>3, <1>5, <1>6
<1>7. WriteLands \/ durable' = durable \/ \E b \in Barriers : ClearSession(b) \/ ClearAll(b)
  BY DEF Next, vars, Write, Proceed, BufferThought, BufferSnapshot, RequestDrain, RetryWrite,
     WriteSucceeds, WriteFails, BeginSessionBarrier, BeginGlobalReset, StartSessionBarrier,
     ResumeSessionBarrier, CommitSessionReset, FailSessionReset, FinishEviction,
     StartGlobalReset, GlobalDrained, CommitGlobalReset, FailGlobalReset
<1> QED
  BY <1>4, <1>6, <1>7

\* Accepted work is made durable once (PersistenceWorkQueue.ts, acknowledgeSuccess and
\* the replacement of a slot's entry; PersistenceWriter.ts): nothing leaves the queue
\* unwritten, unreplaced and without a reset, no thought is appended twice, and no
\* durable snapshot is overwritten by an older one, across retries, terminal failures,
\* re-armed generations, resets and evictions.
THEOREM WorkEndures == Spec => AcceptedWorkEndures
<1>1. IInv => NoDuplicateThought
  BY DEF IInv, Durability
<1>2. IInv /\ [Next]_vars =>
        [\A w \in queue \ queue' :
           \/ Reached(durable', w)
           \/ \E v \in queue' : v.session = w.session /\ v.slot = w.slot /\ v.token > w.token
           \/ BeingReset(w.session)]_vars
  BY LeavesTheQueue
<1>3. IInv /\ [Next]_vars =>
        [\A s \in Sessions, k \in Slots :
           durable'[s].slots[k] \in {0} \cup {n \in Nat : n >= durable[s].slots[k]}]_vars
  BY SlotGrows
<1> QED
  BY <1>1, <1>2, <1>3, Invariance, PTL DEF Spec, AcceptedWorkEndures, WorkNotLost, SlotsNeverRegress

\* An explicit drain that resolves has written everything that was accepted
\* (PersistenceBuffer.ts, _runDrain and _closeGeneration).
THEOREM ResolvedIsComplete == Spec => ResolvedDrainIsComplete
<1>1. ASSUME IInv, [Next]_vars, drain # NoDrain, drain.mode = "explicit", settlement' = "resolved"
      PROVE  queue' = {}
  <2>1. TypeOK /\ Generation /\ TypeOK'
    BY <1>1, StepInv DEF IInv
  <2>2. settlement = "pending" /\ settlement' # settlement
    BY <1>1, <2>1 DEF Generation, GenerationRemembers
  <2>3. ASSUME NEW mode, JoinOrStart(mode) PROVE FALSE
    BY <1>1, <2>2, <2>3 DEF JoinOrStart
  <2>4. WriteSucceeds \/ WriteFails
    BY <1>1, <2>2, <2>3 DEF Next, vars, drainVars, Write, Proceed, BufferThought, BufferSnapshot,
       RequestDrain, WriteLands, RetryWrite, BeginSessionBarrier, BeginGlobalReset,
       StartSessionBarrier, ResumeSessionBarrier, ClearSession, CommitSessionReset,
       FailSessionReset, FinishEviction, StartGlobalReset, GlobalDrained, ClearAll,
       CommitGlobalReset, FailGlobalReset
  <2>5. /\ drain \in Drain /\ queue' \in SUBSET Work
        /\ drain.selected \in SUBSET Work
        /\ Run("explicit", drain.selected)
    BY <1>1, <2>1, <2>4 DEF TypeOK, Drain, WriteSucceeds, WriteFails
  <2>6. drain.selected \cap queue' \subseteq failed'
    BY <1>1, <2>1, <2>4 DEF WriteSucceeds, WriteFails, IsCurrent, Generation, GenerationRemembers, TypeOK
  <2>7. /\ Eligible("explicit", drain.selected, queue', failed') = {}
        /\ drain.selected \cap queue' \cap failed' = {}
    BY <1>1, <2>5, RunCases
  <2> QED
    BY <2>6, <2>7 DEF Eligible
<1>2. IInv /\ [Next]_vars =>
        [drain # NoDrain /\ drain.mode = "explicit" /\ settlement' = "resolved" => queue' = {}]_vars
  BY <1>1
<1> QED
  BY <1>2, Invariance, PTL DEF Spec, ResolvedDrainIsComplete

=============================================================================
