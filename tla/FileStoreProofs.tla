---------------------------- MODULE FileStoreProofs ----------------------------
(* Proofs about FileStore, for any processes and mutations.                      *)
EXTENDS FileStore, TLAPS

\* Where a process serves its queue.
Serving == {"open", "writing", "renaming", "cleaning"}

\* Mutations wait only in the process that owns the directory, each once, and the one
\* that is being written is the first.
QueueOwned ==
    /\ \A p \in Procs : queue[p] # <<>> => pc[p] \in Serving
    /\ \A p \in Procs : pc[p] \in {"writing", "renaming", "cleaning"} => queue[p] # <<>>
    /\ \A p \in Procs : \A i \in 1..Len(queue[p]) : outcome[queue[p][i]] = "queued"
    /\ \A p \in Procs : \A i, j \in 1..Len(queue[p]) : queue[p][i] = queue[p][j] => i = j

IInv == TypeOK /\ DirectoryOwnership /\ QueueOwned /\ AcknowledgedIsDurable

--------------------------------------------------------------------------------
(* Lemmas. *)

\* The place of one process changes.
LEMMA Goes ==
    ASSUME TypeOK, NEW p \in Procs, NEW label \in Owning \cup {"down", "locking"}, Goto(p, label)
    PROVE  /\ pc' \in [Procs -> Owning \cup {"down", "locking"}]
           /\ pc'[p] = label
           /\ \A q \in Procs \ {p} : pc'[q] = pc[q]
BY DEF TypeOK, Goto

\* A sequence that is not empty, and what is left of it.
LEMMA HeadAndTail ==
    ASSUME NEW S, NEW q \in Seq(S), q # <<>>
    PROVE  /\ Len(q) \in Nat \ {0}
           /\ Head(q) \in S /\ Head(q) = q[1]
           /\ Tail(q) \in Seq(S)
           /\ Len(Tail(q)) = Len(q) - 1
           /\ \A i \in 1..Len(Tail(q)) : i + 1 \in 1..Len(q) /\ Tail(q)[i] = q[i + 1]
OBVIOUS

\* Whoever serves owns the directory, and alone.
LEMMA ServesAlone ==
    ASSUME TypeOK, DirectoryOwnership, QueueOwned,
           NEW p \in Procs, pc[p] \in Owning, NEW q \in Procs, q # p
    PROVE  pc[q] \notin Owning /\ queue[q] = <<>>
BY DEF DirectoryOwnership, QueueOwned, Owning, Serving

\* Settling the first mutation of a queue.
LEMMA Settles ==
    ASSUME TypeOK, QueueOwned, NEW p \in Procs, queue[p] # <<>>,
           NEW result \in {"done", "failed"}, Settle(p, result),
           \A q \in Procs \ {p} : queue[q] = <<>>
    PROVE  /\ pc' \in [Procs -> Owning \cup {"down", "locking"}]
           /\ queue' \in [Procs -> Seq(Writes)]
           /\ outcome' \in [Writes -> {"none", "queued", "done", "failed", "lost"}]
           /\ pc'[p] = "open"
           /\ \A q \in Procs \ {p} : pc'[q] = pc[q]
           /\ Head(queue[p]) \in Writes
           /\ outcome[Head(queue[p])] = "queued"
           /\ outcome'[Head(queue[p])] = result
           /\ \A w \in Writes : w # Head(queue[p]) => outcome'[w] = outcome[w]
           /\ QueueOwned'
<1> DEFINE h == Head(queue[p])
           t == Tail(queue[p])
<1>1. queue[p] \in Seq(Writes)
    BY DEF TypeOK
<1>2. /\ Len(queue[p]) \in Nat \ {0}
      /\ h \in Writes /\ h = queue[p][1]
      /\ t \in Seq(Writes) /\ Len(t) = Len(queue[p]) - 1
      /\ \A i \in 1..Len(t) : i + 1 \in 1..Len(queue[p]) /\ t[i] = queue[p][i + 1]
    BY <1>1, HeadAndTail
<1>3. /\ outcome' = [outcome EXCEPT ![h] = result]
      /\ queue' = [queue EXCEPT ![p] = t]
      /\ Goto(p, "open")
    BY DEF Settle
<1> HIDE DEF h, t
<1>4. /\ queue' \in [Procs -> Seq(Writes)]
      /\ queue'[p] = t /\ \A q \in Procs \ {p} : queue'[q] = queue[q]
    BY <1>2, <1>3 DEF TypeOK
<1>5. /\ outcome' \in [Writes -> {"none", "queued", "done", "failed", "lost"}]
      /\ outcome'[h] = result
      /\ \A w \in Writes : w # h => outcome'[w] = outcome[w]
    BY <1>2, <1>3 DEF TypeOK
<1>6. /\ pc' \in [Procs -> Owning \cup {"down", "locking"}]
      /\ pc'[p] = "open" /\ \A q \in Procs \ {p} : pc'[q] = pc[q]
    BY <1>3, Goes DEF Owning
<1>7. outcome[h] = "queued"
    BY <1>2 DEF QueueOwned
<1>8. \A i \in 1..Len(t) : t[i] \in Writes /\ t[i] # h /\ outcome[t[i]] = "queued"
    BY <1>1, <1>2 DEF QueueOwned
<1>9. \A i, j \in 1..Len(t) : t[i] = t[j] => i = j
    BY <1>2 DEF QueueOwned
<1>10. QueueOwned'
    <2>1. \A q \in Procs : queue'[q] # <<>> => q = p
        BY <1>4
    <2>2. \A q \in Procs : pc'[q] \in {"writing", "renaming", "cleaning"} => queue'[q] # <<>>
        BY <1>4, <1>6 DEF QueueOwned
    <2>3. \A q \in Procs \ {p} : Len(queue'[q]) = 0
        BY <1>4
    <2>4. \A q \in Procs : \A i \in 1..Len(queue'[q]) : outcome'[queue'[q][i]] = "queued"
        BY <1>4, <1>5, <1>8, <2>3
    <2>5. \A q \in Procs : \A i, j \in 1..Len(queue'[q]) : queue'[q][i] = queue'[q][j] => i = j
        BY <1>4, <1>9, <2>3
    <2> QED
        BY <1>6, <2>1, <2>2, <2>4, <2>5 DEF QueueOwned, Serving
<1> QED
    BY <1>2, <1>4, <1>5, <1>6, <1>7, <1>10 DEF h

LEMMA InitInv == Init => IInv
<1> SUFFICES ASSUME Init PROVE IInv
    OBVIOUS
<1>1. \A p \in Procs : pc[p] = "down" /\ queue[p] = <<>> /\ Len(queue[p]) = 0
    BY DEF Init
<1>2. TypeOK
    <2>1. /\ pc \in [Procs -> Owning \cup {"down", "locking"}]
          /\ queue \in [Procs -> Seq(Writes)]
          /\ staged \in [Procs -> SUBSET Writes]
          /\ outcome \in [Writes -> {"none", "queued", "done", "failed", "lost"}]
        BY DEF Init
    <2>2. starts \in 0..MaxStarts
        BY BoundsAssumption DEF Init
    <2> QED
        BY <2>1, <2>2 DEF Init, TypeOK
<1>3. DirectoryOwnership
    BY <1>1 DEF DirectoryOwnership, Owning
<1>4. QueueOwned
    BY <1>1 DEF QueueOwned
<1>5. AcknowledgedIsDurable
    BY <1>1 DEF Init, AcknowledgedIsDurable
<1> QED
    BY <1>2, <1>3, <1>4, <1>5 DEF IInv

--------------------------------------------------------------------------------
(* The steps. *)

\* A step that leaves queues and outcomes alone, and the place of a process that serves
\* where it serves.
LEMMA QueuesStay ==
    ASSUME TypeOK, QueueOwned, UNCHANGED <<queue, outcome>>, NEW p \in Procs,
           \A q \in Procs \ {p} : pc'[q] = pc[q],
           \/ pc'[p] \in Serving \ {"writing", "renaming", "cleaning"}
           \/ pc'[p] \in Serving /\ queue[p] # <<>>
           \/ pc'[p] \notin Serving /\ queue[p] = <<>>
    PROVE  QueueOwned'
BY DEF QueueOwned, Serving

\* What was published stays, and nothing is staged or told anew.
LEMMA PublishedStays ==
    ASSUME TypeOK, AcknowledgedIsDurable, UNCHANGED <<snapshot, staged, outcome, queue>>,
           \A p \in Procs : pc'[p] \in {"writing", "renaming"} => pc[p] \in {"writing", "renaming"}
    PROVE  AcknowledgedIsDurable'
BY DEF AcknowledgedIsDurable

\* The directory changes hands.
LEMMA LockStep ==
    ASSUME IInv, NEW p \in Procs,
           Lock(p) \/ Mark(p) \/ Unmark(p) \/ Unlock(p) \/ Release(p) \/ RemoveDirectory(p)
    PROVE  IInv'
<1>1. TypeOK /\ DirectoryOwnership /\ QueueOwned /\ AcknowledgedIsDurable
    BY DEF IInv
<1>2. /\ UNCHANGED <<temps, snapshot, queue, closing, staged, outcome, starts>>
      /\ lockDir' \in BOOLEAN
      /\ markers' \subseteq Procs
    BY <1>1 DEF Lock, Mark, Unmark, Unlock, Release, RemoveDirectory, RemoveLock, TypeOK
<1>3. PICK label \in {"marking", "loading", "unmarking", "unlocking", "rmdir", "down"} :
          /\ Goto(p, label)
          /\ label \in Owning =>
               /\ lockDir'
               /\ label = "loading" => p \in markers'
               /\ pc[p] \in Owning \/ ~lockDir
          /\ label = "down" \/ lockDir' = lockDir \/ ~lockDir
          /\ label = "down" => pc[p] \in Owning \/ lockDir' = lockDir
          /\ \A q \in Procs \ {p} : q \in markers => q \in markers'
    <2>1. pc[p] \in Owning => lockDir
        BY <1>1 DEF DirectoryOwnership
    <2>2. CASE Lock(p)
        <3>1. CASE Available /\ lockDir' = TRUE /\ Goto(p, "marking")
            BY <2>2, <3>1 DEF Lock, Available
        <3>2. CASE Goto(p, "down") /\ UNCHANGED lockDir
            BY <2>2, <3>2 DEF Lock, Owning
        <3> QED
            BY <2>2, <3>1, <3>2 DEF Lock
    <2>3. CASE Mark(p)
        BY <2>1, <2>3 DEF Mark, Owning
    <2>4. CASE Unmark(p)
        BY <2>1, <2>4 DEF Unmark, Owning
    <2>5. CASE Unlock(p)
        BY <2>1, <2>5 DEF Unlock, Owning
    <2>6. CASE Release(p)
        BY <2>1, <2>6 DEF Release, Owning
    <2>7. CASE RemoveDirectory(p)
        BY <2>1, <2>7 DEF RemoveDirectory, Owning
    <2> QED
        BY <2>2, <2>3, <2>4, <2>5, <2>6, <2>7
<1>4. /\ pc' \in [Procs -> Owning \cup {"down", "locking"}]
      /\ pc'[p] = label
      /\ \A q \in Procs \ {p} : pc'[q] = pc[q]
    BY <1>1, <1>3, Goes DEF Owning
<1>5. TypeOK'
    BY <1>1, <1>2, <1>4 DEF TypeOK
<1>6. \A q \in Procs \ {p} : pc[q] \in Owning => pc[p] \notin Owning /\ lockDir
    BY <1>1 DEF DirectoryOwnership
<1>7. DirectoryOwnership'
    <2>1. \A q \in Procs \ {p} : pc[q] \in Owning => pc'[p] \notin Owning /\ lockDir'
        BY <1>3, <1>4, <1>6
    <2>2. pc'[p] \in Owning => lockDir'
        BY <1>3, <1>4
    <2>3. \A q \in Procs : pc'[q] \in {"loading", "open", "writing", "renaming", "cleaning"}
                             => q \in markers'
        BY <1>1, <1>3, <1>4 DEF DirectoryOwnership
    <2> QED
        BY <1>1, <1>4, <2>1, <2>2, <2>3 DEF DirectoryOwnership
<1>8. queue[p] = <<>>
    BY <1>1 DEF QueueOwned, Serving, Lock, Mark, Unmark, Unlock, Release, Drained, RemoveDirectory
<1>9. QueueOwned'
    BY <1>1, <1>2, <1>4, <1>8, QueuesStay DEF Serving
<1>10. AcknowledgedIsDurable'
    BY <1>1, <1>2, <1>4, PublishedStays
<1> QED
    BY <1>5, <1>7, <1>9, <1>10 DEF IInv

\* The owner stays where it serves: the directory is not touched.
LEMMA OwnershipStays ==
    ASSUME TypeOK, DirectoryOwnership, NEW p \in Procs, pc[p] \in Serving, pc'[p] \in Serving,
           UNCHANGED <<lockDir, markers>>, \A q \in Procs \ {p} : pc'[q] = pc[q]
    PROVE  DirectoryOwnership'
<1>1. pc[p] \in Owning /\ lockDir /\ p \in markers
    BY DEF DirectoryOwnership, Serving, Owning
<1> QED
    BY <1>1 DEF DirectoryOwnership, Serving

LEMMA ServeStep ==
    ASSUME IInv, NEW p \in Procs, Load(p) \/ WriteTemporary(p) \/ Rename(p) \/ Clean(p)
    PROVE  IInv'
<1>1. TypeOK /\ DirectoryOwnership /\ QueueOwned /\ AcknowledgedIsDurable
    BY DEF IInv
<1>2. /\ pc[p] \in Serving /\ pc[p] \in Owning /\ queue[p] # <<>>
      /\ UNCHANGED <<lockDir, markers, closing, starts>>
    BY <1>1 DEF Load, WriteTemporary, Rename, Clean, files, QueueOwned, Serving, Owning
<1>3. \A q \in Procs \ {p} : pc[q] \notin Owning /\ queue[q] = <<>>
    BY <1>1, <1>2, ServesAlone
<1>4. queue[p] \in Seq(Writes) /\ Head(queue[p]) \in Writes
    BY <1>1, <1>2, HeadAndTail DEF TypeOK
<1>5. ASSUME NEW result \in {"done", "failed"}, Settle(p, result),
             UNCHANGED staged, temps' \subseteq Procs,
             result = "failed" => snapshot' = snapshot,
             result = "done" => snapshot' = snapshot \cup {Head(queue[p])}
      PROVE  IInv'
    <2>1. /\ pc' \in [Procs -> Owning \cup {"down", "locking"}]
          /\ queue' \in [Procs -> Seq(Writes)]
          /\ outcome' \in [Writes -> {"none", "queued", "done", "failed", "lost"}]
          /\ pc'[p] = "open"
          /\ \A q \in Procs \ {p} : pc'[q] = pc[q]
          /\ outcome[Head(queue[p])] = "queued"
          /\ outcome'[Head(queue[p])] = result
          /\ \A w \in Writes : w # Head(queue[p]) => outcome'[w] = outcome[w]
          /\ QueueOwned'
        BY <1>1, <1>2, <1>3, <1>5, Settles
    <2>2. snapshot' \subseteq Writes
        BY <1>1, <1>4, <1>5 DEF TypeOK
    <2>3. TypeOK'
        BY <1>1, <1>2, <1>5, <2>1, <2>2 DEF TypeOK
    <2>4. DirectoryOwnership'
        BY <1>1, <1>2, <2>1, OwnershipStays DEF Serving
    <2>5. \A q \in Procs : pc'[q] \notin {"writing", "renaming"}
        BY <1>3, <2>1 DEF Owning
    <2>6. Head(queue[p]) \notin snapshot
        BY <1>1, <1>4, <2>1 DEF AcknowledgedIsDurable
    <2>7. AcknowledgedIsDurable'
        BY <1>1, <1>4, <1>5, <2>1, <2>5, <2>6 DEF AcknowledgedIsDurable
    <2> QED
        BY <2>1, <2>3, <2>4, <2>7 DEF IInv
<1>6. ASSUME NEW label \in {"writing", "renaming", "cleaning"}, Goto(p, label),
             UNCHANGED <<snapshot, queue, outcome>>, temps' \subseteq Procs,
             \/ /\ label # "writing" /\ pc[p] \in {"writing", "renaming"} /\ UNCHANGED staged
             \/ staged' = [staged EXCEPT ![p] = snapshot \cup {Head(queue[p])}]
      PROVE  IInv'
    <2>1. /\ pc' \in [Procs -> Owning \cup {"down", "locking"}]
          /\ pc'[p] = label
          /\ \A q \in Procs \ {p} : pc'[q] = pc[q]
        BY <1>1, <1>6, Goes DEF Owning
    <2>2. staged' \in [Procs -> SUBSET Writes]
        <3>1. snapshot \cup {Head(queue[p])} \in SUBSET Writes
            BY <1>1, <1>4 DEF TypeOK
        <3> QED
            BY <1>1, <1>6, <3>1 DEF TypeOK
    <2>3. TypeOK'
        BY <1>1, <1>2, <1>6, <2>1, <2>2 DEF TypeOK
    <2>4. DirectoryOwnership'
        BY <1>1, <1>2, <1>6, <2>1, OwnershipStays DEF Serving
    <2>5. QueueOwned'
        BY <1>1, <1>2, <1>6, <2>1, QueuesStay DEF Serving
    <2>6. pc'[p] \in {"writing", "renaming"} => staged'[p] = snapshot \cup {Head(queue[p])}
        BY <1>1, <1>6, <2>1 DEF AcknowledgedIsDurable, TypeOK
    <2>7. AcknowledgedIsDurable'
        BY <1>1, <1>3, <1>6, <2>1, <2>6 DEF AcknowledgedIsDurable, Owning
    <2> QED
        BY <2>3, <2>4, <2>5, <2>7 DEF IInv
<1>7. CASE Load(p)
    <2>1. CASE Settle(p, "failed") /\ UNCHANGED staged
        BY <1>1, <1>5, <1>7, <2>1 DEF Load, files, TypeOK
    <2>2. CASE /\ staged' = [staged EXCEPT ![p] = snapshot \cup {Head(queue[p])}]
               /\ Goto(p, "writing")
               /\ UNCHANGED <<queue, outcome>>
        BY <1>1, <1>6, <1>7, <2>2 DEF Load, files, TypeOK
    <2> QED
        BY <1>7, <2>1, <2>2 DEF Load
<1>8. CASE WriteTemporary(p)
    BY <1>1, <1>6, <1>8 DEF WriteTemporary, WrittenAside, TypeOK
<1>9. CASE Rename(p)
    <2>1. staged[p] = snapshot \cup {Head(queue[p])}
        BY <1>1, <1>9 DEF Rename, AcknowledgedIsDurable
    <2>2. CASE snapshot' = staged[p] /\ temps' = temps \ {p} /\ Settle(p, "done")
        BY <1>1, <1>5, <1>9, <2>1, <2>2 DEF Rename, TypeOK
    <2>3. CASE Goto(p, "cleaning") /\ UNCHANGED <<snapshot, temps, queue, outcome>>
        BY <1>1, <1>6, <1>9, <2>3 DEF Rename, TypeOK
    <2> QED
        BY <1>9, <2>2, <2>3 DEF Rename
<1>10. CASE Clean(p)
    BY <1>1, <1>5, <1>10 DEF Clean, TypeOK
<1> QED
    BY <1>7, <1>8, <1>9, <1>10

\* A new mutation waits behind the others.
LEMMA RequestStep ==
    ASSUME IInv, NEW p \in Procs, NEW w \in Writes, Request(p, w)
    PROVE  IInv'
<1>1. TypeOK /\ DirectoryOwnership /\ QueueOwned /\ AcknowledgedIsDurable
    BY DEF IInv
<1>2. /\ outcome[w] = "none" /\ pc[p] \in Serving /\ pc[p] \in Owning
      /\ UNCHANGED <<lockDir, markers, temps, snapshot, pc, closing, staged, starts>>
    BY DEF Request, files, Serving, Owning
<1>3. \A q \in Procs \ {p} : pc[q] \notin Owning /\ queue[q] = <<>>
    BY <1>1, <1>2, ServesAlone
<1>4. DirectoryOwnership'
    BY <1>1, <1>2 DEF DirectoryOwnership
<1>5. PICK told \in {"failed", "queued"} :
          /\ outcome' = [outcome EXCEPT ![w] = told]
          /\ \/ UNCHANGED queue
             \/ told = "queued" /\ queue' = [queue EXCEPT ![p] = Append(queue[p], w)]
    BY DEF Request
<1>6. /\ outcome' \in [Writes -> {"none", "queued", "done", "failed", "lost"}]
      /\ outcome'[w] = told
      /\ \A v \in Writes : v # w => outcome'[v] = outcome[v]
    BY <1>1, <1>5 DEF TypeOK
<1>7. queue[p] \in Seq(Writes) /\ \A i \in 1..Len(queue[p]) : queue[p][i] \in Writes /\ queue[p][i] # w
    BY <1>1, <1>2 DEF TypeOK, QueueOwned
<1>8. CASE UNCHANGED queue
    <2>1. TypeOK'
        BY <1>1, <1>2, <1>6, <1>8 DEF TypeOK
    <2>2. \A q \in Procs \ {p} : Len(queue[q]) = 0
        BY <1>3
    <2>3. QueueOwned'
        BY <1>1, <1>2, <1>6, <1>7, <1>8, <2>2 DEF QueueOwned
    <2>4. AcknowledgedIsDurable'
        BY <1>1, <1>2, <1>6, <1>8 DEF AcknowledgedIsDurable
    <2> QED
        BY <1>4, <2>1, <2>3, <2>4 DEF IInv
<1>9. CASE told = "queued" /\ queue' = [queue EXCEPT ![p] = Append(queue[p], w)]
    <2> DEFINE r == Append(queue[p], w)
    <2>1. /\ r \in Seq(Writes) /\ r # <<>> /\ Len(r) = Len(queue[p]) + 1 /\ Len(queue[p]) \in Nat
          /\ r[Len(queue[p]) + 1] = w
          /\ \A i \in 1..Len(queue[p]) : r[i] = queue[p][i]
          /\ queue[p] # <<>> => Head(r) = Head(queue[p])
        BY <1>7
    <2> HIDE DEF r
    <2>2. /\ queue' \in [Procs -> Seq(Writes)]
          /\ queue'[p] = r /\ \A q \in Procs \ {p} : queue'[q] = queue[q]
        BY <1>1, <1>9, <2>1 DEF TypeOK, r
    <2>3. TypeOK'
        BY <1>1, <1>2, <1>6, <2>2 DEF TypeOK
    <2>4. \A i \in 1..Len(r) : outcome'[r[i]] = "queued"
        BY <1>1, <1>6, <1>7, <1>9, <2>1 DEF QueueOwned
    <2>5. \A i, j \in 1..Len(r) : r[i] = r[j] => i = j
        <3>1. \A i, j \in 1..Len(queue[p]) : queue[p][i] = queue[p][j] => i = j
            BY <1>1 DEF QueueOwned
        <3>2. \A i \in 1..Len(r) : i \in 1..Len(queue[p]) \/ i = Len(queue[p]) + 1
            BY <2>1
        <3> QED
            BY <1>7, <2>1, <3>1, <3>2
    <2>6. \A q \in Procs \ {p} : Len(queue'[q]) = 0
        BY <1>3, <2>2
    <2>7. QueueOwned'
        <3>1. \A q \in Procs : queue'[q] # <<>> => pc'[q] \in Serving
            BY <1>2, <1>3, <2>2
        <3>2. \A q \in Procs : pc'[q] \in {"writing", "renaming", "cleaning"} => queue'[q] # <<>>
            BY <1>1, <1>2, <2>1, <2>2 DEF QueueOwned
        <3>3. \A q \in Procs : \A i \in 1..Len(queue'[q]) : outcome'[queue'[q][i]] = "queued"
            BY <2>2, <2>4, <2>6
        <3>4. \A q \in Procs : \A i, j \in 1..Len(queue'[q]) : queue'[q][i] = queue'[q][j] => i = j
            BY <2>2, <2>5, <2>6
        <3> QED
            BY <3>1, <3>2, <3>3, <3>4 DEF QueueOwned
    <2>8. AcknowledgedIsDurable'
        BY <1>1, <1>2, <1>3, <1>6, <1>9, <2>1, <2>2 DEF AcknowledgedIsDurable, QueueOwned, Owning
    <2> QED
        BY <1>4, <2>3, <2>7, <2>8 DEF IInv
<1> QED
    BY <1>5, <1>8, <1>9

LEMMA OtherStep ==
    ASSUME IInv,
           \/ \E p \in Procs : Start(p) \/ FirstLoad(p) \/ Close(p) \/ Crash(p)
           \/ OperatorClears
           \/ UNCHANGED vars
    PROVE  IInv'
<1>1. TypeOK /\ DirectoryOwnership /\ QueueOwned /\ AcknowledgedIsDurable
    BY DEF IInv
<1>2. ASSUME NEW p \in Procs, Start(p) \/ FirstLoad(p) \/ Close(p) PROVE IInv'
    <2>1. /\ UNCHANGED <<lockDir, markers, temps, snapshot, queue, staged, outcome>>
          /\ closing' \subseteq Procs
          /\ starts' \in 0..MaxStarts
        BY <1>1, <1>2, BoundsAssumption DEF Start, FirstLoad, Close, files, TypeOK
    <2>2. /\ pc' \in [Procs -> Owning \cup {"down", "locking"}]
          /\ \A q \in Procs \ {p} : pc'[q] = pc[q]
          /\ \/ pc[p] = "down" /\ pc'[p] = "locking"
             \/ pc[p] = "loading" /\ pc'[p] = "open"
             \/ pc'[p] = pc[p]
        BY <1>1, <1>2, Goes DEF Start, FirstLoad, Close, TypeOK, Owning
    <2>3. TypeOK'
        BY <1>1, <2>1, <2>2 DEF TypeOK
    <2>4. DirectoryOwnership'
        BY <1>1, <2>1, <2>2 DEF DirectoryOwnership, Owning
    <2>5. QueueOwned'
        BY <1>1, <2>1, <2>2 DEF QueueOwned, Serving
    <2>6. AcknowledgedIsDurable'
        BY <1>1, <2>1, <2>2, PublishedStays
    <2> QED
        BY <2>3, <2>4, <2>5, <2>6 DEF IInv
<1>3. ASSUME NEW p \in Procs, Crash(p) PROVE IInv'
    <2>1. /\ pc' \in [Procs -> Owning \cup {"down", "locking"}]
          /\ pc'[p] = "down"
          /\ \A q \in Procs \ {p} : pc'[q] = pc[q]
          /\ UNCHANGED <<lockDir, markers, temps, snapshot, closing, staged, starts>>
        BY <1>1, <1>3, Goes DEF Crash, files
    <2>2. /\ queue' \in [Procs -> Seq(Writes)]
          /\ queue'[p] = <<>>
          /\ \A q \in Procs \ {p} : queue'[q] = queue[q]
        BY <1>1, <1>3 DEF Crash, TypeOK
    <2>3. /\ outcome' \in [Writes -> {"none", "queued", "done", "failed", "lost"}]
          /\ \A w \in Writes : outcome'[w] = outcome[w] \/ outcome'[w] = "lost"
        BY <1>1, <1>3 DEF Crash, TypeOK
    <2>4. TypeOK'
        BY <1>1, <2>1, <2>2, <2>3 DEF TypeOK
    <2>5. DirectoryOwnership'
        BY <1>1, <2>1 DEF DirectoryOwnership, Owning
    <2>6. \A q \in Procs \ {p} : pc[p] \in Owning => queue[q] = <<>>
        BY <1>1, ServesAlone
    <2>7. pc[p] \notin Owning => queue[p] = <<>>
        BY <1>1 DEF QueueOwned, Serving, Owning
    <2>8. \A q \in Procs \ {p} : \A i \in 1..Len(queue[q]) : outcome'[queue[q][i]] = "queued"
        <3>1. CASE queue[p] = <<>>
            <4>1. \A w \in Writes : outcome'[w] = outcome[w]
                BY <1>3, <3>1 DEF Crash
            <4>2. \A q \in Procs : \A i \in 1..Len(queue[q]) : queue[q][i] \in Writes
                BY <1>1 DEF TypeOK
            <4> QED
                BY <1>1, <4>1, <4>2 DEF QueueOwned
        <3>2. CASE pc[p] \in Owning
            BY <2>6, <3>2
        <3> QED
            BY <2>7, <3>1, <3>2
    <2>9. QueueOwned'
        <3>1. Len(queue'[p]) = 0
            BY <2>2
        <3>2. \A q \in Procs : \A i \in 1..Len(queue'[q]) : outcome'[queue'[q][i]] = "queued"
            BY <2>2, <2>8, <3>1
        <3>3. \A q \in Procs : \A i, j \in 1..Len(queue'[q]) : queue'[q][i] = queue'[q][j] => i = j
            BY <1>1, <2>2, <3>1 DEF QueueOwned
        <3>4. /\ \A q \in Procs : queue'[q] # <<>> => pc'[q] \in Serving
              /\ \A q \in Procs : pc'[q] \in {"writing", "renaming", "cleaning"} => queue'[q] # <<>>
            BY <1>1, <2>1, <2>2 DEF QueueOwned
        <3> QED
            BY <3>2, <3>3, <3>4 DEF QueueOwned
    <2>10. AcknowledgedIsDurable'
        BY <1>1, <2>1, <2>2, <2>3 DEF AcknowledgedIsDurable
    <2> QED
        BY <2>4, <2>5, <2>9, <2>10 DEF IInv
<1>4. CASE OperatorClears
    <2>1. /\ UNCHANGED <<snapshot, pc, queue, closing, staged, outcome, starts>>
          /\ lockDir' = FALSE /\ markers' = {} /\ temps' = {}
          /\ \A p \in Procs : pc[p] = "down"
        BY <1>4 DEF OperatorClears
    <2>2. TypeOK'
        BY <1>1, <2>1 DEF TypeOK
    <2>3. DirectoryOwnership'
        BY <2>1 DEF DirectoryOwnership, Owning
    <2>4. QueueOwned' /\ AcknowledgedIsDurable'
        BY <1>1, <2>1 DEF QueueOwned, AcknowledgedIsDurable
    <2> QED
        BY <2>2, <2>3, <2>4 DEF IInv
<1>5. CASE UNCHANGED vars
    BY <1>1, <1>5 DEF IInv, vars, TypeOK, DirectoryOwnership, QueueOwned, AcknowledgedIsDurable
<1> QED
    BY <1>2, <1>3, <1>4, <1>5

--------------------------------------------------------------------------------
(* The theorems. *)

\* The inductive invariant: the directory has one owner, mutations wait only there, and
\* what callers were told agrees with the snapshot.
THEOREM Invariance == Spec => []IInv
<1>1. Init => IInv
    BY InitInv
<1>2. IInv /\ [Next]_vars => IInv'
    BY LockStep, ServeStep, RequestStep, OtherStep DEF Next, Step
<1> QED
    BY <1>1, <1>2, PTL DEF Spec

\* Every variable has its type.
THEOREM TypeCorrect == Spec => []TypeOK
<1>1. IInv => TypeOK
    BY DEF IInv
<1> QED
    BY <1>1, Invariance, PTL

\* However many processes start on one directory, crash, and fail to remove what they
\* created, one of them at most owns it (FileWriter.ts, the lock directory and its
\* marker), and its lock and marker are there while it works.
THEOREM OneProcessOwns == Spec => []DirectoryOwnership
<1>1. IInv => DirectoryOwnership
    BY DEF IInv
<1> QED
    BY <1>1, Invariance, PTL

\* An acknowledged mutation is in the snapshot for good and a refused one never is
\* (FilePersistence.ts, _mutate), whatever crashes and failed file operations come between.
THEOREM AcknowledgedEndures == Spec => []AcknowledgedIsDurable
<1>1. IInv => AcknowledgedIsDurable
    BY DEF IInv
<1> QED
    BY <1>1, Invariance, PTL

=============================================================================
