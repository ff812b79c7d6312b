------------------------------ MODULE FileStore ------------------------------
(***************************************************************************)
(* FilePersistence over FileWriter: processes that share a data directory, *)
(* each owning it through a lock directory with a marker file of its own,  *)
(* and publishing every mutation as a new snapshot through a temporary     *)
(* file.  Every file operation is a step that may fail, a process may      *)
(* crash between any two, and an operator may clear what a crash left.     *)
(* A snapshot is the set of mutations it contains (what they do to the     *)
(* contents is in the module Backends).                                    *)
(***************************************************************************)
EXTENDS Naturals, Sequences, FiniteSets

CONSTANTS
    Procs,
    Writes,         \* the mutations requested: each is requested once
    MaxStarts,      \* bound: starts of a process
    QueueBound      \* bound: mutations waiting in one process

ASSUME BoundsAssumption == MaxStarts \in Nat

VARIABLES
    lockDir,        \* the lock directory exists
    markers,        \* the processes whose marker file exists in it
    temps,          \* the processes whose temporary file exists
    snapshot,       \* the contents of snapshot.json
    pc,             \* where each process stands
    queue,          \* _tail: the mutations that wait, first the one being served
    closing,        \* _state is not "open"
    staged,         \* the snapshot being published
    outcome,        \* what the caller of a mutation was told
    starts

files == <<lockDir, markers, temps, snapshot>>
vars == <<lockDir, markers, temps, snapshot, pc, queue, closing, staged, outcome, starts>>

Owning == {"marking", "unmarking", "unlocking", "loading", "open", "writing", "renaming", "cleaning",
           "releasing", "rmdir"}

TypeOK ==
    /\ lockDir \in BOOLEAN
    /\ markers \subseteq Procs /\ temps \subseteq Procs
    /\ snapshot \subseteq Writes
    /\ pc \in [Procs -> Owning \cup {"down", "locking"}]
    /\ queue \in [Procs -> Seq(Writes)]
    /\ closing \subseteq Procs
    /\ staged \in [Procs -> SUBSET Writes]
    /\ outcome \in [Writes -> {"none", "queued", "done", "failed", "lost"}]
    /\ starts \in 0..MaxStarts

Init ==
    /\ lockDir = FALSE /\ markers = {} /\ temps = {} /\ snapshot = {}
    /\ pc = [p \in Procs |-> "down"]
    /\ queue = [p \in Procs |-> <<>>]
    /\ closing = {}
    /\ staged = [p \in Procs |-> {}]
    /\ outcome = [w \in Writes |-> "none"]
    /\ starts = 0

Goto(p, label) == pc' = [pc EXCEPT ![p] = label]

--------------------------------------------------------------------------------
(* Acquiring and releasing the directory. *)

Start(p) ==
    /\ pc[p] = "down"
    /\ starts < MaxStarts
    /\ starts' = starts + 1
    /\ Goto(p, "locking")
    /\ closing' = closing \ {p}
    /\ UNCHANGED <<files, queue, staged, outcome>>

\* Mutant: a lock left by a process that is gone is taken over.
Breakable == \A p \in markers : pc[p] = "down"

\* mkdir succeeds for one process only.
Available == ~lockDir

Lock(p) ==
    /\ pc[p] = "locking"
    /\ \/ Available /\ lockDir' = TRUE /\ Goto(p, "marking")
       \/ Goto(p, "down") /\ UNCHANGED lockDir
    /\ UNCHANGED <<markers, temps, snapshot, queue, closing, staged, outcome, starts>>

\* A write that fails may have created the file.
Mark(p) ==
    /\ pc[p] = "marking"
    /\ \/ markers' = markers \cup {p} /\ Goto(p, "loading")
       \/ markers' \in {markers, markers \cup {p}} /\ Goto(p, "unmarking")
    /\ UNCHANGED <<lockDir, temps, snapshot, queue, closing, staged, outcome, starts>>

\* _cleanupFailedAcquisition: both removals are tried, either may fail.
Unmark(p) ==
    /\ pc[p] = "unmarking"
    /\ markers' \in {markers, markers \ {p}}
    /\ Goto(p, "unlocking")
    /\ UNCHANGED <<lockDir, temps, snapshot, queue, closing, staged, outcome, starts>>

\* rmdir removes an empty directory only.
RemoveLock == lockDir' \in IF markers = {} THEN {TRUE, FALSE} ELSE {TRUE}

Unlock(p) ==
    /\ pc[p] = "unlocking"
    /\ RemoveLock
    /\ Goto(p, "down")
    /\ UNCHANGED <<markers, temps, snapshot, queue, closing, staged, outcome, starts>>

\* Mutant: close() does not wait for the tail.
ClosingOnly(p) == p \in closing

\* close() waits for the tail.
Drained(p) == p \in closing /\ queue[p] = <<>>

Release(p) ==
    /\ pc[p] = "open"
    /\ Drained(p)
    /\ \/ markers' = markers \ {p} /\ Goto(p, "rmdir")
       \/ Goto(p, "down") /\ UNCHANGED markers
    /\ UNCHANGED <<lockDir, temps, snapshot, queue, closing, staged, outcome, starts>>

RemoveDirectory(p) ==
    /\ pc[p] = "rmdir"
    /\ RemoveLock
    /\ Goto(p, "down")
    /\ UNCHANGED <<markers, temps, snapshot, queue, closing, staged, outcome, starts>>

--------------------------------------------------------------------------------
(* Reading and publishing. *)

\* The directory holds nothing but the snapshot, or is empty.
LayoutMatches == temps = {}

\* create() loads the snapshot once; if that fails it closes the writer.
FirstLoad(p) ==
    /\ pc[p] = "loading"
    /\ Goto(p, "open")
    /\ closing' \in {closing \cup {p}} \cup (IF LayoutMatches THEN {closing} ELSE {})
    /\ UNCHANGED <<files, queue, staged, outcome, starts>>

\* run(): refused once the writer is closing.
Request(p, w) ==
    /\ outcome[w] = "none"
    /\ pc[p] \in {"open", "writing", "renaming", "cleaning"}
    /\ IF p \in closing
       THEN outcome' = [outcome EXCEPT ![w] = "failed"] /\ UNCHANGED queue
       ELSE /\ Len(queue[p]) < QueueBound
            /\ outcome' = [outcome EXCEPT ![w] = "queued"]
            /\ queue' = [queue EXCEPT ![p] = Append(@, w)]
    /\ UNCHANGED <<files, pc, closing, staged, starts>>

Settle(p, result) ==
    /\ outcome' = [outcome EXCEPT ![Head(queue[p])] = result]
    /\ queue' = [queue EXCEPT ![p] = Tail(@)]
    /\ Goto(p, "open")

\* _mutate: the current snapshot is loaded and changed, or the mutation fails.
Load(p) ==
    /\ pc[p] = "open"
    /\ queue[p] # <<>>
    /\ \/ /\ LayoutMatches
          /\ staged' = [staged EXCEPT ![p] = snapshot \cup {Head(queue[p])}]
          /\ Goto(p, "writing")
          /\ UNCHANGED <<queue, outcome>>
       \/ Settle(p, "failed") /\ UNCHANGED staged
    /\ UNCHANGED <<files, closing, starts>>

\* Mutant: the snapshot is written in place.
WrittenInPlace(p) == \E half \in SUBSET staged[p] : snapshot' = half

WrittenAside(p) == snapshot' = snapshot

WriteTemporary(p) ==
    /\ pc[p] = "writing"
    /\ \/ temps' = temps \cup {p} /\ Goto(p, "renaming")
       \/ temps' \in {temps, temps \cup {p}} /\ Goto(p, "cleaning")
    /\ WrittenAside(p)
    /\ UNCHANGED <<lockDir, markers, queue, closing, staged, outcome, starts>>

Rename(p) ==
    /\ pc[p] = "renaming"
    /\ \/ snapshot' = staged[p] /\ temps' = temps \ {p} /\ Settle(p, "done")
       \/ Goto(p, "cleaning") /\ UNCHANGED <<snapshot, temps, queue, outcome>>
    /\ UNCHANGED <<lockDir, markers, closing, staged, starts>>

\* The removal of the temporary file may fail too: the file stays.
Clean(p) ==
    /\ pc[p] = "cleaning"
    /\ temps' \in {temps, temps \ {p}}
    /\ Settle(p, "failed")
    /\ UNCHANGED <<lockDir, markers, snapshot, closing, staged, starts>>

Close(p) ==
    /\ pc[p] \in {"open", "writing", "renaming", "cleaning"}
    /\ p \notin closing
    /\ closing' = closing \cup {p}
    /\ UNCHANGED <<files, pc, queue, staged, outcome, starts>>

--------------------------------------------------------------------------------
(* The environment. *)

\* The process is gone; what it had on the disk stays.
Crash(p) ==
    /\ pc[p] # "down"
    /\ Goto(p, "down")
    /\ outcome' = [w \in Writes |->
            IF \E i \in 1..Len(queue[p]) : queue[p][i] = w THEN "lost" ELSE outcome[w]]
    /\ queue' = [queue EXCEPT ![p] = <<>>]
    /\ UNCHANGED <<files, closing, staged, starts>>

\* Nothing in the code removes a stale lock or temporary file.
OperatorClears ==
    /\ \A p \in Procs : pc[p] = "down"
    /\ lockDir \/ temps # {}
    /\ lockDir' = FALSE /\ markers' = {} /\ temps' = {}
    /\ UNCHANGED <<snapshot, pc, queue, closing, staged, outcome, starts>>

Step(p) ==
    \/ Lock(p) \/ Mark(p) \/ Unmark(p) \/ Unlock(p) \/ Release(p) \/ RemoveDirectory(p)
    \/ FirstLoad(p) \/ Load(p) \/ WriteTemporary(p) \/ Rename(p) \/ Clean(p)

Next ==
    \/ \E p \in Procs : Start(p) \/ Step(p) \/ Close(p) \/ Crash(p)
    \/ \E p \in Procs, w \in Writes : Request(p, w)
    \/ OperatorClears

Spec == Init /\ [][Next]_vars

\* File operations complete, one way or the other.
FairSpec == Spec /\ \A p \in Procs : WF_vars(Step(p))

--------------------------------------------------------------------------------
(* What could go wrong. *)

\* Two processes never own the directory, the owner's lock is there while it works, and the
\* only one to touch the snapshot or a temporary file is the owner.
DirectoryOwnership ==
    /\ \A p, q \in Procs : pc[p] \in Owning /\ pc[q] \in Owning => p = q
    /\ \A p \in Procs : pc[p] \in Owning => lockDir
    /\ \A p \in Procs : pc[p] \in {"loading", "open", "writing", "renaming", "cleaning"} => p \in markers

\* A mutation reported as done is in the snapshot for good, one reported as failed is not, and
\* a crash leaves the snapshot as some sequence of whole mutations made it: also when the
\* temporary file or the lock could not be removed.
AcknowledgedIsDurable ==
    /\ \A w \in Writes : outcome[w] = "done" => w \in snapshot
    /\ \A w \in Writes : outcome[w] \in {"none", "queued", "failed"} => w \notin snapshot
    /\ \A p \in Procs : pc[p] \in {"writing", "renaming"} =>
            staged[p] = snapshot \cup {Head(queue[p])}

\* Every accepted mutation is answered unless the process crashes, and close() ends: the
\* directory is released, or what could not be removed is reported.
FileCallsSettle ==
    /\ \A w \in Writes : outcome[w] = "queued" ~> outcome[w] # "queued"
    /\ \A p \in Procs : p \in closing ~> pc[p] = "down" \/ p \notin closing
=============================================================================
