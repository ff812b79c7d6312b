------------------------------ MODULE History ------------------------------
(***************************************************************************)
(* The thought state of one session: HistoryManager's live copy with its   *)
(* retention, branches, retractions, verification targets and DAG edges,   *)
(* the compression of branches, the writes it accepts, the three backends  *)
(* they are applied to in lock step, and the restore after a crash.        *)
(* The backends also hold the records of another session throughout.       *)
(* How the writes are queued, retried and drained, and a backend that      *)
(* fails to answer, is in the module PersistenceBuffer; here they are      *)
(* applied in order, and fail where a backend refuses them.                *)
(***************************************************************************)
EXTENDS Backends, ThoughtState

CONSTANTS
    Inputs,             \* what a caller may submit: thoughts without an id
    ThoughtIds,
    OtherId,            \* the id of a thought of the other session
    BranchIds,          \* positive numbers, in the order of their names
    MaxAdmissions       \* bound

ASSUME HistoryAssumption == OtherId \in ThoughtIds

Session == 1
Other == 2

VARIABLES
    live,               \* the SessionState, its edges, summaries and accepted writes
    memory, file, sqlite,
    index,              \* DurableThoughtIdentityIndex of the session
    aimed,              \* ghost: the ids an admitted or restored backtrack aimed at
    status,             \* "up", or "refused": the restore failed
    admissions

backends == <<memory, file, sqlite>>
vars == <<live, memory, file, sqlite, index, aimed, status, admissions>>

EmptyIndex == [history |-> <<>>, branches |-> <<>>]

DurableIds == UNION {Range(ids) : ids \in {index.history} \cup Range(index.branches)}

\* The references are resolved before the registration of a branch, the thought is admitted after.
Process(input, id, register) ==
    LET thought == Resolved(live, input, id)
        targetIds == TargetIds(live, input)
        opened == IF register = NoBranch THEN live ELSE Registered(live, register) IN
    /\ status = "up"
    /\ admissions < MaxAdmissions
    /\ input.target # 0 => Unique(live, input.target)
    /\ ~IdentityTaken(live, id, DurableIds)
    /\ register \notin Range(live.identities)
    /\ live' = Admitted(opened, live, thought, targetIds)
    /\ aimed' = (aimed \ {id}) \cup targetIds
    /\ admissions' = admissions + 1
    /\ UNCHANGED <<backends, index, status>>

--------------------------------------------------------------------------------
(* Compression, and the deletions the restore has left behind. *)

StageSummaries(l) == [l EXCEPT !.writes = Enqueue(@, [kind |-> "summaries", records |-> l.summaries])]

StageRestored(l) == IF l.pending = {} THEN l ELSE StageBranches(l, {})

Compress(b) ==
    /\ status = "up"
    /\ b \in DOMAIN live.branches
    /\ ~Summarised(live, b)
    /\ live' = StageRestored(StageSummaries(Compressed(live, b)))
    /\ UNCHANGED <<backends, index, aimed, status, admissions>>

\* A flush, a drain or an eviction of the session.
Drain ==
    /\ status = "up"
    /\ live.pending # {}
    /\ live' = StageRestored(live)
    /\ UNCHANGED <<backends, index, aimed, status, admissions>>

--------------------------------------------------------------------------------
(* The accepted writes reach the backends in order. *)

\* Mutant: the index does not follow the retention of the backend.
IndexForever(ids) == ids

IndexRetained(ids) == Retained(ids)

Indexed(ix, w) ==
    CASE w.kind \in {"thought", "backtrack"} ->
            [ix EXCEPT !.history = IndexRetained(Append(@, w.thought.id))]
      [] w.kind = "save" /\ PersistBranches ->
            [ix EXCEPT !.branches = Put(@, w.branch, [i \in DOMAIN w.thoughts |-> w.thoughts[i].id])]
      [] w.kind = "delete" /\ PersistBranches -> [ix EXCEPT !.branches = Without(@, w.branch)]
      [] OTHER -> ix

Stores == {"memory", "file", "sqlite"}

Outcomes(w) ==
    [memory |-> MemoryWrite(memory, Session, w), file |-> FileWrite(file, Session, w),
     sqlite |-> SqliteWrite(sqlite, Session, w)]

Takers(w, stores) == {store \in stores : Outcomes(w)[store].ok}

\* Mutant: the index learns of a write its backend has refused.
IndexAccepted(w, refused) == Indexed(index, w)

\* The index is the one over the file backend.
IndexAfter(w, refused) == IF "file" \in refused THEN index ELSE Indexed(index, w)

\* Whoever refuses the write keeps it in its queue.
Attempt(i, stores) ==
    LET w == live.writes[i]
        outcomes == Outcomes(w)
        refused == stores \ Takers(w, stores) IN
    /\ memory' = IF "memory" \in stores THEN outcomes.memory.state ELSE memory
    /\ file' = IF "file" \in stores THEN outcomes.file.state ELSE file
    /\ sqlite' = IF "sqlite" \in stores THEN outcomes.sqlite.state ELSE sqlite
    /\ index' = IF "file" \in stores THEN IndexAfter(w, refused) ELSE index
    /\ live' = [live EXCEPT !.writes = IF refused = {} THEN Seqs!RemoveAt(@, i)
                                      ELSE [@ EXCEPT ![i].refusedBy = refused]]
    /\ UNCHANGED <<aimed, status, admissions>>

\* Only an explicit drain tries again what was refused.
Refused(i) == live.writes[i].refusedBy # {}

Write ==
    /\ status = "up"
    /\ \E i \in DOMAIN live.writes :
            /\ ~Refused(i) /\ \A j \in 1..(i - 1) : Refused(j)
            /\ Attempt(i, Stores)

\* The refused writes are tried in their order; trying one in vain changes nothing.
Retry ==
    LET taken(i) == Refused(i) /\ Takers(live.writes[i], live.writes[i].refusedBy) # {} IN
    /\ status = "up"
    /\ \E i \in DOMAIN live.writes :
            /\ taken(i) /\ \A j \in 1..(i - 1) : ~taken(j)
            /\ Attempt(i, live.writes[i].refusedBy)

--------------------------------------------------------------------------------
(* Crash and restore. *)

\* The targets are resolved again, each against the thoughts retained before it.
Reconstructed(history, branches, names) ==
    LET order == Seqs!FoldLeft(LAMBDA acc, b : acc \o branches[b], history, names)
        first(i) == \A j \in 1..(i - 1) : order[j].id # order[i].id
        before(i, num) == {order[j].id : j \in {k \in 1..(i - 1) : order[k].num = num}}
        verifies(i) == {ref \in order[i].refs : ref[1] = "verifies"}
        known == {i \in DOMAIN order :
                    /\ order[i].type = "verification" /\ first(i)
                    /\ \E ref \in verifies(i) : Cardinality(before(i, ref[2])) = 1} IN
    [v \in {order[i].id : i \in known} |->
        LET i == CHOOSE i \in known : order[i].id = v IN
        CHOOSE id \in before(i, (CHOOSE ref \in verifies(i) : TRUE)[2]) : TRUE]

RestoredLive(stored) ==
    LET repaired == Repaired(stored.history, stored.branches)
        names == SelectSeq(Seqs!SetToSortSeq(BranchIds, <), LAMBDA b : b \in DOMAIN stored.branches)
        kept == Newest(names, MaxBranches)
        state == [EmptyLive EXCEPT
            !.history = Newest(repaired.history, LiveMax),
            !.identities = kept,
            !.branches = [b \in Range(kept) |-> Newest(repaired.branches[b], MaxBranchSize)],
            !.pending = Range(names) \ Range(kept),
            !.targets = Reconstructed(repaired.history, repaired.branches, names),
            !.edges = stored.edges,
            !.summaries = stored.summaries] IN
    PruneEdges(PruneTargets(state))

ValidThoughts(history, branches) ==
    Persistable(history, branches) /\ \A b \in DOMAIN branches : InBranchScope(b, branches[b])

\* stageSession: an ambiguous backtrack target or an invalid copy stops the start.
Restorable(stored) ==
    /\ Repairable(stored.history, stored.branches)
    /\ LET r == Repaired(stored.history, stored.branches) IN ValidThoughts(r.history, r.branches)

\* One session that cannot be restored refuses them all.
AllRestorable == \A s \in FileSessions(file) : Restorable(FileLoad(file, s))

IdentitiesOf(stored) ==
    [history |-> [i \in DOMAIN stored.history |-> stored.history[i].id],
     branches |-> [b \in DOMAIN stored.branches |->
                    [i \in DOMAIN stored.branches[b] |-> stored.branches[b][i].id]]]

\* MemoryPersistence ends with its process: to go on with the comparison, the new one starts with
\* what the document holds.
MemoryHolding(f) ==
    [histories |-> [s \in SessionsOf(f.thoughts) |-> FileLoad(f, s).history],
     branches |-> [s \in SessionsOf(f.branches) |-> FileLoad(f, s).branches],
     edges |-> [s \in SessionsOf(f.edges) |-> FileLoad(f, s).edges],
     summaries |-> [s \in SessionsOf(f.summaries) |-> FileLoad(f, s).summaries]]

\* What was not written is lost, what a backend has refused included.
Restart ==
    LET stored == FileLoad(file, Session) IN
    /\ status = "up"
    /\ status' = IF AllRestorable THEN "up" ELSE "refused"
    /\ live' = IF AllRestorable THEN RestoredLive(stored) ELSE EmptyLive
    /\ index' = IF AllRestorable THEN IdentitiesOf(stored) ELSE EmptyIndex
    /\ aimed' = {t.id : t \in {u \in Thoughts(stored) : u.retracted}}
    /\ memory' = MemoryHolding(file)
    /\ UNCHANGED <<file, sqlite, admissions>>

\* resetSession: the durable records and the live state of the session go, nobody else's do.
Reset ==
    /\ status = "up"
    /\ live' = EmptyLive
    /\ memory' = MemoryClearSession(memory, Session)
    /\ file' = FileClearSession(file, Session)
    /\ sqlite' = SqliteClearSession(sqlite, Session)
    /\ index' = EmptyIndex
    /\ aimed' = {}
    /\ UNCHANGED <<status, admissions>>

--------------------------------------------------------------------------------

\* Records of another session, with ids and names this session uses too.
OtherWrites ==
    LET thought == [id |-> OtherId, type |-> "regular", num |-> 1, target |-> 0,
                    branch |-> NoBranch, refs |-> {}, dropped |-> {}, retracted |-> FALSE] IN
    << [kind |-> "thought", thought |-> thought],
       [kind |-> "save", branch |-> 1, thoughts |-> <<thought>>],
       [kind |-> "edges", records |-> {[kind |-> "sequence", from |-> OtherId, to |-> NoBranch]}] >>

Init ==
    /\ live = EmptyLive
    /\ memory = Seqs!FoldLeft(LAMBDA m, w : MemoryWrite(m, Other, w).state, NoMaps, OtherWrites)
    /\ file = Seqs!FoldLeft(LAMBDA f, w : FileWrite(f, Other, w).state, EmptySnapshot, OtherWrites)
    /\ sqlite = Seqs!FoldLeft(LAMBDA q, w : SqliteWrite(q, Other, w).state, EmptyTables, OtherWrites)
    /\ index = EmptyIndex
    /\ aimed = {}
    /\ status = "up"
    /\ admissions = 0

Next ==
    \/ \E input \in Inputs, id \in ThoughtIds, register \in BranchIds \cup {NoBranch} :
            Process(input, id, register)
    \/ \E b \in BranchIds : Compress(b)
    \/ Drain
    \/ Write
    \/ Retry
    \/ Restart
    \/ Reset

Spec == Init /\ [][Next]_vars

--------------------------------------------------------------------------------
(* Properties. *)

\* The shape of the state: the retention limits of the live session, and no id twice in a chain.
TypeOK ==
    /\ Len(live.history) <= LiveMax
    /\ Len(live.identities) <= MaxBranches
    /\ DOMAIN live.branches \subseteq Range(live.identities)
    /\ \A b \in DOMAIN live.branches : Len(live.branches[b]) \in 1..MaxBranchSize
    /\ \A s \in {live.history} \cup Range(live.branches) : Cardinality(Ids(s)) = Len(s)
    /\ aimed \subseteq ThoughtIds
    /\ status \in {"up", "refused"}
    /\ admissions \in 0..MaxAdmissions

RetractedIds(ts) == {t.id : t \in {u \in Range(ts) : u.retracted}}

\* Some restore took a thought for the target of a backtrack that aimed at another one.
Misread == ~ UNION {RetractedIds(ts) : ts \in {live.history} \cup Range(live.branches)} \subseteq aimed

Stored == FileLoad(file, Session)

\* The branches a write is still to change, or will not change for being refused.
Unsettled == {live.writes[i].branch : i \in {j \in DOMAIN live.writes :
                                                live.writes[j].kind \in {"save", "delete"}}}

\* What a store returns of the session that the others must return too.
Common(stored) ==
    [stored EXCEPT !.history = PlainAll(@),
                   !.branches = [b \in DOMAIN @ \ Unsettled |-> PlainAll(@[b])]]

\* The save of a branch that holds a thought whose reference was dropped.
HoldsDropped(w) == w.kind = "save" /\ \E t \in Range(w.thoughts) : t.dropped # {}

\* Whatever sequence of writes, corrections, deletions and resets they are given, the document and
\* the tables accept and refuse the same of them and load the same session, and so do the tables a
\* document is written to by writeSqliteSnapshot; the map accepts every write an admission staged
\* and loads the same session up to keys without a value and the branches with a write open; the
\* document refuses no write but the save of a branch with a dropped reference in it; and all three
\* leave the other session alone.
BackendsAgree ==
    /\ \A s \in {Session, Other} :
            /\ SqliteLoad(sqlite, s) = FileLoad(file, s)
            /\ SqliteLoad(SnapshotTables(file, <<Other, Session>>), s) = FileLoad(file, s)
    /\ MemoryLoad(memory, Other) = FileLoad(file, Other)
    /\ Common(MemoryLoad(memory, Session)) = Common(FileLoad(file, Session))
    /\ MemorySessions(memory) = FileSessions(file) /\ SqliteSessions(sqlite) = FileSessions(file)
    /\ \A i \in DOMAIN live.writes :
            live.writes[i].refusedBy # {} /\ ~Misread =>
                live.writes[i].refusedBy = {"file", "sqlite"} /\ HoldsDropped(live.writes[i])

\* docs/reliability-contract.md: "The file, SQLite, and memory backends implement the same
\* `PersistenceBackend` interface. Persisted data is accepted only when it matches the current
\* schema and ownership rules": what one of them refuses, the others refuse.
BackendsInterchangeable ==
    \A i \in DOMAIN live.writes : live.writes[i].refusedBy \in {{}, Stores}

\* The durable identity index names exactly the ids the backend holds, in its order: an id can be
\* taken again when the last durable copy of its thought is gone and not before (Indexed against
\* the retention, replacement and deletion in the backends, and against the restore).
IdentityIndexExact ==
    status = "up" => index = IdentitiesOf(Stored)

\* A backtrack that was admitted stays in force for every copy of its target, in the history and in
\* every branch, in the process and, once no backtrack is left to write, in the backend, across
\* restarts and until the id is given away again; a branch save that was refused or is still to be
\* written does not matter.
RetractionsHold ==
    /\ \A t \in Thoughts(live) : t.id \in aimed => t.retracted
    /\ /\ status = "up" /\ ~Misread
       /\ \A i \in DOMAIN live.writes : live.writes[i].kind # "backtrack"
       => \A t \in Thoughts(Stored) : t.id \in aimed => t.retracted

\* No backtrack that is still stored names a number that another thought has taken over.
Readable ==
    /\ ~Misread
    /\ Repairable(Stored.history, Stored.branches)
    /\ UNION RetainedTargets(Stored.history, Stored.branches) \subseteq aimed

\* A crash costs a session nothing but the writes that were refused: once every write was tried, the
\* restore rebuilds the history the process held, and the branches no refused write is about, whatever
\* retention, eviction, registration, backtracking and id reuse went before; where none was refused
\* it rebuilds all of them, the edges and the summaries.  No verification gets another target.
RestartRestores ==
    status = "up" /\ Readable /\ (\A i \in DOMAIN live.writes : Refused(i)) =>
        LET after == RestoredLive(Stored)
            restored == DOMAIN live.branches \ Unsettled IN
        /\ after.history = PlainAll(live.history)
        /\ \A b \in restored : b \in DOMAIN after.branches /\ after.branches[b] = PlainAll(live.branches[b])
        /\ DOMAIN Stored.branches \ Unsettled = (DOMAIN live.branches \cup live.pending) \ Unsettled
        /\ live.writes = <<>> => /\ DOMAIN after.branches = DOMAIN live.branches
                                /\ after.edges = live.edges
                                /\ after.summaries = live.summaries
        /\ \A v \in DOMAIN after.targets : v \in DOMAIN live.targets => after.targets[v] = live.targets[v]

\* README: the restore "repairs retained backtrack copies" and "ignores an absent retained target",
\* so the thoughts marked retracted are the ones a backtrack was aimed at.
OnlyTargetsRetracted == ~Misread
=============================================================================
