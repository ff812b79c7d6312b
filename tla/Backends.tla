------------------------------ MODULE Backends ------------------------------
(***************************************************************************)
(* The three persistence backends, each with its own representation:       *)
(*   MemoryPersistence   maps from sessions to arrays                      *)
(*   FilePersistence     one snapshot document of records per session      *)
(*   SqlitePersistence   rows of four tables                               *)
(* An operation maps a state to [ok, state]: whether it was accepted, and  *)
(* the state after it (the old one when it was refused).  MemoryPersistence *)
(* keeps the very objects it is given; the other two check those objects   *)
(* against what they have stored and store their JSON (Plain).  Edges and  *)
(* summaries are sets, because every backend returns them in the canonical *)
(* order of creation time and id.                                          *)
(***************************************************************************)
EXTENDS ThoughtRecords

LOCAL INSTANCE SequencesExt

CONSTANT PersistBranches

ASSUME PersistBranchesAssumption == PersistBranches \in BOOLEAN

Outcome(ok, new, old) == [ok |-> ok, state |-> IF ok THEN new ELSE old]

--------------------------------------------------------------------------------
(* MemoryPersistence. *)

NoMaps == [histories |-> <<>>, branches |-> <<>>, edges |-> <<>>, summaries |-> <<>>]

MemoryLoad(m, s) ==
    [history |-> Mapped(m.histories, s, <<>>), branches |-> Mapped(m.branches, s, <<>>),
     edges |-> Mapped(m.edges, s, {}), summaries |-> Mapped(m.summaries, s, {})]

MemorySaveThought(m, s, thought) ==
    LET now == MemoryLoad(m, s)
        history == Append(now.history, thought) IN
    Outcome(Persistable(history, now.branches),
            [m EXCEPT !.histories = Put(@, s, Retained(history))], m)

MemorySaveBacktrack(m, s, thought, targetId) ==
    LET now == MemoryLoad(m, s)
        staged == StageBacktrack(now.history, now.branches, thought, targetId) IN
    Outcome(staged.ok,
            [m EXCEPT !.histories = Put(@, s, staged.history),
                      !.branches = IF PersistBranches THEN Put(@, s, staged.branches) ELSE @], m)

MemorySaveBranch(m, s, b, thoughts) ==
    LET now == MemoryLoad(m, s)
        branches == Put(now.branches, b, thoughts) IN
    Outcome(InBranchScope(b, thoughts) /\ Persistable(now.history, branches),
            IF PersistBranches THEN [m EXCEPT !.branches = Put(@, s, branches)] ELSE m, m)

MemoryDeleteBranch(m, s, b) ==
    LET rest == Without(MemoryLoad(m, s).branches, b) IN
    Outcome(TRUE,
            IF PersistBranches /\ s \in DOMAIN m.branches
            THEN [m EXCEPT !.branches = IF rest = <<>> THEN Without(@, s) ELSE Put(@, s, rest)]
            ELSE m, m)

MemorySaveRecords(m, kind, s, records) ==
    Outcome(TRUE, [m EXCEPT ![kind] = IF records = {} THEN Without(@, s) ELSE Put(@, s, records)], m)

MemoryClearSession(m, s) == [namespace \in DOMAIN m |-> Without(m[namespace], s)]

MemorySessions(m) == UNION {DOMAIN m[namespace] : namespace \in DOMAIN m}

--------------------------------------------------------------------------------
(* FilePersistence: the records of the snapshot document, as they are parsed. *)

EmptySnapshot == [thoughts |-> {}, branches |-> {}, edges |-> {}, summaries |-> {}]

Of(records, s) == {r \in records : r.session = s}
Others(records, s) == records \ Of(records, s)
SessionsOf(records) == {r.session : r \in records}

\* find(): the one record of the session, or the default.
Found(records, s, default) ==
    IF Of(records, s) = {} THEN default ELSE (CHOOSE r \in Of(records, s) : TRUE).data

FileLoad(f, s) ==
    [history |-> Found(f.thoughts, s, <<>>),
     branches |-> [b \in {r.branch : r \in Of(f.branches, s)} |->
                        (CHOOSE r \in Of(f.branches, s) : r.branch = b).data],
     edges |-> Found(f.edges, s, {}), summaries |-> Found(f.summaries, s, {})]

\* What a snapshot must satisfy before it is published and after it is parsed.
ValidSnapshot(f) ==
    /\ \A kind \in {"thoughts", "edges", "summaries"} : \A r, q \in f[kind] :
            r.session = q.session => r = q
    /\ \A r, q \in f.branches : r.session = q.session /\ r.branch = q.branch => r = q
    /\ \A r \in f.thoughts : r.data # <<>>
    /\ \A kind \in {"edges", "summaries"} : \A r \in f[kind] : r.data # {}
    /\ \A r \in f.branches : InBranchScope(r.branch, r.data)
    /\ \A s \in SessionsOf(f.thoughts) \cup SessionsOf(f.branches) :
            Persistable(FileLoad(f, s).history, FileLoad(f, s).branches)

\* The document as JSON.
Serialized(f) ==
    [f EXCEPT !.thoughts = {[r EXCEPT !.data = PlainAll(@)] : r \in @},
              !.branches = {[r EXCEPT !.data = PlainAll(@)] : r \in @}]

\* _mutate: load, change, check, serialize, publish.  The check sees the new thoughts as they were
\* given, next to the stored ones as they were parsed; nothing is published of an invalid document.
Published(f, ok, new) == Outcome(ok /\ ValidSnapshot(new), Serialized(new), f)

FileSaveThought(f, s, thought) ==
    LET now == FileLoad(f, s)
        prospective == Append(now.history, thought) IN
    Published(f, Persistable(prospective, now.branches),
        [f EXCEPT !.thoughts = Others(@, s) \cup {[session |-> s, data |-> Retained(prospective)]}])

FileSaveBacktrack(f, s, thought, targetId) ==
    LET now == FileLoad(f, s)
        staged == StageBacktrack(now.history, now.branches, thought, targetId) IN
    Published(f, staged.ok,
        [f EXCEPT !.thoughts = Others(@, s) \cup {[session |-> s, data |-> staged.history]},
                  !.branches = Others(@, s) \cup {[session |-> s, branch |-> b, data |-> staged.branches[b]] :
                                                  b \in DOMAIN staged.branches}])

FileSaveBranch(f, s, b, thoughts) ==
    LET now == FileLoad(f, s)
        ok == InBranchScope(b, thoughts) /\ Cardinality(Ids(thoughts)) = Len(thoughts)
        this == [session |-> s, branch |-> b, data |-> thoughts] IN
    IF PersistBranches
    THEN Published(f, ok, [f EXCEPT !.branches = {r \in @ : r.session # s \/ r.branch # b} \cup {this}])
    ELSE Outcome(ok /\ Persistable(now.history, now.branches)
                    /\ Persistable(thoughts, [x \in DOMAIN now.branches \cup {NoBranch} |->
                            IF x = NoBranch THEN now.history ELSE now.branches[x]]), f, f)

FileDeleteBranch(f, s, b) ==
    IF PersistBranches
    THEN Published(f, TRUE, [f EXCEPT !.branches = {r \in @ : r.session # s \/ r.branch # b}])
    ELSE Outcome(TRUE, f, f)

FileSaveRecords(f, kind, s, records) ==
    Published(f, TRUE, [f EXCEPT ![kind] = Others(@, s) \cup
        (IF records = {} THEN {} ELSE {[session |-> s, data |-> records]})])

FileClearSession(f, s) == [kind \in DOMAIN f |-> Others(f[kind], s)]

FileSessions(f) == UNION {SessionsOf(f[kind]) : kind \in DOMAIN f}

--------------------------------------------------------------------------------
(* SqlitePersistence: the rows of the tables; thoughts in the order of their row ids. *)

EmptyTables == [thoughts |-> <<>>, branches |-> {}, edges |-> {}, summaries |-> {}]

RowsOf(table, s) == SelectSeq(table, LAMBDA row : row.session = s)
Data(rows) == [i \in DOMAIN rows |-> rows[i].data]

SqliteLoad(q, s) ==
    [history |-> Data(RowsOf(q.thoughts, s)),
     branches |-> [b \in {row.branch : row \in Of(q.branches, s)} |->
                        (CHOOSE row \in Of(q.branches, s) : row.branch = b).data],
     edges |-> {row.data : row \in Of(q.edges, s)},
     summaries |-> {row.data : row \in Of(q.summaries, s)}]

\* INSERT OR REPLACE by the primary key (session_id, branch_id).
Replaced(table, s, b, thoughts) ==
    {row \in table : row.session # s \/ row.branch # b}
        \cup {[session |-> s, branch |-> b, data |-> PlainAll(thoughts)]}

\* Mutant: one row too many survives.
LooselyTrimmed(table, s) ==
    LET excess == Len(RowsOf(table, s)) - DurableMax - 1
        doomed == {i \in DOMAIN table : /\ table[i].session = s
                                        /\ Cardinality({j \in 1..i : table[j].session = s}) <= excess} IN
    [i \in 1..(Len(table) - Cardinality(doomed)) |->
        table[CHOOSE j \in DOMAIN table \ doomed : Cardinality((1..j) \ doomed) = i]]

\* The oldest rows of the session beyond the limit are deleted.
Trimmed(table, s) ==
    LET excess == Len(RowsOf(table, s)) - DurableMax
        doomed == {i \in DOMAIN table : /\ table[i].session = s
                                        /\ Cardinality({j \in 1..i : table[j].session = s}) <= excess} IN
    IF DurableMax = 0 THEN table
    ELSE [i \in 1..(Len(table) - Cardinality(doomed)) |->
            table[CHOOSE j \in DOMAIN table \ doomed : Cardinality((1..j) \ doomed) = i]]

SqliteSaveThought(q, s, thought) ==
    LET now == SqliteLoad(q, s) IN
    Outcome(Persistable(Append(now.history, thought), now.branches),
            [q EXCEPT !.thoughts = Trimmed(Append(@, [session |-> s, data |-> Plain(thought)]), s)], q)

\* The rows of the session are deleted and inserted again behind all others.
SqliteSaveBacktrack(q, s, thought, targetId) ==
    LET now == SqliteLoad(q, s)
        staged == StageBacktrack(now.history, now.branches, thought, targetId) IN
    Outcome(Persistable(now.history, now.branches) /\ staged.ok,
            [q EXCEPT !.thoughts = SelectSeq(@, LAMBDA row : row.session # s)
                                    \o [i \in DOMAIN staged.history |->
                                            [session |-> s, data |-> Plain(staged.history[i])]],
                      !.branches = {row \in @ : row.session # s \/ row.branch \notin DOMAIN staged.branches}
                                    \cup {[session |-> s, branch |-> b, data |-> PlainAll(staged.branches[b])] :
                                            b \in DOMAIN staged.branches}], q)

\* Mutant: the check sees the branch as it will be stored.
SqliteSaveParsedBranch(q, s, b, thoughts) ==
    LET now == SqliteLoad(q, s) IN
    Outcome(InBranchScope(b, thoughts) /\ Persistable(now.history, Put(now.branches, b, PlainAll(thoughts))),
            IF PersistBranches THEN [q EXCEPT !.branches = Replaced(@, s, b, thoughts)] ELSE q, q)

\* Thoughts of the same id, as they were given, are compared with the rows as they were parsed.
SqliteSaveBranch(q, s, b, thoughts) ==
    LET now == SqliteLoad(q, s) IN
    Outcome(InBranchScope(b, thoughts) /\ Persistable(now.history, Put(now.branches, b, thoughts)),
            IF PersistBranches THEN [q EXCEPT !.branches = Replaced(@, s, b, thoughts)] ELSE q, q)

SqliteDeleteBranch(q, s, b) ==
    Outcome(TRUE, IF PersistBranches
                  THEN [q EXCEPT !.branches = {row \in @ : row.session # s \/ row.branch # b}] ELSE q, q)

SqliteSaveRecords(q, kind, s, records) ==
    Outcome(TRUE, [q EXCEPT ![kind] = Others(@, s) \cup {[session |-> s, data |-> r] : r \in records}], q)

SqliteClearSession(q, s) ==
    [q EXCEPT !.thoughts = SelectSeq(@, LAMBDA row : row.session # s),
              !.branches = Others(@, s), !.edges = Others(@, s), !.summaries = Others(@, s)]

SqliteSessions(q) ==
    SessionsOf(Range(q.thoughts)) \cup SessionsOf(q.branches) \cup SessionsOf(q.edges)
        \cup SessionsOf(q.summaries)

--------------------------------------------------------------------------------
(* writeSqliteSnapshot: the document as the rows of an empty database.  Every record becomes *)
(* rows of its table, in the order of the document, which keeps the sessions apart.          *)

SnapshotThoughtRows(records, s) ==
    IF Of(records, s) = {} THEN <<>>
    ELSE LET thoughts == Found(records, s, <<>>) IN
         [i \in DOMAIN thoughts |-> [session |-> s, data |-> thoughts[i]]]

SnapshotBranchRows(records) ==
    {[session |-> r.session, branch |-> r.branch, data |-> r.data] : r \in records}

SnapshotRows(records) ==
    UNION {{[session |-> r.session, data |-> record] : record \in r.data} : r \in records}

\* The sessions in any order.
SnapshotTables(f, sessions) ==
    [thoughts |-> FlattenSeq([i \in DOMAIN sessions |-> SnapshotThoughtRows(f.thoughts, sessions[i])]),
     branches |-> SnapshotBranchRows(f.branches),
     edges |-> SnapshotRows(f.edges),
     summaries |-> SnapshotRows(f.summaries)]

--------------------------------------------------------------------------------
(* PersistenceWriter._dispatch over the three; a work item is a record with a kind. *)

MemoryWrite(m, s, w) ==
    CASE w.kind = "thought"   -> MemorySaveThought(m, s, w.thought)
      [] w.kind = "backtrack" -> MemorySaveBacktrack(m, s, w.thought, w.targetId)
      [] w.kind = "save"      -> MemorySaveBranch(m, s, w.branch, w.thoughts)
      [] w.kind = "delete"    -> MemoryDeleteBranch(m, s, w.branch)
      [] OTHER                -> MemorySaveRecords(m, w.kind, s, w.records)

FileWrite(f, s, w) ==
    CASE w.kind = "thought"   -> FileSaveThought(f, s, w.thought)
      [] w.kind = "backtrack" -> FileSaveBacktrack(f, s, w.thought, w.targetId)
      [] w.kind = "save"      -> FileSaveBranch(f, s, w.branch, w.thoughts)
      [] w.kind = "delete"    -> FileDeleteBranch(f, s, w.branch)
      [] OTHER                -> FileSaveRecords(f, w.kind, s, w.records)

SqliteWrite(q, s, w) ==
    CASE w.kind = "thought"   -> SqliteSaveThought(q, s, w.thought)
      [] w.kind = "backtrack" -> SqliteSaveBacktrack(q, s, w.thought, w.targetId)
      [] w.kind = "save"      -> SqliteSaveBranch(q, s, w.branch, w.thoughts)
      [] w.kind = "delete"    -> SqliteDeleteBranch(q, s, w.branch)
      [] OTHER                -> SqliteSaveRecords(q, w.kind, s, w.records)
=============================================================================
