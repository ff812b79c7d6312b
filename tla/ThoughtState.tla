---------------------------- MODULE ThoughtState ----------------------------
(***************************************************************************)
(* The live state of one session and what the admission of a thought does  *)
(* to it: references resolved by number, history and branches with their   *)
(* retention, retractions, verification targets, DAG edges, and the writes *)
(* it stages for the backends.                                             *)
(***************************************************************************)
EXTENDS ThoughtRecords, ThoughtGraph

CONSTANTS
    LiveMax,            \* maxHistorySize
    MaxBranches,
    MaxBranchSize,
    Persistent          \* whether there is a persistence buffer

ASSUME ThoughtStateAssumption ==
    {LiveMax, MaxBranches, MaxBranchSize} \subseteq Nat \ {0} /\ Persistent \in BOOLEAN

Seqs == INSTANCE SequencesExt

EmptyLive ==
    [history |-> <<>>, branches |-> <<>>, identities |-> <<>>, targets |-> <<>>, pending |-> {},
     edges |-> {}, summaries |-> {}, writes |-> <<>>]

Thoughts(l) == UNION {Range(ts) : ts \in {l.history} \cup Range(l.branches)}
BranchThoughts(l) == UNION {Ids(l.branches[b]) : b \in DOMAIN l.branches}
RetainedIds(l) == {t.id : t \in Thoughts(l)}

--------------------------------------------------------------------------------
(* References by number. *)

Resolutions(l, num) == {t.id : t \in {u \in Thoughts(l) : u.num = num}}
Unique(l, num) == Cardinality(Resolutions(l, num)) = 1
IdOf(l, num) == CHOOSE id \in Resolutions(l, num) : TRUE

\* Dangling and ambiguous references are dropped with a warning: the single ones ...
KeptScalars(l, refs) ==
    {ref \in refs : ref[1] \in {"verifies", "critiques", "revises", "branch"} /\ Unique(l, ref[2])}

\* ... and those of an array one by one.
KeptSources(l, refs) ==
    {ref \in refs : ref[1] \in {"merge", "derives_from"} /\ Unique(l, ref[2])}

KindsOf(refs) == {ref[1] : ref \in refs}

\* A reference that is dropped whole leaves its key behind, with the value undefined.  (So does
\* merge_branch_ids, which no thought here has: nothing else in the state depends on it.)
Resolved(l, input, id) ==
    LET kept == KeptScalars(l, input.refs) \cup KeptSources(l, input.refs) IN
    [input EXCEPT !.refs = kept]
        @@ [id |-> id, dropped |-> KindsOf(input.refs) \ KindsOf(kept), retracted |-> FALSE]

\* A backtrack whose target is dangling or ambiguous is refused.
TargetIds(l, input) == IF input.target = 0 THEN {} ELSE Resolutions(l, input.target)

\* Known to the live state, to a pending write or to the durable index.
IdentityTaken(l, id, durable) ==
    \/ id \in RetainedIds(l)
    \/ \E i \in DOMAIN l.writes : l.writes[i].kind \in {"thought", "backtrack"}
                                  /\ l.writes[i].thought.id = id
    \/ id \in durable

--------------------------------------------------------------------------------
(* EdgeEmitter and EdgeStore. *)

OnBranch(thought) == thought.branch # NoBranch /\ \E ref \in thought.refs : ref[1] = "branch"

Link(kind, from, to) == [kind |-> kind, from |-> from, to |-> to]

\* A reference edge leaves the older thought, except where it speaks about that thought.
EdgeFor(l, thought, ref) ==
    LET source == IdOf(l, ref[2]) IN
    IF ref[1] \in {"verifies", "critiques", "revises"}
    THEN Link(ref[1], thought.id, source)
    ELSE Link(ref[1], source, thought.id)

SequenceEdges(history, thought) ==
    IF Len(history) < 2 THEN {} ELSE {Link("sequence", history[Len(history) - 1].id, thought.id)}

\* Relational edges, or the sequence edge from the thought before when there is no such intent.
Emitted(seen, history, thought) ==
    LET relations == {ref \in thought.refs : ref[1] # "branch" \/ thought.branch # NoBranch} IN
    IF relations # {} THEN {EdgeFor(seen, thought, ref) : ref \in relations}
    ELSE SequenceEdges(history, thought)

\* No thought is linked to itself, and no link is there twice.
WithEdges(l, links) == [l EXCEPT !.edges = @ \cup {e \in links : e.from # e.to}]

\* A branch edge goes with the last branch copy of the thought it leads to.
PrunedEdges(edges, retained, branched) ==
    {e \in edges : {e.from, e.to} \subseteq retained /\ (e.kind = "branch" => e.to \in branched)}

PruneEdges(l) == [l EXCEPT !.edges = PrunedEdges(@, RetainedIds(l), BranchThoughts(l))]

--------------------------------------------------------------------------------
(* Retention. *)

\* The newest of the session's branch identities stay.
DropBranches(l) ==
    LET kept == Newest(l.identities, MaxBranches) IN
    [l EXCEPT !.identities = kept,
              !.branches = Restrict(@, DOMAIN @ \ (Range(l.identities) \ Range(kept)))]

TrimBranch(l, b) ==
    IF b \in DOMAIN l.branches THEN [l EXCEPT !.branches[b] = Newest(@, MaxBranchSize)] ELSE l

PruneTargets(l) ==
    [l EXCEPT !.targets = Restrict(@, {v \in DOMAIN @ : {v, @[v]} \subseteq RetainedIds(l)})]

--------------------------------------------------------------------------------
(* The writes a session has accepted; a newer snapshot replaces the pending one of its key. *)

SameKey(v, w) ==
    \/ v.kind = w.kind /\ w.kind \in {"edges", "summaries"}
    \/ {v.kind, w.kind} \subseteq {"save", "delete"} /\ v.branch = w.branch

\* Without a persistence buffer there is nothing to write.  No backend has refused a new write yet.
Enqueue(writes, w) ==
    IF Persistent
    THEN Append(SelectSeq(writes, LAMBDA v : ~SameKey(v, w)), w @@ [refusedBy |-> {}])
    ELSE writes

EnqueueAll(writes, ws) == Seqs!FoldLeft(Enqueue, writes, ws)

\* Mutant: the branches that are gone stay in the backend.
SavesOnly(l, evicted) ==
    LET saves == SelectSeq(l.identities, LAMBDA b : b \in DOMAIN l.branches) IN
    [l EXCEPT !.pending = {},
              !.writes = EnqueueAll(@, [i \in DOMAIN saves |->
                    [kind |-> "save", branch |-> saves[i], thoughts |-> l.branches[saves[i]]]])]

\* _stageBranchPersistence: every branch is saved again, what is gone is deleted.
StageBranches(l, evicted) ==
    LET saves == SelectSeq(l.identities, LAMBDA b : b \in DOMAIN l.branches)
        gone == (l.pending \cup evicted) \ DOMAIN l.branches IN
    [l EXCEPT !.pending = {},
              !.writes = EnqueueAll(@,
                    [i \in DOMAIN saves |->
                        [kind |-> "save", branch |-> saves[i], thoughts |-> l.branches[saves[i]]]]
                    \o Seqs!SetToSeq({[kind |-> "delete", branch |-> b] : b \in gone}))]

StageEdges(l) == [l EXCEPT !.writes = Enqueue(@, [kind |-> "edges", records |-> l.edges])]

--------------------------------------------------------------------------------
(* Summaries: a branch is summarised once for each of its roots. *)

RootOf(l, b) == l.branches[b][1].id
SummariesOn(l, b) == {s \in l.summaries : s.branch = b}
WithSummary(l, s) == [l EXCEPT !.summaries = @ \cup {s}]

Summarised(l, b) == \E s \in SummariesOn(l, b) : s.root = RootOf(l, b)

Compressed(l, b) ==
    WithSummary(l, [branch |-> b, root |-> RootOf(l, b),
                    covered |-> Covered(l.edges, RootOf(l, b)) \cap RetainedIds(l)])

--------------------------------------------------------------------------------
(* Admission. *)

\* Identities is a JavaScript Set: a name that is there keeps its place.
WithIdentity(l, b) ==
    IF b \in Range(l.identities) THEN l ELSE [l EXCEPT !.identities = Append(@, b)]

\* registerBranch: the new name may push out the oldest branch.
Registered(l, b) ==
    LET named == WithIdentity(l, b)
        kept == PruneEdges(DropBranches(named))
        evicted == DOMAIN named.branches \ DOMAIN kept.branches
        staged == IF evicted # {} \/ l.pending # {} THEN StageBranches(kept, evicted) ELSE kept IN
    IF kept.edges # l.edges THEN StageEdges(staged) ELSE staged

\* Mutant: only the history copy is corrected.
RetractedInHistory(l, ids) == [l EXCEPT !.history = RetractCopies(@, ids)]

RetractedEverywhere(l, ids) ==
    [l EXCEPT !.history = RetractCopies(@, ids), !.branches = RetractAll(@, ids)]

\* addThought, on references that were resolved in the state seen.
Admitted(l, seen, thought, targetIds) ==
    LET retracted == RetractedEverywhere([l EXCEPT !.history = Append(@, thought)], targetIds)
        verified == IF thought.type = "verification" /\ \E ref \in thought.refs : ref[1] = "verifies"
                    THEN [retracted EXCEPT !.targets =
                            Put(@, thought.id, IdOf(seen, (CHOOSE ref \in thought.refs : ref[1] = "verifies")[2]))]
                    ELSE retracted
        branched == IF OnBranch(thought)
                    THEN WithIdentity([verified EXCEPT !.branches = Put(@, thought.branch,
                            Append(Mapped(@, thought.branch, <<>>), thought))], thought.branch)
                    ELSE verified
        linked == WithEdges(branched, Emitted(seen, branched.history, thought))
        trimmed == TrimBranch([linked EXCEPT !.history = Newest(@, LiveMax)], thought.branch)
        kept == PruneEdges(PruneTargets(DropBranches(trimmed)))
        evicted == DOMAIN trimmed.branches \ DOMAIN kept.branches
        first == IF targetIds = {} THEN [kind |-> "thought", thought |-> thought]
                 ELSE [kind |-> "backtrack", thought |-> thought, targetId |-> CHOOSE id \in targetIds : TRUE]
        written == [kept EXCEPT !.writes = Enqueue(@, first)]
        staged == IF thought.branch # NoBranch \/ targetIds # {} \/ evicted # {} \/ l.pending # {}
                  THEN StageBranches(written, evicted) ELSE written IN
    IF linked.edges # l.edges \/ kept.edges # linked.edges THEN StageEdges(staged) ELSE staged
=============================================================================
