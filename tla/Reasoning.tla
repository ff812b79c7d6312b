----------------------------- MODULE Reasoning -----------------------------
(***************************************************************************)
(* ThoughtProcessor over one session without a persistence backend: the    *)
(* admission of a thought, the outcome of a verification, the hints, the   *)
(* strategy's decision and the compression a decision triggers, as one     *)
(* step under the session's lock.  dagEdges, outcome recording,            *)
(* calibration and compression are on; tool_call and tool_observation are  *)
(* the subject of ToolInterleave, register_branch_id of History.           *)
(***************************************************************************)
EXTENDS Strategies, ThoughtInputs

CONSTANTS
    Inputs,             \* what a caller may submit: raw inputs
    KeepLastK,          \* of the dehydrated history
    MaxAdmissions       \* bound

VARIABLES
    live,               \* the SessionState, its edges and its summaries
    strategy,
    outcomes,           \* OutcomeRecorder: target id -> outcome
    fitted,             \* the outcomes the calibrator's temperature is fitted to
    cooldowns,          \* hint pattern -> thought_number it was last given at
    answer,             \* the action and the hints of the last answer
    aimed,              \* ghost: the ids a backtrack has aimed at
    submitted           \* bound: each input is submitted once, under a fresh id

vars == <<live, strategy, outcomes, fitted, cooldowns, answer, aimed, submitted>>

FreshId == Cardinality(submitted) + 1

--------------------------------------------------------------------------------
(* Admission. *)

\* A backtrack's target must be one retained thought; other references may dangle.
TargetKnown(base, input) == input.target # 0 => Unique(base, input.target)

Judges(input) == input.type = "verification" /\ input.result # Unset

\* Mutant: a second verification replaces the first one's outcome.
AlwaysRecordable(recorded, id) == TRUE

CanRecord(recorded, id) == id \notin DOMAIN recorded

Judged(base, input) ==
    {t \in Thoughts(base) : \E ref \in input.refs :
        ref[1] = "verifies" /\ Unique(base, ref[2]) /\ t.id = IdOf(base, ref[2])}

\* prepareVerificationOutcome: the target is retained, active, confident and not yet judged.
Judgeable(base, input, recorded) ==
    Judges(input) =>
        \E t \in Judged(base, input) :
            ~t.retracted /\ t.confidence # Unset /\ CanRecord(recorded, t.id)

OutcomeOf(base, input) ==
    LET t == CHOOSE t \in Judged(base, input) : TRUE IN
    t.id :> [predicted |-> t.confidence, actual |-> input.result, type |-> t.type]

Recorded(recorded, base, input) ==
    IF Judges(input) THEN OutcomeOf(base, input) @@ recorded ELSE recorded

\* refit after a verification; a replaced session starts unfitted.
Fitted(input, reset, judgements) ==
    CASE Judges(input) -> judgements
      [] ~Judges(input) /\ reset -> <<>>
      [] OTHER -> fitted

--------------------------------------------------------------------------------
(* Hints, the most important first. *)

HintOrder == << "refuted_hypothesis_dependency", "confidence_drift", "unverified_hypothesis",
                "unaddressed_critique", "no_alternatives_explored",
                "consecutive_without_verification", "monotonic_type" >>

Hints(e, num, cooling) ==
    LET warnings == Warnings(e)
        ready == SelectSeq(HintOrder, LAMBDA pattern :
            /\ pattern \in warnings
            /\ pattern \in DOMAIN cooling => num >= cooling[pattern] + 3) IN
    {ready[i] : i \in DOMAIN ready \cap 1..3}

--------------------------------------------------------------------------------
(* Compression and dehydration. *)

\* compressBranch: what is gone or summarised already is left alone.
CompressedOnce(l, b) ==
    IF b \notin DOMAIN l.branches \/ Summarised(l, b) THEN l ELSE Compressed(l, b)

Nothing == [root |-> 0]

\* Mutant: a thought in between does not interrupt a summary.
StillOpen(last) == last

Interrupted(last) == Nothing

\* getHistoryHydrated, given the summaries in the order of their creation.
Hydrated(history, summaries, k) ==
    LET cold == Len(history) - k
        covering(id) == SelectSeq(summaries, LAMBDA s : id \in s.covered)
        add(acc, t) ==
            IF covering(t.id) = <<>>
            THEN [out |-> Append(acc.out, t), last |-> Interrupted(acc.last)]
            ELSE LET s == covering(t.id)[1] IN
                 IF s = acc.last THEN acc ELSE [out |-> Append(acc.out, s), last |-> s] IN
    IF cold <= 0 THEN history
    ELSE Seqs!FoldLeft(add, [out |-> <<>>, last |-> Nothing], SubSeq(history, 1, cold)).out
         \o SubSeq(history, cold + 1, Len(history))

--------------------------------------------------------------------------------

\* What the state after the admission is answered with.
Respond(admitted, e, thought, cooling) ==
    LET action == Decide(e, strategy, thought)
        hints == Hints(e, thought.num, cooling) IN
    /\ answer' = [action |-> action, hints |-> hints]
    /\ cooldowns' = [pattern \in hints |-> thought.num] @@ cooling
    /\ live' = IF action = "terminate" /\ thought.branch # NoBranch
               THEN CompressedOnce(admitted, thought.branch) ELSE admitted

\* A replacement starts from the empty session, and nothing of the old one is left.
Process(raw, reset) ==
    LET input == Prepared(raw)
        base == IF reset THEN EmptyLive ELSE live
        recorded == IF reset THEN <<>> ELSE outcomes
        thought == Resolved(base, input, FreshId)
        targetIds == TargetIds(base, input) IN
    /\ Cardinality(submitted) < MaxAdmissions
    /\ raw \notin submitted
    /\ Acceptable(raw)
    /\ TargetKnown(base, input)
    /\ Judgeable(base, input, outcomes)
    /\ outcomes' = Recorded(recorded, base, input)
    /\ fitted' = Fitted(input, reset, outcomes')
    /\ \E admitted \in {Admitted(base, base, thought, targetIds)} :
       \E e \in {EvidenceOf(admitted)} :
            Respond(admitted, e, thought, IF reset THEN <<>> ELSE cooldowns)
    /\ aimed' = (IF reset THEN {} ELSE aimed) \cup targetIds
    /\ submitted' = submitted \cup {raw}
    /\ UNCHANGED strategy

\* resetSession
Reset ==
    /\ live # EmptyLive
    /\ live' = EmptyLive
    /\ outcomes' = <<>> /\ fitted' = <<>> /\ cooldowns' = <<>>
    /\ aimed' = {}
    /\ UNCHANGED <<strategy, answer, submitted>>

Init ==
    /\ live = EmptyLive
    /\ strategy \in {"sequential", "tot"}
    /\ outcomes = <<>> /\ fitted = <<>> /\ cooldowns = <<>>
    /\ answer = [action |-> "none", hints |-> {}]
    /\ aimed = {}
    /\ submitted = {}

Next ==
    \/ \E raw \in Inputs, reset \in BOOLEAN : Process(raw, reset)
    \/ Reset

Spec == Init /\ [][Next]_vars

--------------------------------------------------------------------------------
(* Properties. *)

\* A graph's traversals tell one story: it is a DAG, sorted in the order of every
\* edge, exactly when no thought leads back to itself; forward and backward closures
\* are inverse; what no root reaches has no depth; the counts match.
Traversed(g, order, longest, depth, down, up) ==
    LET cyclic == \E id \in Nodes(g) : HasPath(g, id, id, AnyKind)
        at(id) == CHOOSE i \in DOMAIN order : order[i] = id IN
    /\ (Len(order) # Cardinality(Nodes(g))) <=> cyclic
    /\ (longest = Cyclic) <=> cyclic
    /\ ~cyclic => /\ Range(order) = Nodes(g)
                  /\ \A e \in g.edges : at(e.from) < at(e.to)
                  /\ \A id \in Nodes(g) : depth[id] <= longest
                  /\ Frontier(g, Roots(g), Cardinality(g.edges)) = Leaves(g)
    /\ \A a, b \in Nodes(g) : b \in down[a] <=> a \in up[b]
    /\ \A id \in Nodes(g) : BranchIdsFrom(g, id) \subseteq {id} \cup down[id]
    /\ \A e \in g.edges : depth[e.from] # Nowhere => depth[e.to] <= depth[e.from] + 1

Coherent(g) ==
    /\ Traversed(g, Topological(g), LongestPath(g),
                 [id \in Nodes(g) |-> DepthFromRoots(g, id)],
                 [id \in Nodes(g) |-> Descendants(g, id, AnyKind)],
                 [id \in Nodes(g) |-> Ancestors(g, id, AnyKind)])
    /\ UNION Components(g) = Nodes(g)

\* Over the session's edges and over the active evidence the queries of GraphView agree,
\* with parallel edges and cycles among the thoughts.
GraphViewsAgree == Coherent(Audit(live.edges)) /\ Coherent(EvidenceOf(live).graph)

\* The session as if its retracted thoughts had never been there, but for the names of its branches.
Erased(l) ==
    LET kept(ts) == SelectSeq(ts, LAMBDA t : t.id \notin aimed) IN
    [l EXCEPT !.history = kept(@),
              !.branches = [b \in DOMAIN @ |-> kept(@[b])],
              !.edges = {e \in @ : {e.from, e.to} \cap aimed = {}}]

\* What the session is told of itself, and what a search of the tree would do at each thought.
Assessment(e) ==
    [stats |-> Stats(e), quality |-> Quality(Stats(e)), links |-> e.links, warnings |-> Warnings(e),
     healthy |-> HealthyVerification(e),
     contexts |-> [id \in e.ids |-> Context(e, id)],
     decisions |-> {<<t.id, TreeDecision(e, t)>> : t \in Range(e.thoughts)}]

\* A thought that has lost all its neighbours stays in the graph, on its own.
WithLoners(e, nodes) == [e EXCEPT !.graph.nodes = @ \cup (nodes \cap e.ids)]

\* What a backtrack aimed at has no influence on the statistics, the links, the positions in the
\* graph, the patterns and the decisions of the tree search: they are those of a session without
\* it, whichever copies of it are still retained, in the history or in a branch.
RetractionIsErasure ==
    LET e == EvidenceOf(live) IN
    /\ e.ids \cap aimed = {}
    /\ Assessment(e) = Assessment(WithLoners(EvidenceOf(Erased(live)), Nodes(Audit(live.edges))))

\* A retained verification with a result is the one the recorder and the calibrator
\* count for its target: one result a target, predicted with the target's confidence.
VerificationsAreLabelled ==
    /\ fitted = outcomes
    /\ \A v \in Thoughts(live) : Judges(v) /\ v.id \in DOMAIN live.targets =>
        /\ live.targets[v.id] \in DOMAIN outcomes
        /\ outcomes[live.targets[v.id]].actual = v.result
        /\ \A t \in Thoughts(live) : t.id = live.targets[v.id] =>
                outcomes[t.id].predicted = t.confidence /\ outcomes[t.id].type = t.type

\* Every thought has its place, in order, in the dehydrated history: itself, or a
\* summary that covers it; nothing else is in there, and the newest are themselves.
HydratedCovers ==
    LET n == Len(live.history) IN
    \A order \in {s \in Seqs!SetToAllKPermutations(live.summaries) : Len(s) = Cardinality(live.summaries)} :
        LET out == Hydrated(live.history, order, KeepLastK) IN
        live.summaries # {} =>
        \E f \in [1..n -> DOMAIN out] :
            /\ Range(f) = DOMAIN out
            /\ \A i \in 1..(n - 1) : f[i] <= f[i + 1]
            /\ \A i \in 1..n :
                \/ out[f[i]] = live.history[i] /\ \A j \in 1..n : f[j] = f[i] => j = i
                \/ i <= n - KeepLastK /\ out[f[i]] \in live.summaries /\ live.history[i].id \in out[f[i]].covered
=============================================================================
