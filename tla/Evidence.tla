------------------------------ MODULE Evidence ------------------------------
(***************************************************************************)
(* What the answer to a thought is computed from: the thoughts of a        *)
(* session that no backtrack has retracted, the links from verifications   *)
(* to hypotheses, the DAG between them, the analytics and the patterns.    *)
(* A thought also has                                                      *)
(*   confidence, quality   in percent, or Unset                            *)
(*   result                verification_result, or Unset                   *)
(*   hypothesis            hypothesis_id, or NoLabel                       *)
(***************************************************************************)
EXTENDS ThoughtState

Unset == 1000
NoLabel == "none"

FirstOfId(ts) ==
    LET first == {i \in DOMAIN ts : \A j \in 1..(i - 1) : ts[j].id # ts[i].id} IN
    [i \in 1..Cardinality(first) |->
        ts[CHOOSE k \in first : Cardinality({j \in first : j <= k}) = i]]

--------------------------------------------------------------------------------
(* Active thoughts. *)

\* Mutant: the patterns see the whole history.
Everything(ts) == ts

\* filterRetracted, for the patterns and the number of branches.
Unretracted(ts) == SelectSeq(ts, LAMBDA t : ~t.retracted)

MarkedIds(l) == {t.id : t \in {u \in Thoughts(l) : u.retracted}}

ActiveMain(l, marked) == FirstOfId(SelectSeq(l.history, LAMBDA t : t.id \notin marked))

BranchCopies(l) ==
    Seqs!FoldLeft(LAMBDA ts, b : ts \o Mapped(l.branches, b, <<>>), <<>>, l.identities)

\* The main history, then what only a branch still holds.
ActiveThoughts(l, marked) ==
    FirstOfId(ActiveMain(l, marked) \o SelectSeq(BranchCopies(l), LAMBDA t : t.id \notin marked))

\* The induced graph; a thought whose neighbours are all retracted stays visible.
ActiveGraph(edges, active) ==
    [nodes |-> {id \in active : \E e \in edges : id \in {e.from, e.to}},
     edges |-> {e \in edges : {e.from, e.to} \subseteq active}]

--------------------------------------------------------------------------------
(* Verification links. *)

Hypotheses(ts) == {t \in Range(ts) : t.type = "hypothesis"}

HasTarget(t) == \E ref \in t.refs : ref[1] \in {"verifies", "critiques"}

\* Without an explicit target a label counts when one active hypothesis has it.
LegacyTargets(ts, label) ==
    LET named == {h.id : h \in {x \in Hypotheses(ts) : label # NoLabel /\ x.hypothesis = label}} IN
    IF Cardinality(named) = 1 THEN named ELSE {}

TargetsOf(v, ts, recorded) ==
    IF HasTarget(v)
    THEN {recorded[id] : id \in {v.id} \cap DOMAIN recorded} \cap Ids(SelectSeq(ts, LAMBDA t : t.type = "hypothesis"))
    ELSE LegacyTargets(ts, v.hypothesis)

\* recorded: the verificationTargets of the session.
Links(ts, recorded) ==
    LET linked == {<<v.id, TargetsOf(v, ts, recorded)>> : v \in {t \in Range(ts) : t.type = "verification"}} IN
    [id \in {p[1] : p \in {q \in linked : q[2] # {}}} |->
        CHOOSE h \in UNION {p[2] : p \in {q \in linked : q[1] = id}} : TRUE]

--------------------------------------------------------------------------------
(* What all of this comes to, from the active thoughts ts of a session. *)

Gathered(l, marked, ts) ==
    [main |-> ActiveMain(l, marked),
     thoughts |-> ts,
     ids |-> Ids(ts),
     graph |-> ActiveGraph(l.edges, Ids(ts)),
     links |-> Links(ts, l.targets),
     kept |-> Unretracted(l.history),
     branches |-> DOMAIN l.branches]

EvidenceOf(l) == Gathered(l, MarkedIds(l), ActiveThoughts(l, MarkedIds(l)))

--------------------------------------------------------------------------------
(* Analytics. *)

CountByType(ts, type) == Cardinality({i \in DOMAIN ts : ts[i].type = type})

\* Where the chain of thoughts starts anew: a first thought never does so by branching.
Cuts(ts) == {1} \cup {i \in DOMAIN ts : i > 1 /\ \E ref \in ts[i].refs : ref[1] = "branch"}

\* The longest stretch between two cuts.
ChainDepth(ts) ==
    Greatest({1 + p[2] - p[1] : p \in {q \in (DOMAIN ts) \X (DOMAIN ts) :
                q[1] <= q[2] /\ q[1] \in Cuts(ts) /\ Cuts(ts) \cap ((q[1] + 1)..q[2]) = {}}})

HasMerge(t) == \E ref \in t.refs : ref[1] = "merge"

Stats(e) ==
    [total_thoughts |-> Len(e.thoughts),
     total_branches |-> Cardinality(e.branches),
     total_merges |-> Len(SelectSeq(e.thoughts, HasMerge)),
     chain_depth |-> ChainDepth(e.thoughts),
     hypothesis_count |-> CountByType(e.thoughts, "hypothesis"),
     verification_count |-> CountByType(e.thoughts, "verification"),
     verified_hypothesis_count |-> Cardinality(Range(e.links)),
     unresolved_hypothesis_count |->
        CountByType(e.thoughts, "hypothesis") - Cardinality(Range(e.links))]

\* Coverage and efficiency as numerator and denominator.
Quality(s) ==
    LET deep == Greatest({s.chain_depth, s.total_branches + 1}) IN
    [verification_coverage |->
        IF s.hypothesis_count = 0 THEN <<1, 1>> ELSE <<s.verified_hypothesis_count, s.hypothesis_count>>,
     depth_efficiency |->
        IF deep > s.total_thoughts THEN <<1, 1>> ELSE <<deep, s.total_thoughts>>]

\* The position of a thought in the active graph.
Context(e, id) ==
    LET neighbours == {r.id : r \in Inbound(e.graph, id) \cup Outbound(e.graph, id)} IN
    [shown |-> neighbours # {},
     root_distance |-> DepthFromRoots(e.graph, id),
     ancestor_count |-> Cardinality(Ancestors(e.graph, id, AnyKind)),
     neighbours |-> neighbours \cap e.ids]

--------------------------------------------------------------------------------
(* Patterns: the index ranges of the main history, or the thoughts, each of them names. *)

ConsecutiveWithoutVerification(h) ==
    LET run(i) == i - Greatest({j \in 1..i : h[j].type = "verification"}) IN
    {<<i - 2, i>> : i \in {k \in DOMAIN h : run(k) > 0 /\ run(k) % 3 = 0}}

Answered(links, h, i) ==
    \E j \in (i + 1)..(i + 3) : j \in DOMAIN h /\ <<h[j].id, h[i].id>> \in {<<v, links[v]>> : v \in DOMAIN links}

\* The hypotheses of the history that are active.
Known(e) == {i \in DOMAIN e.kept : e.kept[i].type = "hypothesis" /\ e.kept[i].id \in e.ids}

UnverifiedHypothesis(e) ==
    {<<i, i>> : i \in {k \in Known(e) : Len(e.kept) - k >= 3 /\ ~Answered(e.links, e.kept, k)}}

HealthyVerification(e) == {<<i, i>> : i \in {k \in Known(e) : Answered(e.links, e.kept, k)}}

NoAlternativesExplored(e) ==
    IF Len(e.kept) >= 5 /\ CountByType(e.kept, "critique") = 0 /\ e.branches = {}
    THEN {<<1, Len(e.kept)>>} ELSE {}

\* Maximal runs of at least `least` indices between which Same holds pairwise.
Runs(h, least, Same(_, _)) ==
    {r \in (DOMAIN h) \X (DOMAIN h) :
        /\ r[2] - r[1] + 1 >= least
        /\ \A i \in r[1]..(r[2] - 1) : Same(h[i], h[i + 1])
        /\ r[1] > 1 => ~Same(h[r[1] - 1], h[r[1]])
        /\ r[2] < Len(h) => ~Same(h[r[2]], h[r[2] + 1])}

SameType(t, u) == t.type = u.type
LessConfident(t, u) == Unset \notin {t.confidence, u.confidence} /\ u.confidence < t.confidence

MonotonicType(h) == IF Len(h) < 5 THEN {} ELSE Runs(h, 4, SameType)

ConfidenceDrift(h) == Runs(h, 3, LessConfident)

\* The hypotheses whose latest result, in the order of the active thoughts, is a refutation.
Refuted(e) ==
    LET ts == e.thoughts
        judges(h) == {i \in DOMAIN ts : ts[i].result # Unset /\ ts[i].id \in DOMAIN e.links
                                        /\ e.links[ts[i].id] = h} IN
    {h \in Range(e.links) : \E i \in judges(h) : ts[i].result = 0 /\ \A j \in judges(h) : j <= i}

\* The active thoughts that rest on a hypothesis and have not been revised.
Dependents(e, h) ==
    {d \in Descendants(e.graph, h, {"derives_from", "merge", "branch"}) \cap e.ids :
        \A r \in Inbound(e.graph, d) : r.kind # "revises"}

RefutedDependents(e) == {h \in Refuted(e) : Dependents(e, h) # {}}

\* A later verification, or a revision, of the thought with this id.
Addressed(e, i, id) ==
    \E r \in Inbound(e.graph, id) :
        \/ r.kind = "revises"
        \/ r.kind = "verifies" /\ \E j \in DOMAIN e.thoughts : j > i /\ e.thoughts[j].id = r.id

UnaddressedCritiques(e) ==
    {i \in DOMAIN e.thoughts :
        /\ e.thoughts[i].type = "critique" /\ Len(e.thoughts) - i >= 3
        /\ \E r \in Outbound(e.graph, e.thoughts[i].id) :
                r.kind = "critiques" /\ ~Addressed(e, i, r.id)}

\* The patterns of severity warning.
Warnings(e) ==
    LET found == [refuted_hypothesis_dependency |-> RefutedDependents(e),
                  confidence_drift |-> ConfidenceDrift(e.kept),
                  unverified_hypothesis |-> UnverifiedHypothesis(e),
                  unaddressed_critique |-> UnaddressedCritiques(e),
                  no_alternatives_explored |-> NoAlternativesExplored(e),
                  consecutive_without_verification |-> ConsecutiveWithoutVerification(e.kept),
                  monotonic_type |-> MonotonicType(e.kept)] IN
    {pattern \in DOMAIN found : found[pattern] # {}}
=============================================================================
