----------------------------- MODULE Strategies -----------------------------
(***************************************************************************)
(* The reasoning strategies: SequentialStrategy follows the caller,        *)
(* TreeOfThoughtStrategy searches the active graph with a beam.  Scores    *)
(* are confidence times quality times the weight of the type, in units of  *)
(* a hundred-thousandth.                                                   *)
(***************************************************************************)
EXTENDS Evidence

CONSTANTS
    BeamWidth,
    DepthCap,
    TerminationScore,       \* terminationConfidence
    PlateauWindow,
    PlateauEpsilon

\* The constructor refuses anything else.
ValidOptions ==
    /\ BeamWidth \in Nat \ {0} /\ DepthCap \in Nat
    /\ PlateauWindow \in Nat \ {0, 1}
    /\ {TerminationScore, PlateauEpsilon} \subseteq Nat

ASSUME StrategiesAssumption == ValidOptions

TypeWeight(type) ==
    CASE type = "assumption" -> 5
      [] type = "decomposition" -> 12
      [] type = "backtrack" -> 8
      [] OTHER -> 10

Perfect == 100 * 100 * 10

Score(t) ==
    LET confidence == IF t.confidence = Unset THEN 0 ELSE t.confidence
        quality == IF t.quality = Unset THEN 50 ELSE t.quality
        raw == confidence * quality * TypeWeight(t.type) IN
    IF raw > Perfect THEN Perfect ELSE raw

\* The leaves of the active graph that are active thoughts.
Candidates(e) == {t \in Range(e.thoughts) : t.id \in Leaves(e.graph)}

\* The best by score, ties by id.
Beam(candidates) ==
    LET ahead(d, c) == Score(d) > Score(c) \/ (Score(d) = Score(c) /\ d.id < c.id) IN
    {t.id : t \in {c \in candidates : Cardinality({d \in candidates : ahead(d, c)}) < BeamWidth}}

Plateau(scores) ==
    LET recent == Newest(scores, PlateauWindow)
        spread == Greatest({a - b : <<a, b>> \in {p \in Range(recent) \X Range(recent) : p[1] >= p[2]}}) IN
    /\ Len(scores) >= PlateauWindow
    /\ spread < PlateauEpsilon
    /\ recent[Len(recent)] <= recent[1] + PlateauEpsilon

AtDepthCap(e, current) ==
    current \in Chronological(e.graph) /\ DepthFromRoots(e.graph, current) >= DepthCap

ConfidentLeaf(e) == \E t \in Candidates(e) : Score(t) >= TerminationScore

ScorePlateau(e) == Plateau([i \in DOMAIN e.main |-> Score(e.main[i])])

OutsideBeam(e, thought) ==
    Cardinality(Candidates(e)) > BeamWidth /\ thought.id \notin Beam(Candidates(e))

\* SequentialStrategy.
SequentialDecision(thought) == IF thought.next THEN "continue" ELSE "terminate"

\* TreeOfThoughtStrategy.
TreeDecision(e, thought) ==
    IF AtDepthCap(e, thought.id) \/ ConfidentLeaf(e) \/ ScorePlateau(e) THEN "terminate"
    ELSE IF OutsideBeam(e, thought) THEN "branch"
    ELSE "continue"

Decide(e, strategy, thought) ==
    IF strategy = "tot" THEN TreeDecision(e, thought) ELSE SequentialDecision(thought)
=============================================================================
