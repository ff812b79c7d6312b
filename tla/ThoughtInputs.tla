---------------------------- MODULE ThoughtInputs ----------------------------
(***************************************************************************)
(* What a caller's arguments become before a thought is admitted:          *)
(* normalizeInput, the schema, and the gates of the feature flags.  A raw  *)
(* input is a thought without an id whose type may be missing, whose       *)
(* scores may be out of range, whose references may name number 0 and      *)
(* whose names may be malformed.                                           *)
(***************************************************************************)
EXTENDS Evidence, Integers

CONSTANTS
    NewThoughtTypes,    \* the feature flags
    ToolInterleave

ASSUME ThoughtInputsAssumption == {NewThoughtTypes, ToolInterleave} \subseteq BOOLEAN

Missing == "missing"
MalformedBranch == 99
MalformedLabel == "malformed"

ThoughtTypes ==
    {"regular", "hypothesis", "verification", "critique", "synthesis", "meta", "tool_call",
     "tool_observation", "assumption", "decomposition", "backtrack"}

\* sanitizeBranchId throws; it is applied to branch_id, register_branch_id and hypothesis_id.
WellNamed(raw) == raw.branch # MalformedBranch /\ raw.hypothesis # MalformedLabel

Clamped(score) ==
    CASE score = Unset -> Unset
      [] score > 100   -> 100
      [] score < 0     -> 0
      [] OTHER         -> score

\* Only the elements of an array are filtered; a scalar is left to the schema.
PositiveSources(refs) == {ref \in refs : ref[1] \in {"merge", "derives_from"} => ref[2] > 0}

NormalizedReasoning(input) ==
    [input EXCEPT !.type = IF @ = Missing THEN "regular" ELSE @,
                  !.confidence = Clamped(@),
                  !.quality = Clamped(@),
                  !.refs = PositiveSources(@)]

InSchema(input) ==
    /\ input.type \in ThoughtTypes
    /\ input.num >= 1
    /\ \A ref \in input.refs : ref[2] >= 1
    /\ \A score \in {input.confidence, input.quality} : score = Unset \/ score \in 0..100
    /\ input.result \in {Unset, 0, 1}
    /\ input.target >= 0

\* _validateStatelessNewTypes
GatesOpen(input) ==
    /\ input.type \in {"tool_call", "tool_observation"} => ToolInterleave
    /\ input.type \in {"assumption", "decomposition", "backtrack"} => NewThoughtTypes
    /\ input.type = "backtrack" => input.target \in 1..input.num

\* _prepareInput normalizes before the schema and once more after it.
Prepared(raw) == NormalizedReasoning(NormalizedReasoning(raw))

Acceptable(raw) ==
    /\ WellNamed(raw)
    /\ InSchema(NormalizedReasoning(raw))
    /\ GatesOpen(Prepared(raw))
=============================================================================
