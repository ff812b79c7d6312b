--------------------------- MODULE ThoughtRecords ---------------------------
(***************************************************************************)
(* What the persistence backends and the restore demand of thoughts, and   *)
(* what a backtrack does to the records of a session.  A thought is a      *)
(* record                                                                  *)
(*   id, num      its stable id and its (reusable) thought_number          *)
(*   target       the thought_number a backtrack targets, 0 otherwise      *)
(*   branch       branch_id, or NoBranch                                   *)
(*   refs         the <<kind, thought_number>> it refers to                *)
(*   dropped      the kinds of reference whose key is still there, with    *)
(*                the value undefined                                      *)
(*   retracted                                                             *)
(* and two payloads are deeply equal when the records are: an own key with *)
(* the value undefined is not an absent key.                               *)
(***************************************************************************)
EXTENDS Naturals, Sequences, FiniteSets, Functions, TLC

CONSTANT DurableMax             \* maxHistorySize of the backend, 0 for unlimited

ASSUME DurableMaxAssumption == DurableMax \in Nat

NoBranch == 0

Put(f, k, v) == k :> v @@ f
Without(f, k) == Restrict(f, DOMAIN f \ {k})

Mapped(f, s, default) == IF s \in DOMAIN f THEN f[s] ELSE default

Ids(ts) == {t.id : t \in Range(ts)}

Newest(ts, k) == SubSeq(ts, IF Len(ts) > k THEN Len(ts) - k + 1 ELSE 1, Len(ts))

Retained(ts) == IF DurableMax > 0 THEN Newest(ts, DurableMax) ELSE ts

\* What JSON makes of a thought: a key with the value undefined is left out.
Plain(t) == [t EXCEPT !.dropped = {}]
PlainAll(ts) == [i \in DOMAIN ts |-> Plain(ts[i])]

\* No id twice in one array; the same id in two arrays of a session only for equal payloads.
Persistable(history, branches) ==
    LET arrays == {history} \cup Range(branches)
        thoughts == UNION {Range(ts) : ts \in arrays} IN
    /\ \A ts \in arrays : Cardinality(Ids(ts)) = Len(ts)
    /\ \A t, u \in thoughts : t.id = u.id => t = u

InBranchScope(b, ts) == \A t \in Range(ts) : t.branch \in {NoBranch, b}

RetractCopies(ts, ids) ==
    [i \in DOMAIN ts |-> [ts[i] EXCEPT !.retracted = @ \/ ts[i].id \in ids]]

RetractAll(branches, ids) == [b \in DOMAIN branches |-> RetractCopies(branches[b], ids)]

\* Correction, append and retention in one piece; ok is whether every assertion holds.
StageBacktrack(history, branches, thought, targetId) ==
    LET corrected == Append(RetractCopies(history, {targetId}), thought)
        retained == Retained(corrected)
        copies == RetractAll(branches, {targetId}) IN
    [ok |-> /\ Persistable(history, branches)
            /\ \A b \in DOMAIN copies : InBranchScope(b, copies[b])
            /\ Persistable(retained, copies),
     history |-> retained,
     branches |-> copies]

\* The backtracks among the retained thoughts name their target by number only.
RetainedTargets(history, branches) ==
    LET all == UNION {Range(ts) : ts \in {history} \cup Range(branches)} IN
    {{t.id : t \in {u \in all : u.id # back.id /\ u.num = back.target}} :
        back \in {u \in all : u.target # 0}}

Repairable(history, branches) ==
    \A ids \in RetainedTargets(history, branches) : Cardinality(ids) <= 1

Repaired(history, branches) ==
    LET targets == UNION RetainedTargets(history, branches) IN
    [history |-> RetractCopies(history, targets), branches |-> RetractAll(branches, targets)]
=============================================================================
