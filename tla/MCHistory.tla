----------------------------- MODULE MCHistory -----------------------------
(* A finite instance of History. *)
EXTENDS History

Thought(type, num, target, branch, refs) ==
    [type |-> type, num |-> num, target |-> target, branch |-> branch, refs |-> refs]

\* The ids of this session alone are interchangeable.
Interchangeable == Permutations(ThoughtIds \ {OtherId})

\* Numbers come back with every thought.  A backtrack is on branch 1, its target in the history and
\* on branch 2, whose merge source is often missing; the first verification has no target.
MCInputs ==
    { Thought("verification", 1, 0, NoBranch, {<<"verifies", 2>>}),
      Thought("backtrack", 3, 2, 1, {<<"branch", 1>>}),
      Thought("regular", 2, 0, 2, {<<"branch", 1>>, <<"revises", 1>>, <<"merge", 3>>}) }

=============================================================================
