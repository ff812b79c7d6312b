----------------------------- MODULE MCReasoning -----------------------------
EXTENDS Reasoning

Thought(type, num, target, branch, refs) ==
    [type |-> type, num |-> num, target |-> target, branch |-> branch, refs |-> refs,
     confidence |-> Unset, quality |-> Unset, result |-> Unset, hypothesis |-> NoLabel, next |-> TRUE]

MCInputs ==
    { [Thought("hypothesis", 1, 0, NoBranch, {}) EXCEPT !.confidence = 80, !.hypothesis = "h"],
      [Thought(Missing, 2, 0, 1, {<<"branch", 1>>}) EXCEPT !.confidence = 60],
      [Thought("regular", 3, 0, NoBranch, {<<"merge", 1>>, <<"derives_from", 1>>}) EXCEPT !.confidence = 160],
      [Thought("regular", 4, 0, 1, {<<"derives_from", 2>>, <<"merge", 0>>}) EXCEPT !.confidence = 40, !.next = FALSE],
      [Thought("verification", 5, 0, NoBranch, {<<"verifies", 1>>}) EXCEPT !.result = 0],
      [Thought("verification", 6, 0, NoBranch, {<<"verifies", 1>>}) EXCEPT !.result = 1],
      Thought("backtrack", 6, 2, NoBranch, {}),
      Thought("regular", 2, 0, MalformedBranch, {<<"branch", 1>>}),
      Thought("tool_call", 2, 0, NoBranch, {}),
      Thought("critique", 3, 0, NoBranch, {<<"critiques", 0>>}),
      Thought("critique", 3, 0, NoBranch, {<<"critiques", 1>>}),
      Thought("regular", 5, 0, NoBranch, {<<"revises", 1>>, <<"merge", 1>>}) }
=============================================================================
