--------------------------- MODULE MCSessionStore ---------------------------
(* Finite instances of SessionStore. *)
EXTENDS SessionStore, TLC

\* Sessions, owners and requests are interchangeable (safety runs only).
Symmetry == Permutations(Sessions) \cup Permutations(Owners) \cup Permutations(Requests)

\* Bound: a restart finds one session in use at most, and while it is restored the
\* other names stay unused.  A restored session counts for no quota: other names meet it
\* through the buffer alone.
RestoredAlone ==
  \A s, t \in Sessions : s # t /\ live[s] # Absent /\ live[s].restored =>
    /\ live[t] = Absent
    /\ expired[t] = Unmarked
    /\ Stored(t) \cup Remains(t) = {}

=============================================================================
