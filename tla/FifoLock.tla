------------------------------ MODULE FifoLock ------------------------------
(***************************************************************************)
(* What SessionLock promises: one lock per key, granted in the order in    *)
(* which it was asked for, to waiters that may give up.                    *)
(***************************************************************************)
EXTENDS Naturals, Sequences

CONSTANTS Keys, Clients

VARIABLES
  queue,    \* the waiting clients of each key, first come first
  holders   \* the clients that hold it

Init ==
  /\ queue = [k \in Keys |-> <<>>]
  /\ holders = [k \in Keys |-> {}]

Without(q, i) == [j \in 1..(Len(q) - 1) |-> IF j < i THEN q[j] ELSE q[j + 1]]

Ask(c, k) ==
  /\ \A l \in Keys : c \notin holders[l] /\ \A i \in DOMAIN queue[l] : queue[l][i] # c
  /\ queue' = [queue EXCEPT ![k] = Append(@, c)]
  /\ UNCHANGED holders

Grant(k) ==
  /\ queue[k] # <<>>
  /\ holders[k] = {}
  /\ holders' = [holders EXCEPT ![k] = {Head(queue[k])}]
  /\ queue' = [queue EXCEPT ![k] = Tail(@)]

GiveUp(k, i) ==
  /\ queue' = [queue EXCEPT ![k] = Without(@, i)]
  /\ UNCHANGED holders

Return(k) ==
  /\ holders[k] # {}
  /\ holders' = [holders EXCEPT ![k] = {}]
  /\ UNCHANGED queue

Next ==
  \E k \in Keys :
    \/ \E c \in Clients : Ask(c, k)
    \/ Grant(k)
    \/ \E i \in DOMAIN queue[k] : GiveUp(k, i)
    \/ Return(k)

Spec == Init /\ [][Next]_<<queue, holders>>

=============================================================================
