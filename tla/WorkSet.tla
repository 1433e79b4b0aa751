------------------------------- MODULE WorkSet -------------------------------
(***************************************************************************)
(* What a controller expects of its work queue, with nothing said of how   *)
(* the queue is built or ordered: a set of items that need work, at most   *)
(* one worker on any item at a time, and a mark made while an item is      *)
(* being worked on is kept for another round.                              *)
(***************************************************************************)
CONSTANTS Items, Workers, NoItem

VARIABLES
  pending,   \* the items that need work
  held,      \* held[w] is the item worker w is busy with, or NoItem
  closed     \* no further item is accepted

vars == <<pending, held, closed>>

Init ==
  /\ pending = {}
  /\ held = [w \in Workers |-> NoItem]
  /\ closed = FALSE

Mark(i) ==
  /\ ~closed
  /\ pending' = pending \union {i}
  /\ UNCHANGED <<held, closed>>

Take(w, i) ==
  /\ held[w] = NoItem
  /\ i \in pending
  /\ \A v \in Workers : held[v] # i
  /\ held' = [held EXCEPT ![w] = i]
  /\ pending' = pending \ {i}
  /\ UNCHANGED closed

Release(w) ==
  /\ held[w] # NoItem
  /\ held' = [held EXCEPT ![w] = NoItem]
  /\ UNCHANGED <<pending, closed>>

Close ==
  /\ closed' = TRUE
  /\ UNCHANGED <<pending, held>>

Next ==
  \/ \E i \in Items : Mark(i)
  \/ \E w \in Workers, i \in Items : Take(w, i)
  \/ \E w \in Workers : Release(w)
  \/ Close

Spec == Init /\ [][Next]_vars
=============================================================================
