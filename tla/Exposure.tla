------------------------------ MODULE Exposure ------------------------------
(***************************************************************************)
(* What the controller promises of the stores it exposes, with no queue,   *)
(* workers, informer or API calls: the stores of a resource are those of   *)
(* one build of one of its configurations, added one by one and only when  *)
(* they are fed; they make room all at once; and builds never go back to   *)
(* an older configuration, not even after the stores were dropped.         *)
(***************************************************************************)
EXTENDS Naturals, Sequences

CONSTANTS
  UIDs,     \* resources
  Configs,  \* configurations
  Count     \* Count[c]: the number of stores a build of c makes

VARIABLES
  specs,    \* specs[u]: the configurations of u, by generation
  stores,   \* stores[u]: the stores that are exposed for u
  fed       \* the stores of which a reflector runs

vars == <<specs, stores, fed>>

Init ==
  /\ specs = [u \in UIDs |-> <<>>]
  /\ stores = [u \in UIDs |-> <<>>]
  /\ fed = {}

\* A resource gets its first or another configuration.
Change(u, c) ==
  /\ specs' = [specs EXCEPT ![u] = Append(@, c)]
  /\ UNCHANGED <<stores, fed>>

\* All stores of a resource are dropped; their reflectors go on.
Drop(u) ==
  /\ stores' = [stores EXCEPT ![u] = <<>>]
  /\ UNCHANGED <<specs, fed>>

\* No build of u has begun from a later generation than g.
Newest(u, g) == \A r \in fed : r[1] = u => r[2].gen <= g

\* The i-th store of a build of generation g gets its reflector.
Feed(u, g, i) ==
  /\ Newest(u, g)
  /\ i = 1 \/ <<u, [gen |-> g, idx |-> i - 1]>> \in fed
  /\ fed' = fed \union {<<u, [gen |-> g, idx |-> i]>>}
  /\ UNCHANGED <<specs, stores>>

\* The next store of the newest build of u is exposed.
Expose(u, g) ==
  LET next == [gen |-> g, idx |-> Len(stores[u]) + 1] IN
  /\ Newest(u, g)
  /\ <<u, next>> \in fed
  /\ \A i \in 1..Len(stores[u]) : stores[u][i].gen = g
  /\ stores' = [stores EXCEPT ![u] = Append(@, next)]
  /\ UNCHANGED <<specs, fed>>

\* The process ends and starts again.
Restart ==
  /\ stores' = [u \in UIDs |-> <<>>]
  /\ fed' = {}
  /\ UNCHANGED specs

Next ==
  \/ \E u \in UIDs :
       \/ \E c \in Configs : Change(u, c)
       \/ Drop(u)
       \/ \E g \in 1..Len(specs[u]) :
            Expose(u, g) \/ \E i \in 1..Count[specs[u][g]] : Feed(u, g, i)
  \/ Restart

Spec == Init /\ [][Next]_vars
=============================================================================
