---------------------------- MODULE MCController ----------------------------
(***************************************************************************)
(* Instances of Controller for TLC.  c1 and c2 are configurations with one *)
(* and two stores, bad does not parse, empty is the empty string.          *)
(***************************************************************************)
EXTENDS Controller, TLC

CONSTANTS c1, c2, bad, empty

MCItems == Names \X {"addEvent", "updateEvent", "deleteEvent"}
MCStoreCount == [c \in Configs |-> CASE c = c1 -> 1 [] c = c2 -> 2 [] OTHER -> 0]

\* At most e edits, t touches, d deletions, f failing calls, k crashes, r relists.
Limits(e, t, d, f, k, r) ==
  [x \in Disturbances |->
     CASE x = "edit" -> e [] x = "touch" -> t [] x = "delete" -> d
       [] x = "fault" -> f [] x = "crash" -> k [] x = "relist" -> r]

OneEdit         == Limits(1, 0, 0, 0, 0, 0)
EditsCrashGap   == Limits(2, 0, 0, 0, 1, 1)
OneDelete       == Limits(0, 0, 1, 0, 0, 0)
OneFault        == Limits(0, 0, 0, 1, 0, 0)
Everything      == Limits(1, 1, 1, 1, 1, 1)

\* Bound: one resource and every disturbance once, or several resources and
\* disturbances of one kind.
FewDisturbances ==
  \/ \A u, v \in UIDs : specs[u] # <<>> /\ specs[v] # <<>> => u = v
  \/ \A d, e \in Disturbances :
       budget[d] < Budget[d] /\ budget[e] < Budget[e] => d = e

\* The workers run the same code; names and UIDs are only compared.
Symmetry ==
  Permutations(Workers) \union Permutations(Names) \union Permutations(UIDs)
=============================================================================
