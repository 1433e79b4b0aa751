----------------------------- MODULE MetricStore -----------------------------
(***************************************************************************)
(* One metric store (StoreType) and the reflector that feeds it with the   *)
(* custom resources of one kind.  The reflector lists, watches, and calls  *)
(* the store once per watch event; the store's ListFunc and WatchFunc      *)
(* ignore the options of the reflector, so every watch starts with an      *)
(* ADDED event for every object there is, whatever was seen before.        *)
(*                                                                         *)
(* One family with one metric stands for all: every family of the store    *)
(* and every metric of a family is treated alike by Add and rawFrom.       *)
(***************************************************************************)
EXTENDS Naturals, Sequences, FiniteSets

CONSTANTS
  Objects,     \* UIDs of the custom resources that match the store's selectors
  None,        \* no object, or no metrics of an object
  StoreKeys,   \* labelKeys of the store, the family and the metric, as configured
  FamilyKeys,
  MetricKeys,
  MaxChanges,  \* bound: creations and modifications of objects
  MaxGaps      \* bound: watches that end or fail now and then

VARIABLES
  tryNoCache, \* the option of that name
  world,     \* world[o]: the version of o at the API server, or None
  unborn,    \* UIDs not yet given to an object
  phase,     \* where ListAndWatch is: "list", "watch" (to be opened), "stream"
  events,    \* events of the open watch that the reflector has not handled
  metrics,   \* metrics[o]: what was rendered of o, or None
  famKeys,   \* LabelKeys of the family, appended to by every Add
  metKeys,   \* LabelKeys of the metric, appended to by every rawFrom
  changes,   \* changes left
  gaps       \* watch ends left

vars == <<tryNoCache, world, unborn, phase, events, metrics, famKeys, metKeys, changes, gaps>>
storeVars == <<metrics, famKeys, metKeys>>
worldVars == <<tryNoCache, world, unborn, changes>>

ASSUME ConstantsAssumption ==
  /\ None \notin Nat
  /\ MaxChanges \in Nat /\ MaxGaps \in Nat

Keys(s) == {s[i] : i \in 1..Len(s)}
AllKeys == Keys(StoreKeys) \union Keys(FamilyKeys) \union Keys(MetricKeys)
Event == [type : {"Added", "Modified", "Deleted"}, obj : Objects, ver : Nat]
Rendered == [ver : Nat, keys : Seq(AllKeys)]

ASSUME StoreAssumption ==
  /\ IsFiniteSet(Objects)
  /\ None \notin Rendered
  /\ StoreKeys \in Seq(AllKeys) /\ FamilyKeys \in Seq(AllKeys) /\ MetricKeys \in Seq(AllKeys)

TypeOK ==
  /\ tryNoCache \in BOOLEAN
  /\ world \in [Objects -> Nat \union {None}]
  /\ unborn \in SUBSET Objects
  /\ phase \in {"list", "watch", "stream"}
  /\ events \in Seq(Event)
  /\ metrics \in [Objects -> Rendered \union {None}]
  /\ famKeys \in Seq(AllKeys) /\ metKeys \in Seq(AllKeys)
  /\ changes \in Nat /\ gaps \in Nat

\* newStore and newReflector: an empty store, the configured label keys.
Init ==
  /\ tryNoCache \in BOOLEAN
  /\ world = [o \in Objects |-> None]
  /\ unborn = Objects
  /\ phase = "list"
  /\ events = <<>>
  /\ metrics = [o \in Objects |-> None]
  /\ famKeys = FamilyKeys
  /\ metKeys = MetricKeys
  /\ changes = MaxChanges
  /\ gaps = MaxGaps

Existing == {o \in Objects : world[o] # None}

-----------------------------------------------------------------------------
(* The API server (external).                                              *)

\* An open watch reports the change.
Report(type, o, v) ==
  events' = IF phase = "stream"
            THEN Append(events, [type |-> type, obj |-> o, ver |-> v])
            ELSE events

CreateObject(o) ==
  /\ o \in unborn
  /\ changes > 0
  /\ world' = [world EXCEPT ![o] = 1]
  /\ unborn' = unborn \ {o}
  /\ changes' = changes - 1
  /\ Report("Added", o, 1)
  /\ UNCHANGED <<tryNoCache, phase, storeVars, gaps>>

ModifyObject(o) ==
  /\ world[o] # None
  /\ changes > 0
  /\ world' = [world EXCEPT ![o] = @ + 1]
  /\ changes' = changes - 1
  /\ Report("Modified", o, world[o] + 1)
  /\ UNCHANGED <<tryNoCache, unborn, phase, storeVars, gaps>>

DeleteObject(o) ==
  /\ world[o] # None
  /\ world' = [world EXCEPT ![o] = None]
  /\ Report("Deleted", o, world[o])
  /\ UNCHANGED <<tryNoCache, unborn, changes, phase, storeVars, gaps>>

-----------------------------------------------------------------------------
(* The store's operations.                                                 *)

\* Mutant of StoreAdd: the metric inherits before the family does.
StoreAddLate(o, v) ==
  LET mk == metKeys \o famKeys
  IN /\ famKeys' = famKeys \o StoreKeys
     /\ metKeys' = mk
     /\ metrics' = [metrics EXCEPT ![o] = [ver |-> v, keys |-> mk]]

(***************************************************************************)
(* Add: the family takes the store's label keys, and rawFrom lets the      *)
(* metric take the family's; both append to what is kept, on every call.   *)
(* The object's metrics replace the ones rendered of it before.            *)
(***************************************************************************)
StoreAdd(o, v) ==
  LET fk == famKeys \o StoreKeys
      mk == metKeys \o fk
  IN /\ famKeys' = fk
     /\ metKeys' = mk
     /\ metrics' = [metrics EXCEPT ![o] = [ver |-> v, keys |-> mk]]

StoreUpdate(o, v) == StoreAdd(o, v)

\* Mutant of StoreDelete: the metrics stay.
StoreDeleteNothing(o) == UNCHANGED storeVars

\* Mutant of StoreDelete: the entry is emptied, not removed.
StoreDeleteEmpties(o) ==
  /\ metrics' = [metrics EXCEPT ![o] = <<>>]
  /\ UNCHANGED <<famKeys, metKeys>>

StoreDelete(o) ==
  /\ metrics' = [metrics EXCEPT ![o] = None]
  /\ UNCHANGED <<famKeys, metKeys>>

\* Replace ignores the list.
StoreReplace == UNCHANGED storeVars

-----------------------------------------------------------------------------
(* The reflector.                                                          *)

\* ListAndWatch lists (a failed list is tried again) and hands the list over.
List ==
  /\ phase = "list"
  /\ StoreReplace
  /\ phase' = "watch"
  /\ UNCHANGED <<worldVars, events, gaps>>

\* The sequences that contain every element of S once.
Orders(S) ==
  {q \in [1..Cardinality(S) -> S] : \A i, j \in 1..Cardinality(S) : q[i] = q[j] => i = j}

\* With try-no-cache the options of the watch have a resourceVersionMatch and no
\* sendInitialEvents, which the API server's validation forbids.
WatchAllowed == ~tryNoCache

\* Mutant of Watch: WatchFunc passes the reflector's resource version on.
WatchFromListed ==
  /\ phase = "watch"
  /\ WatchAllowed
  /\ phase' = "stream"
  /\ UNCHANGED <<events, worldVars, storeVars, gaps>>

\* Mutant of Watch: it starts from a cached state of any age.
WatchFromCache ==
  /\ phase = "watch"
  /\ WatchAllowed
  /\ phase' = "stream"
  /\ \E q \in Orders(Existing) :
       events' = [i \in 1..Len(q) |-> [type |-> "Added", obj |-> q[i], ver |-> 1]]
  /\ UNCHANGED <<worldVars, storeVars, gaps>>

\* WatchFunc drops the reflector's resource version: the API server starts at
\* the current state and reports it as ADDED events.
Watch ==
  /\ phase = "watch"
  /\ WatchAllowed
  /\ phase' = "stream"
  /\ \E q \in Orders(Existing) :
       events' = [i \in 1..Len(q) |-> [type |-> "Added", obj |-> q[i], ver |-> world[q[i]]]]
  /\ UNCHANGED <<worldVars, storeVars, gaps>>

\* The call of WatchFunc fails: ListAndWatch returns and runs again.
WatchRefused ==
  /\ phase = "watch"
  /\ \/ WatchAllowed /\ gaps > 0 /\ gaps' = gaps - 1
     \/ ~WatchAllowed /\ UNCHANGED gaps
  /\ phase' = "list"
  /\ UNCHANGED <<worldVars, events, storeVars>>

\* handleAnyWatch on the next event.
HandleWatch ==
  /\ phase = "stream"
  /\ events # <<>>
  /\ LET e == Head(events) IN
       \/ e.type = "Added" /\ StoreAdd(e.obj, e.ver)
       \/ e.type = "Modified" /\ StoreUpdate(e.obj, e.ver)
       \/ e.type = "Deleted" /\ StoreDelete(e.obj)
  /\ events' = Tail(events)
  /\ UNCHANGED <<worldVars, phase, gaps>>

\* Mutant of WatchEnds: the end of the watch goes unnoticed.
WatchEndsUnnoticed ==
  /\ phase = "stream"
  /\ gaps > 0
  /\ gaps' = gaps - 1
  /\ events' = <<>>
  /\ UNCHANGED <<worldVars, storeVars, phase>>

\* The watch ends, with the events that were on their way: it is opened again
\* (a timeout), or ListAndWatch returns and runs again (an error, or a watch
\* that was very short).
WatchEnds ==
  /\ phase = "stream"
  /\ gaps > 0
  /\ gaps' = gaps - 1
  /\ phase' \in {"watch", "list"}
  /\ events' = <<>>
  /\ UNCHANGED <<worldVars, storeVars>>

Next ==
  \/ \E o \in Objects : CreateObject(o)
  \/ \E o \in Objects : ModifyObject(o)
  \/ \E o \in Objects : DeleteObject(o)
  \/ List \/ Watch \/ WatchRefused \/ HandleWatch \/ WatchEnds

Spec == Init /\ [][Next]_vars

\* The reflector's goroutine runs, and its calls end with an answer.
Fairness == WF_vars(List) /\ WF_vars(Watch \/ WatchRefused) /\ WF_vars(HandleWatch)

FairSpec == Spec /\ Fairness

-----------------------------------------------------------------------------
(* Properties.                                                             *)

InSync == phase = "stream" /\ events = <<>>

(***************************************************************************)
(* Whatever happened to the watches before, a reflector that has caught up *)
(* with its watch serves every object there is, at its latest version:     *)
(* skipping the list in Replace loses nothing that exists.                 *)
(***************************************************************************)
LiveServed ==
  InSync => \A o \in Existing : metrics[o] # None /\ metrics[o].ver = world[o]

(***************************************************************************)
(* The store mirrors the cluster: caught up, it also serves nothing that   *)
(* does not exist ("Replace will delete the contents of the store, using   *)
(* instead the given list", internal/store.go).                            *)
(***************************************************************************)
Mirror == InSync => {o \in Objects : metrics[o] # None} = Existing

\* As long as no watch was refused or ended, the store is that mirror: it
\* follows every creation, modification and deletion (Add, Update, Delete).
MirrorUnbroken == gaps = MaxGaps => Mirror

\* What is served of an object never goes back to an older version, across
\* the ends of watches and the events they lose.
NeverBack ==
  [][\A o \in Objects :
       metrics[o] # None /\ metrics'[o] # None => metrics'[o].ver >= metrics[o].ver]_metrics

\* Once the objects stop changing, each is and stays served at its version, if
\* the API server allows the watch at all.
Settles ==
  WatchAllowed => <>[](\A o \in Existing : metrics[o] # None /\ metrics[o].ver = world[o])

(***************************************************************************)
(* Inheritance is complete: what is rendered carries every label key of    *)
(* the store, the family and the metric, from the first Add on (Add lets   *)
(* the family inherit before rawFrom lets the metric inherit).             *)
(***************************************************************************)
LabelsInherited ==
  \A o \in Objects : metrics[o] # None => Keys(metrics[o].keys) = AllKeys

(***************************************************************************)
(* writeAllTo "guarantees an exposition format that is safe to be ingested *)
(* by Prometheus" (internal/writer.go): no label name occurs twice in what *)
(* is rendered of an object when the configuration names none twice.       *)
(***************************************************************************)
LabelsOnce ==
  \A o \in Objects : metrics[o] # None =>
    \A i, j \in 1..Len(metrics[o].keys) :
      metrics[o].keys[i] = metrics[o].keys[j] => i = j
=============================================================================
