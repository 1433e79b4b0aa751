------------------------- MODULE MetricStoreProofs -------------------------
(***************************************************************************)
(* Proofs about a metric store and its reflector, for every set of         *)
(* objects, every configuration of label keys and any number of changes    *)
(* and of watches that end or fail.                                        *)
(***************************************************************************)
EXTENDS MetricStore, FiniteSetTheorems, SequenceTheorems, TLAPS

\* The i-th event on its way is the last of its object.
Last(i) == \A j \in 1..Len(events) : j > i => events[j].obj # events[i].obj

\* An event after which the store has what the API server has.
Tells(e) ==
  IF world[e.obj] = None THEN e.type = "Deleted" ELSE e.type # "Deleted" /\ e.ver = world[e.obj]

Awaited(o) == \E i \in 1..Len(events) : events[i].obj = o

Live(o) == world[o] # None => metrics[o] # None /\ metrics[o].ver = world[o]

(***************************************************************************)
(* What makes LiveServed inductive: on an open watch the last event of     *)
(* each object tells its present state, and an object with no event on its *)
(* way is already served at its version.                                   *)
(***************************************************************************)
StreamInv ==
  IF phase = "stream"
  THEN /\ \A i \in 1..Len(events) : Last(i) => Tells(events[i])
       /\ \A o \in Objects : Awaited(o) \/ Live(o)
  ELSE events = <<>>

\* What makes MirrorUnbroken inductive: before the first gap nothing is kept of
\* an object that is gone, unless its deletion is on its way.
GoneInv ==
  /\ gaps <= MaxGaps
  /\ gaps = MaxGaps =>
       /\ \A o \in Objects : metrics[o] = None \/ world[o] # None \/ Awaited(o)
       /\ phase # "stream" => \A o \in Objects : metrics[o] = None

\* What makes NeverBack hold: versions do not decrease from the store over the
\* events of an object to the API server.
EventInOrder(i) ==
  /\ metrics[events[i].obj] # None => metrics[events[i].obj].ver <= events[i].ver
  /\ world[events[i].obj] # None => events[i].ver <= world[events[i].obj]
  /\ \A j \in 1..Len(events) :
       i < j /\ events[j].obj = events[i].obj => events[i].ver <= events[j].ver

OrderInv ==
  /\ \A o \in unborn : world[o] = None /\ metrics[o] = None /\ ~Awaited(o)
  /\ \A o \in Objects : world[o] # None /\ metrics[o] # None => metrics[o].ver <= world[o]
  /\ \A i \in 1..Len(events) : EventInOrder(i)

\* Label keys are only added.
KeysInv ==
  /\ Keys(FamilyKeys) \subseteq Keys(famKeys)
  /\ Keys(MetricKeys) \subseteq Keys(metKeys)
  /\ LabelsInherited

\* The inductive invariant.
StoreInv == TypeOK /\ StreamInv /\ GoneInv /\ OrderInv /\ KeysInv

-----------------------------------------------------------------------------
(* Lemmas on the operators of the model.                                   *)

\* An order of a set of objects has each of them, once.
LEMMA OrdersComplete ==
  ASSUME NEW S \in SUBSET Objects, NEW q \in Orders(S)
  PROVE  /\ q \in Seq(S)
         /\ \A i, j \in 1..Len(q) : q[i] = q[j] => i = j
         /\ \A o \in S : \E i \in 1..Len(q) : q[i] = o
  <1> DEFINE n == Cardinality(S)
  <1>1. IsFiniteSet(S) /\ n \in Nat
    BY StoreAssumption, FS_Subset, FS_CardinalityType
  <1>2. q \in [1..n -> S] /\ \A i, j \in 1..n : q[i] = q[j] => i = j
    BY DEF Orders
  <1>3. q \in Seq(S) /\ Len(q) = n
    BY <1>1, <1>2
  <1>4. q \in Injection(1..n, S)
    BY <1>2 DEF Injection, IsInjective
  <1>5. Cardinality(1..n) = n
    BY <1>1, FS_Interval
  <1>6. q \in Surjection(1..n, S)
    BY <1>1, <1>4, <1>5, FS_Injection
  <1> QED
    BY <1>2, <1>3, <1>6 DEF Surjection

\* The keys of two sequences together.
LEMMA KeysConcat ==
  ASSUME NEW S, NEW s \in Seq(S), NEW t \in Seq(S)
  PROVE  Keys(s \o t) = Keys(s) \union Keys(t)
  <1>1. /\ Len(s \o t) = Len(s) + Len(t)
        /\ Len(s) \in Nat /\ Len(t) \in Nat
        /\ \A i \in 1..Len(s) : (s \o t)[i] = s[i]
        /\ \A i \in 1..Len(t) : (s \o t)[Len(s) + i] = t[i]
    OBVIOUS
  <1>2. ASSUME NEW k \in Keys(s \o t) PROVE k \in Keys(s) \union Keys(t)
    <2>1. PICK i \in 1..Len(s \o t) : k = (s \o t)[i]
      BY <1>2 DEF Keys
    <2>2. CASE i \in 1..Len(s)
      BY <1>1, <2>1, <2>2 DEF Keys
    <2>3. CASE i \notin 1..Len(s)
      <3>1. i - Len(s) \in 1..Len(t) /\ i = Len(s) + (i - Len(s))
        BY <1>1, <2>1, <2>3
      <3> QED
        BY <1>1, <2>1, <3>1 DEF Keys
    <2> QED
      BY <2>2, <2>3
  <1>3. ASSUME NEW k \in Keys(s) PROVE k \in Keys(s \o t)
    <2>1. PICK i \in 1..Len(s) : k = s[i]
      BY <1>3 DEF Keys
    <2>2. i \in 1..Len(s \o t) /\ (s \o t)[i] = k
      BY <1>1, <2>1
    <2> QED
      BY <2>2 DEF Keys
  <1>4. ASSUME NEW k \in Keys(t) PROVE k \in Keys(s \o t)
    <2>1. PICK i \in 1..Len(t) : k = t[i]
      BY <1>4 DEF Keys
    <2>2. Len(s) + i \in 1..Len(s \o t) /\ (s \o t)[Len(s) + i] = k
      BY <1>1, <2>1
    <2> QED
      BY <2>2 DEF Keys
  <1> QED
    BY <1>2, <1>3, <1>4

\* The keys of a sequence of keys are keys.
LEMMA KeysType ==
  ASSUME NEW s \in Seq(AllKeys) PROVE Keys(s) \subseteq AllKeys
  BY DEF Keys

\* What Add renders has all the label keys there are.
LEMMA AddedKeys ==
  ASSUME TypeOK, KeysInv, NEW o \in Objects, NEW v \in Nat, StoreAdd(o, v)
  PROVE  /\ famKeys' \in Seq(AllKeys) /\ metKeys' \in Seq(AllKeys)
         /\ metrics' \in [Objects -> Rendered \union {None}]
         /\ metrics'[o] # None /\ metrics'[o].ver = v
         /\ \A x \in Objects \ {o} : metrics'[x] = metrics[x]
         /\ KeysInv'
  <1> DEFINE fk == famKeys \o StoreKeys
             mk == metKeys \o fk
             r == [ver |-> v, keys |-> mk]
  <1>1. famKeys \in Seq(AllKeys) /\ metKeys \in Seq(AllKeys) /\ StoreKeys \in Seq(AllKeys)
    BY StoreAssumption DEF TypeOK
  <1>2. fk \in Seq(AllKeys) /\ Keys(fk) = Keys(famKeys) \union Keys(StoreKeys)
    BY <1>1, KeysConcat
  <1> HIDE DEF fk
  <1>3. mk \in Seq(AllKeys) /\ Keys(mk) = Keys(metKeys) \union Keys(fk)
    BY <1>1, <1>2, KeysConcat
  <1> HIDE DEF mk
  <1>4. famKeys' = fk /\ metKeys' = mk /\ metrics' = [metrics EXCEPT ![o] = r]
    BY DEF StoreAdd, fk, mk
  <1>5. r \in Rendered /\ r # None
    BY <1>3, StoreAssumption DEF Rendered
  <1>6. /\ metrics' \in [Objects -> Rendered \union {None}]
        /\ metrics'[o] = r
        /\ \A x \in Objects \ {o} : metrics'[x] = metrics[x]
    BY <1>4, <1>5 DEF TypeOK
  <1>7. Keys(mk) = AllKeys
    <2>1. Keys(mk) \subseteq AllKeys
      BY <1>3, KeysType
    <2>2. AllKeys \subseteq Keys(mk)
      BY <1>2, <1>3 DEF KeysInv, AllKeys
    <2> QED
      BY <2>1, <2>2
  <1>8. LabelsInherited'
    BY <1>6, <1>7 DEF LabelsInherited, KeysInv
  <1>9. Keys(FamilyKeys) \subseteq Keys(famKeys') /\ Keys(MetricKeys) \subseteq Keys(metKeys')
    BY <1>2, <1>3, <1>4 DEF KeysInv
  <1> QED
    BY <1>2, <1>3, <1>4, <1>5, <1>6, <1>8, <1>9 DEF KeysInv

-----------------------------------------------------------------------------
(* The API server.                                                         *)

\* What a change of object o to version v, reported as type t, does.
Changed(t, o, v) ==
  /\ Report(t, o, v)
  /\ UNCHANGED <<phase, storeVars, gaps>>
  /\ world' \in [Objects -> Nat \union {None}]
  /\ \A x \in Objects \ {o} : world'[x] = world[x]
  /\ IF t = "Deleted" THEN world'[o] = None ELSE world'[o] = v
  /\ unborn' \in SUBSET unborn /\ o \notin unborn'
  /\ metrics[o] # None => metrics[o].ver <= v
  /\ \A i \in 1..Len(events) : events[i].obj = o => events[i].ver <= v
  /\ UNCHANGED tryNoCache /\ changes' \in Nat

\* The open watch has one more event.
LEMMA Reported ==
  ASSUME TypeOK, NEW t \in {"Added", "Modified", "Deleted"}, NEW o \in Objects, NEW v \in Nat,
         Report(t, o, v), phase = "stream"
  PROVE  /\ events' \in Seq(Event)
         /\ Len(events) \in Nat /\ Len(events') = Len(events) + 1
         /\ events'[Len(events) + 1] = [type |-> t, obj |-> o, ver |-> v]
         /\ \A i \in 1..Len(events) : events'[i] = events[i] /\ events[i] \in Event
  <1>1. [type |-> t, obj |-> o, ver |-> v] \in Event
    BY DEF Event
  <1>2. events \in Seq(Event) /\ events' = Append(events, [type |-> t, obj |-> o, ver |-> v])
    BY DEF TypeOK, Report
  <1> QED
    BY <1>1, <1>2

\* An event on its way is of an object and has a version.
LEMMA EventType ==
  ASSUME TypeOK, NEW i \in 1..Len(events)
  PROVE  events[i] \in Event /\ events[i].obj \in Objects /\ events[i].ver \in Nat
  <1>1. events[i] \in Event
    BY DEF TypeOK
  <1> QED
    BY <1>1 DEF Event

\* What is kept of an object has a version.
LEMMA RenderedVersion ==
  ASSUME TypeOK, NEW o \in Objects, metrics[o] # None PROVE metrics[o].ver \in Nat
  BY DEF TypeOK, Rendered

LEMMA ChangedStream ==
  ASSUME StoreInv, NEW t \in {"Added", "Modified", "Deleted"}, NEW o \in Objects, NEW v \in Nat,
         Changed(t, o, v)
  PROVE  StreamInv'
  <1> USE DEF StoreInv
  <1> DEFINE n == Len(events)
  <1>1. CASE phase # "stream"
    BY <1>1 DEF StreamInv, Changed, Report
  <1>2. CASE phase = "stream"
    <2>1. /\ n \in Nat /\ Len(events') = n + 1
          /\ events'[n + 1] = [type |-> t, obj |-> o, ver |-> v]
          /\ \A i \in 1..n : events'[i] = events[i] /\ events[i].obj \in Objects
      BY <1>2, Reported, EventType DEF Changed
    <2>2. ASSUME NEW i \in 1..(n + 1), Last(i)' PROVE Tells(events[i])'
      <3>1. CASE i = n + 1
        <4>1. world'[o] = None <=> t = "Deleted"
          BY ConstantsAssumption DEF Changed
        <4> QED
          BY <2>1, <3>1, <4>1 DEF Tells, Changed
      <3>2. CASE i \in 1..n
        <4>1. events'[i] = events[i] /\ events[i].obj # o
          BY <2>1, <2>2, <3>2 DEF Last
        <4>2. Last(i)
          BY <2>1, <2>2, <3>2 DEF Last
        <4>3. Tells(events[i])
          BY <1>2, <3>2, <4>2 DEF StreamInv
        <4>4. world'[events[i].obj] = world[events[i].obj]
          BY <2>1, <3>2, <4>1 DEF Changed
        <4> QED
          BY <4>1, <4>3, <4>4 DEF Tells
      <3> QED
        BY <2>1, <3>1, <3>2
    <2>3. ASSUME NEW x \in Objects PROVE Awaited(x)' \/ Live(x)'
      <3>1. CASE x = o
        BY <2>1, <3>1 DEF Awaited
      <3>2. CASE x # o
        <4>1. Awaited(x) => Awaited(x)'
          BY <2>1 DEF Awaited
        <4>2. Live(x) => Live(x)'
          BY <3>2 DEF Live, Changed, storeVars
        <4> QED
          BY <1>2, <4>1, <4>2 DEF StreamInv
      <3> QED
        BY <3>1, <3>2
    <2> QED
      BY <1>2, <2>1, <2>2, <2>3 DEF StreamInv, Changed
  <1> QED
    BY <1>1, <1>2

LEMMA ChangedGone ==
  ASSUME StoreInv, NEW t \in {"Added", "Modified", "Deleted"}, NEW o \in Objects, NEW v \in Nat,
         Changed(t, o, v)
  PROVE  GoneInv'
  <1> USE DEF StoreInv
  <1>1. UNCHANGED <<phase, metrics, gaps>>
    BY DEF Changed, storeVars
  <1>2. CASE phase # "stream"
    BY <1>1, <1>2 DEF GoneInv
  <1>3. CASE phase = "stream"
    <2>1. Awaited(o)' /\ \A x \in Objects : Awaited(x) => Awaited(x)'
      <3>1. /\ Len(events) \in Nat /\ Len(events') = Len(events) + 1
            /\ events'[Len(events) + 1] = [type |-> t, obj |-> o, ver |-> v]
            /\ \A i \in 1..Len(events) : events'[i] = events[i]
        BY <1>3, Reported DEF Changed
      <3> QED
        BY <3>1 DEF Awaited
    <2> QED
      BY <1>1, <1>3, <2>1 DEF GoneInv, Changed
  <1> QED
    BY <1>2, <1>3

LEMMA ChangedOrder ==
  ASSUME StoreInv, NEW t \in {"Added", "Modified", "Deleted"}, NEW o \in Objects, NEW v \in Nat,
         Changed(t, o, v)
  PROVE  OrderInv'
  <1> USE DEF StoreInv
  <1> DEFINE n == Len(events)
  <1>0. metrics' = metrics /\ (world'[o] # None => world'[o] = v)
    BY DEF Changed, storeVars
  <1>1. \A x \in Objects : world'[x] # None /\ metrics'[x] # None => metrics'[x].ver <= world'[x]
    BY <1>0 DEF OrderInv, Changed
  <1>2. CASE phase # "stream"
    <2>1. events = <<>> /\ events' = <<>>
      BY <1>2 DEF StreamInv, Changed, Report
    <2>2. \A x \in unborn' : world'[x] = None /\ metrics'[x] = None
      BY <1>0 DEF OrderInv, Changed, TypeOK
    <2>3. Len(events') = 0
      BY <2>1
    <2> QED
      BY <1>1, <2>2, <2>3 DEF OrderInv, Awaited
  <1>3. CASE phase = "stream"
    <2>1. /\ n \in Nat /\ Len(events') = n + 1
          /\ events'[n + 1] = [type |-> t, obj |-> o, ver |-> v]
          /\ \A i \in 1..n : events'[i] = events[i]
      BY <1>3, Reported DEF Changed
    <2>2. \A x \in unborn' : world'[x] = None /\ metrics'[x] = None /\ ~Awaited(x)'
      <3> TAKE x \in unborn'
      <3>1. x \in unborn /\ x # o /\ x \in Objects
        BY DEF Changed, TypeOK
      <3>2. world'[x] = None /\ metrics'[x] = None /\ ~Awaited(x)
        BY <1>0, <3>1 DEF OrderInv, Changed
      <3>3. \A i \in 1..(n + 1) : events'[i].obj # x
        BY <2>1, <3>1, <3>2 DEF Awaited
      <3> QED
        BY <2>1, <3>2, <3>3 DEF Awaited
    <2>3. ASSUME NEW i \in 1..(n + 1) PROVE EventInOrder(i)'
      <3>1. CASE i = n + 1
        <4>1. ~ \E j \in 1..(n + 1) : i < j
          BY <2>1, <3>1
        <4> QED
          BY <1>0, <2>1, <3>1, <4>1 DEF EventInOrder, Changed
      <3>2. CASE i \in 1..n
        <4>1. events'[i] = events[i] /\ events[i].obj \in Objects /\ events[i].ver \in Nat
          BY <2>1, <3>2, EventType
        <4>2. EventInOrder(i)
          BY <3>2 DEF OrderInv
        <4>3. events[i].obj = o => events[i].ver <= v
          BY <3>2 DEF Changed
        <4>4. world'[events[i].obj] # None => events[i].ver <= world'[events[i].obj]
          BY <1>0, <4>1, <4>2, <4>3 DEF EventInOrder, Changed
        <4>5. ASSUME NEW j \in 1..(n + 1), i < j, events'[j].obj = events[i].obj
              PROVE  events[i].ver <= events'[j].ver
          <5>1. CASE j = n + 1
            BY <2>1, <4>3, <4>5, <5>1
          <5>2. CASE j \in 1..n
            BY <2>1, <4>2, <4>5, <5>2 DEF EventInOrder
          <5> QED
            BY <2>1, <5>1, <5>2
        <4> QED
          BY <1>0, <2>1, <4>1, <4>2, <4>4, <4>5 DEF EventInOrder
      <3> QED
        BY <2>1, <3>1, <3>2
    <2> QED
      BY <1>1, <2>1, <2>2, <2>3 DEF OrderInv
  <1> QED
    BY <1>2, <1>3

LEMMA ChangedInv ==
  ASSUME StoreInv, NEW t \in {"Added", "Modified", "Deleted"}, NEW o \in Objects, NEW v \in Nat,
         Changed(t, o, v)
  PROVE  StoreInv'
  <1> USE DEF StoreInv
  <1>1. events' \in Seq(Event)
    BY Reported DEF Changed, Report, TypeOK
  <1>2. TypeOK'
    BY <1>1 DEF TypeOK, Changed, storeVars
  <1>3. KeysInv'
    BY DEF KeysInv, LabelsInherited, Changed, storeVars
  <1> QED
    BY <1>2, <1>3, ChangedStream, ChangedGone, ChangedOrder

\* The API server's changes are such changes.
LEMMA WorldInv ==
  ASSUME StoreInv, NEW o \in Objects, CreateObject(o) \/ ModifyObject(o) \/ DeleteObject(o)
  PROVE  StoreInv'
  <1> USE DEF StoreInv
  <1>1. CASE CreateObject(o)
    <2>1. metrics[o] = None /\ \A i \in 1..Len(events) : events[i].obj # o
      BY <1>1 DEF CreateObject, OrderInv, Awaited
    <2>2. Changed("Added", o, 1)
      BY <1>1, <2>1 DEF CreateObject, Changed, TypeOK
    <2> QED
      BY <2>2, ChangedInv
  <1>2. ASSUME world[o] # None
        PROVE  /\ world[o] \in Nat /\ o \notin unborn
               /\ metrics[o] # None => metrics[o].ver <= world[o] /\ metrics[o].ver \in Nat
               /\ \A i \in 1..Len(events) :
                    events[i].obj = o => events[i].ver <= world[o] /\ events[i].ver \in Nat
    <2>1. world[o] \in Nat /\ o \notin unborn
      BY <1>2 DEF TypeOK, OrderInv
    <2>2. metrics[o] # None => metrics[o].ver <= world[o] /\ metrics[o].ver \in Nat
      BY <1>2, RenderedVersion DEF OrderInv
    <2>3. \A i \in 1..Len(events) :
            events[i].obj = o => events[i].ver <= world[o] /\ events[i].ver \in Nat
      BY <1>2, EventType DEF OrderInv, EventInOrder
    <2> QED
      BY <2>1, <2>2, <2>3
  <1>3. CASE ModifyObject(o)
    <2>1. world[o] + 1 \in Nat
      BY <1>2, <1>3 DEF ModifyObject
    <2>2. Changed("Modified", o, world[o] + 1)
      BY <1>2, <1>3, <2>1 DEF ModifyObject, Changed, TypeOK
    <2> QED
      BY <2>1, <2>2, ChangedInv
  <1>4. CASE DeleteObject(o)
    <2>1. Changed("Deleted", o, world[o])
      BY <1>2, <1>4 DEF DeleteObject, Changed, TypeOK
    <2> QED
      BY <1>2, <1>4, <2>1, ChangedInv DEF DeleteObject
  <1> QED
    BY <1>1, <1>3, <1>4

-----------------------------------------------------------------------------
(* The reflector.                                                          *)

\* A new watch tells of every object there is, at its version.
LEMMA WatchInv ==
  ASSUME StoreInv, Watch PROVE StoreInv'
  <1> USE DEF StoreInv
  <1>1. PICK q \in Orders(Existing) :
          events' = [i \in 1..Len(q) |-> [type |-> "Added", obj |-> q[i], ver |-> world[q[i]]]]
    BY DEF Watch
  <1>2. /\ q \in Seq(Existing)
        /\ \A i, j \in 1..Len(q) : q[i] = q[j] => i = j
        /\ \A o \in Existing : \E i \in 1..Len(q) : q[i] = o
    BY OrdersComplete, SMTT(30) DEF Existing
  <1>3. \A i \in 1..Len(q) : q[i] \in Objects /\ world[q[i]] # None /\ world[q[i]] \in Nat
    <2>1. \A o \in Existing : o \in Objects /\ world[o] # None /\ world[o] \in Nat
      BY DEF Existing, TypeOK
    <2>2. \A i \in 1..Len(q) : q[i] \in Existing
      BY <1>2
    <2> QED
      BY <2>1, <2>2
  <1>4. /\ events' \in Seq(Event) /\ Len(events') = Len(q) /\ Len(q) \in Nat
        /\ \A i \in 1..Len(q) : events'[i] = [type |-> "Added", obj |-> q[i], ver |-> world[q[i]]]
    <2>1. \A i \in 1..Len(q) : [type |-> "Added", obj |-> q[i], ver |-> world[q[i]]] \in Event
      BY <1>3 DEF Event
    <2> QED
      BY <1>1, <1>2, <2>1
  <1>5. /\ phase = "watch" /\ phase' = "stream"
        /\ UNCHANGED <<tryNoCache, world, unborn, changes, metrics, famKeys, metKeys, gaps>>
    BY DEF Watch, worldVars, storeVars
  <1>6. TypeOK'
    BY <1>4, <1>5 DEF TypeOK
  <1>7. KeysInv'
    BY <1>5 DEF KeysInv, LabelsInherited
  <1>12. \A i \in 1..Len(q) :
          events'[i].type = "Added" /\ events'[i].obj = q[i] /\ events'[i].ver = world[q[i]]
    <2> TAKE i \in 1..Len(q)
    <2>1. events'[i] = [type |-> "Added", obj |-> q[i], ver |-> world[q[i]]]
      BY <1>4
    <2> QED
      BY <2>1
  <1>8. ASSUME NEW o \in Objects PROVE Awaited(o)' <=> world[o] # None
    <2>1. Awaited(o)' <=> \E i \in 1..Len(q) : q[i] = o
      BY <1>4, <1>12 DEF Awaited
    <2>2. world[o] # None <=> o \in Existing
      BY DEF Existing
    <2>3. \A i \in 1..Len(q) : q[i] \in Existing
      BY <1>2
    <2> QED
      BY <1>2, <2>1, <2>2, <2>3
  <1>9. StreamInv'
    <2>1. \A i \in 1..Len(events') : Tells(events[i])'
      BY <1>3, <1>4, <1>12, <1>5 DEF Tells
    <2>2. \A o \in Objects : Awaited(o)' \/ Live(o)'
      BY <1>5, <1>8 DEF Live
    <2> QED
      BY <1>5, <2>1, <2>2 DEF StreamInv
  <1>10. GoneInv'
    BY <1>5, <1>8 DEF GoneInv
  <1>11. OrderInv'
    <2>1. \A o \in unborn' : world'[o] = None /\ metrics'[o] = None /\ ~Awaited(o)'
      BY <1>5, <1>8 DEF OrderInv, TypeOK
    <2>2. \A o \in Objects : world'[o] # None /\ metrics'[o] # None => metrics'[o].ver <= world'[o]
      BY <1>5 DEF OrderInv
    <2>3. ASSUME NEW i \in 1..Len(q) PROVE EventInOrder(i)'
      <3>1. events'[i].obj = q[i] /\ events'[i].ver = world[q[i]]
        BY <1>12
      <3>2. \A j \in 1..Len(q) : events'[j].obj = q[i] => j = i
        BY <1>2, <1>12
      <3>3. metrics'[q[i]] # None => metrics'[q[i]].ver <= world[q[i]]
        BY <1>3, <1>5 DEF OrderInv
      <3>4. world'[q[i]] = world[q[i]] /\ world[q[i]] <= world[q[i]]
        BY <1>3, <1>5
      <3> QED
        BY <1>4, <3>1, <3>2, <3>3, <3>4 DEF EventInOrder
    <2> QED
      BY <1>4, <2>1, <2>2, <2>3 DEF OrderInv
  <1> QED
    BY <1>6, <1>7, <1>9, <1>10, <1>11

\* List and the ends of watches: no event is on its way any more.
LEMMA NotStreaming ==
  ASSUME StoreInv, phase' \in {"list", "watch"}, events' = <<>>,
         UNCHANGED <<worldVars, storeVars>>, gaps' \in Nat,
         gaps' <= MaxGaps, gaps' = MaxGaps => gaps = MaxGaps /\ phase # "stream"
  PROVE  StoreInv'
  <1> USE DEF StoreInv
  <1>1. Len(events') = 0
    OBVIOUS
  <1>2. TypeOK'
    BY DEF TypeOK, worldVars, storeVars
  <1>3. StreamInv'
    BY DEF StreamInv
  <1>4. GoneInv'
    BY DEF GoneInv, storeVars
  <1>5. OrderInv'
    BY <1>1 DEF OrderInv, Awaited, worldVars, storeVars
  <1>6. KeysInv'
    BY DEF KeysInv, LabelsInherited, storeVars
  <1> QED
    BY <1>2, <1>3, <1>4, <1>5, <1>6

LEMMA GapsInv ==
  ASSUME StoreInv, List \/ WatchRefused \/ WatchEnds PROVE StoreInv'
  <1> USE DEF StoreInv
  <1>1. gaps \in Nat /\ gaps <= MaxGaps /\ MaxGaps \in Nat
    BY ConstantsAssumption DEF TypeOK, GoneInv
  <1>2. CASE List
    BY <1>1, <1>2, NotStreaming DEF List, StoreReplace, StreamInv
  <1>3. CASE WatchRefused
    <2>1. phase = "watch" /\ events' = <<>> /\ phase' = "list"
      BY <1>3 DEF WatchRefused, StreamInv
    <2>2. gaps' \in Nat /\ gaps' <= gaps
      BY <1>1, <1>3 DEF WatchRefused
    <2> QED
      BY <1>1, <1>3, <2>1, <2>2, NotStreaming DEF WatchRefused
  <1>4. CASE WatchEnds
    <2>1. gaps' \in Nat /\ gaps' < MaxGaps
      BY <1>1, <1>4 DEF WatchEnds
    <2> QED
      BY <1>1, <1>4, <2>1, NotStreaming DEF WatchEnds
  <1> QED
    BY <1>2, <1>3, <1>4

\* The store after an event: the object has the event's version, or is gone.
Handled(e) ==
  /\ metrics' \in [Objects -> Rendered \union {None}]
  /\ famKeys' \in Seq(AllKeys) /\ metKeys' \in Seq(AllKeys)
  /\ \A x \in Objects \ {e.obj} : metrics'[x] = metrics[x]
  /\ IF e.type = "Deleted"
     THEN metrics'[e.obj] = None
     ELSE metrics'[e.obj] # None /\ metrics'[e.obj].ver = e.ver
  /\ KeysInv'

LEMMA HeadHandled ==
  ASSUME StoreInv, HandleWatch
  PROVE  Handled(Head(events)) /\ Head(events) \in Event
  <1> USE DEF StoreInv
  <1> DEFINE e == Head(events)
  <1>1. e \in Event /\ e.obj \in Objects /\ e.ver \in Nat
    <2>1. e \in Event
      BY DEF HandleWatch, TypeOK
    <2> QED
      BY <2>1 DEF Event
  <1> HIDE DEF e
  <1>2. ASSUME e.type # "Deleted", StoreAdd(e.obj, e.ver) PROVE Handled(e)
    BY <1>1, <1>2, AddedKeys DEF Handled
  <1>3. ASSUME e.type = "Deleted", StoreDelete(e.obj) PROVE Handled(e)
    <2>1. /\ metrics' \in [Objects -> Rendered \union {None}]
          /\ metrics'[e.obj] = None
          /\ \A x \in Objects \ {e.obj} : metrics'[x] = metrics[x]
      BY <1>1, <1>3 DEF StoreDelete, TypeOK
    <2>2. UNCHANGED <<famKeys, metKeys>>
      BY <1>3 DEF StoreDelete
    <2>3. KeysInv'
      BY <2>1, <2>2 DEF KeysInv, LabelsInherited
    <2>4. famKeys' \in Seq(AllKeys) /\ metKeys' \in Seq(AllKeys)
      BY <2>2 DEF TypeOK
    <2> QED
      BY <1>3, <2>1, <2>3, <2>4 DEF Handled
  <1>4. (e.type # "Deleted" /\ StoreAdd(e.obj, e.ver)) \/ (e.type = "Deleted" /\ StoreDelete(e.obj))
    BY DEF HandleWatch, StoreUpdate, e
  <1>5. Handled(e)
    BY <1>2, <1>3, <1>4
  <1> QED
    BY <1>1, <1>5 DEF e

\* The events that are left, and the one that is handled.
LEMMA EventsLeft ==
  ASSUME TypeOK, HandleWatch
  PROVE  /\ events' \in Seq(Event)
         /\ Len(events) \in Nat \ {0} /\ Len(events') = Len(events) - 1
         /\ Head(events) = events[1]
         /\ \A i \in 1..Len(events') : i + 1 \in 1..Len(events) /\ events'[i] = events[i + 1]
         /\ \A i \in 1..Len(events) : i = 1 \/ i - 1 \in 1..Len(events')
         /\ UNCHANGED <<tryNoCache, world, unborn, changes, phase, gaps>>
  <1>1. events \in Seq(Event) /\ events # <<>> /\ events' = Tail(events)
    BY DEF TypeOK, HandleWatch
  <1>2. Len(events) \in Nat \ {0} /\ Len(events') = Len(events) - 1 /\ events' \in Seq(Event)
    BY <1>1
  <1>3. \A i \in 1..Len(events') : i + 1 \in 1..Len(events) /\ events'[i] = events[i + 1]
    BY <1>1, <1>2
  <1>4. Head(events) = events[1]
    BY <1>1
  <1>5. \A i \in 1..Len(events) : i = 1 \/ i - 1 \in 1..Len(events')
    BY <1>2
  <1> QED
    BY <1>2, <1>3, <1>4, <1>5 DEF HandleWatch, worldVars

\* Handling the head keeps StreamInv: where it was the last event of its object,
\* the object is now served at its version.
LEMMA HandleStream ==
  ASSUME StoreInv, HandleWatch PROVE StreamInv'
  <1> USE DEF StoreInv
  <1> DEFINE e == events[1]
  <1>1. /\ Len(events) \in Nat \ {0} /\ Len(events') = Len(events) - 1
        /\ \A i \in 1..Len(events') : i + 1 \in 1..Len(events) /\ events'[i] = events[i + 1]
        /\ \A i \in 1..Len(events) : i = 1 \/ i - 1 \in 1..Len(events')
        /\ UNCHANGED <<world, phase>>
    BY EventsLeft
  <1>2. Handled(e) /\ e \in Event /\ e.obj \in Objects
    BY HeadHandled, EventsLeft DEF Event
  <1>3. phase = "stream"
    BY DEF HandleWatch
  <1> HIDE DEF e
  <1>4. ASSUME NEW i \in 1..Len(events'), Last(i)' PROVE Tells(events[i])'
    <2>1. i + 1 \in 1..Len(events) /\ events'[i] = events[i + 1]
      BY <1>1
    <2>2. ASSUME NEW j \in 1..Len(events), j > i + 1 PROVE events[j].obj # events[i + 1].obj
      <3>1. j - 1 \in 1..Len(events') /\ j - 1 > i /\ (j - 1) + 1 = j
        BY <1>1, <2>2
      <3>2. events'[j - 1] = events[j]
        BY <1>1, <3>1
      <3>3. events'[j - 1].obj # events'[i].obj
        BY <1>4, <3>1 DEF Last
      <3> QED
        BY <2>1, <3>2, <3>3
    <2>3. Last(i + 1)
      BY <2>2 DEF Last
    <2>4. Tells(events[i + 1])
      BY <1>3, <2>1, <2>3 DEF StreamInv
    <2> QED
      BY <1>1, <2>1, <2>4 DEF Tells
  <1>5. ASSUME NEW o \in Objects, ~Awaited(o)' PROVE Live(o)'
    <2>1. \A i \in 1..Len(events) : i # 1 => events[i].obj # o
      <3> SUFFICES ASSUME NEW i \in 1..Len(events), i # 1 PROVE events[i].obj # o
        OBVIOUS
      <3>1. i - 1 \in 1..Len(events') /\ (i - 1) + 1 = i
        BY <1>1
      <3>2. events'[i - 1] = events[i]
        BY <1>1, <3>1
      <3>3. events'[i - 1].obj # o
        BY <1>5, <3>1 DEF Awaited
      <3> QED
        BY <3>2, <3>3
    <2>2. CASE e.obj = o
      <3>1. 1 \in 1..Len(events) /\ Last(1)
        BY <1>1, <2>1, <2>2 DEF Last, e
      <3>2. Tells(e)
        BY <1>3, <3>1 DEF StreamInv, e
      <3> QED
        BY <1>1, <1>2, <2>2, <3>2 DEF Tells, Handled, Live
    <2>3. CASE e.obj # o
      <3>1. ~Awaited(o)
        BY <2>1, <2>3 DEF Awaited, e
      <3>2. Live(o)
        BY <1>3, <3>1 DEF StreamInv
      <3> QED
        BY <1>1, <1>2, <2>3, <3>2 DEF Handled, Live
    <2> QED
      BY <2>2, <2>3
  <1> QED
    BY <1>1, <1>3, <1>4, <1>5 DEF StreamInv

LEMMA HandleGone ==
  ASSUME StoreInv, HandleWatch PROVE GoneInv'
  <1> USE DEF StoreInv
  <1> DEFINE e == events[1]
  <1>1. /\ Len(events) \in Nat \ {0} /\ Len(events') = Len(events) - 1
        /\ \A i \in 1..Len(events') : i + 1 \in 1..Len(events) /\ events'[i] = events[i + 1]
        /\ \A i \in 1..Len(events) : i = 1 \/ i - 1 \in 1..Len(events')
        /\ UNCHANGED <<world, phase, gaps>>
    BY EventsLeft
  <1>2. Handled(e) /\ e \in Event /\ e.obj \in Objects
    BY HeadHandled, EventsLeft DEF Event
  <1>3. phase = "stream"
    BY DEF HandleWatch
  <1> HIDE DEF e
  <1>4. ASSUME NEW o \in Objects, gaps = MaxGaps, world[o] = None, ~Awaited(o)'
        PROVE  metrics'[o] = None
    <2>1. \A i \in 1..Len(events) : i # 1 => events[i].obj # o
      <3> SUFFICES ASSUME NEW i \in 1..Len(events), i # 1 PROVE events[i].obj # o
        OBVIOUS
      <3>1. i - 1 \in 1..Len(events') /\ (i - 1) + 1 = i
        BY <1>1
      <3>2. events'[i - 1] = events[i]
        BY <1>1, <3>1
      <3>3. events'[i - 1].obj # o
        BY <1>4, <3>1 DEF Awaited
      <3> QED
        BY <3>2, <3>3
    <2>2. CASE e.obj = o
      <3>1. 1 \in 1..Len(events) /\ Last(1)
        BY <1>1, <2>1, <2>2 DEF Last, e
      <3>2. Tells(e)
        BY <1>3, <3>1 DEF StreamInv, e
      <3> QED
        BY <1>2, <1>4, <2>2, <3>2 DEF Tells, Handled
    <2>3. CASE e.obj # o
      <3>1. ~Awaited(o)
        BY <2>1, <2>3 DEF Awaited, e
      <3> QED
        BY <1>2, <1>4, <2>3, <3>1 DEF Handled, GoneInv
    <2> QED
      BY <2>2, <2>3
  <1> QED
    BY <1>1, <1>3, <1>4 DEF GoneInv

\* The store takes over the version of the head, which is not above the versions
\* of the events behind it.
LEMMA HandleOrder ==
  ASSUME StoreInv, HandleWatch PROVE OrderInv'
  <1> USE DEF StoreInv
  <1> DEFINE e == events[1]
  <1>1. /\ Len(events) \in Nat \ {0} /\ Len(events') = Len(events) - 1
        /\ \A i \in 1..Len(events') : i + 1 \in 1..Len(events) /\ events'[i] = events[i + 1]
        /\ UNCHANGED <<world, unborn>>
    BY EventsLeft
  <1>2. Handled(e) /\ e \in Event /\ e.obj \in Objects
    BY HeadHandled, EventsLeft DEF Event
  <1>3. EventInOrder(1) /\ 1 \in 1..Len(events)
    BY <1>1 DEF OrderInv
  <1>4. \A x \in Objects \ {e.obj} : metrics'[x] = metrics[x]
    BY <1>2 DEF Handled
  <1>5. metrics'[e.obj] # None => metrics'[e.obj].ver = e.ver
    BY <1>2 DEF Handled
  <1>6. \A o \in Objects : Awaited(o)' => Awaited(o)
    BY <1>1 DEF Awaited
  <1>7. ASSUME NEW o \in unborn' PROVE world'[o] = None /\ metrics'[o] = None /\ ~Awaited(o)'
    <2>1. o \in unborn /\ o \in Objects
      BY <1>1 DEF TypeOK
    <2>2. world[o] = None /\ metrics[o] = None /\ ~Awaited(o)
      BY <2>1 DEF OrderInv
    <2>3. o # e.obj
      BY <1>3, <2>2 DEF Awaited
    <2> QED
      BY <1>1, <1>4, <1>6, <2>1, <2>2, <2>3
  <1>8. ASSUME NEW o \in Objects, world'[o] # None, metrics'[o] # None
        PROVE  metrics'[o].ver <= world'[o]
    <2>1. CASE o = e.obj
      <3>1. e.ver <= world[e.obj]
        BY <1>1, <1>3, <1>8, <2>1 DEF EventInOrder
      <3> QED
        BY <1>1, <1>5, <1>8, <2>1, <3>1
    <2>2. CASE o # e.obj
      BY <1>1, <1>4, <1>8, <2>2 DEF OrderInv
    <2> QED
      BY <2>1, <2>2
  <1>9. ASSUME NEW i \in 1..Len(events') PROVE EventInOrder(i)'
    <2>1. i + 1 \in 1..Len(events) /\ events'[i] = events[i + 1] /\ i + 1 > 1
      BY <1>1
    <2>2. EventInOrder(i + 1) /\ events[i + 1].obj \in Objects
      BY <2>1, EventType DEF OrderInv
    <2>3. metrics'[events'[i].obj] # None => metrics'[events'[i].obj].ver <= events'[i].ver
      <3>1. CASE events[i + 1].obj = e.obj
        <4>1. e.ver <= events[i + 1].ver
          BY <1>3, <2>1, <3>1 DEF EventInOrder
        <4> QED
          BY <1>5, <2>1, <3>1, <4>1
      <3>2. CASE events[i + 1].obj # e.obj
        <4>1. metrics'[events[i + 1].obj] = metrics[events[i + 1].obj]
          BY <1>4, <2>2, <3>2
        <4> QED
          BY <2>1, <2>2, <4>1 DEF EventInOrder
      <3> QED
        BY <3>1, <3>2
    <2>4. world'[events'[i].obj] # None => events'[i].ver <= world'[events'[i].obj]
      BY <1>1, <2>1, <2>2 DEF EventInOrder
    <2>5. ASSUME NEW j \in 1..Len(events'), i < j, events'[j].obj = events'[i].obj
          PROVE  events'[i].ver <= events'[j].ver
      <3>1. j + 1 \in 1..Len(events) /\ events'[j] = events[j + 1] /\ i + 1 < j + 1
        BY <1>1, <2>5
      <3> QED
        BY <2>1, <2>2, <2>5, <3>1 DEF EventInOrder
    <2> QED
      BY <2>3, <2>4, <2>5 DEF EventInOrder
  <1> QED
    BY <1>7, <1>8, <1>9 DEF OrderInv

LEMMA HandleInv ==
  ASSUME StoreInv, HandleWatch PROVE StoreInv'
  <1>1. Handled(Head(events))
    BY HeadHandled
  <1>2. events' \in Seq(Event) /\ UNCHANGED <<tryNoCache, world, unborn, changes, phase, gaps>>
    BY EventsLeft DEF StoreInv
  <1>3. TypeOK'
    BY <1>1, <1>2 DEF StoreInv, TypeOK, Handled
  <1> QED
    BY <1>1, <1>3, HandleStream, HandleGone, HandleOrder DEF StoreInv, Handled

-----------------------------------------------------------------------------
(* The theorems.                                                           *)

LEMMA StoreInit == Init => StoreInv
  <1> SUFFICES ASSUME Init PROVE StoreInv
    OBVIOUS
  <1>1. Len(events) = 0
    BY DEF Init
  <1>2. TypeOK
    BY ConstantsAssumption, StoreAssumption DEF Init, TypeOK
  <1>3. StreamInv
    BY DEF Init, StreamInv
  <1>4. GoneInv
    BY ConstantsAssumption DEF Init, GoneInv
  <1>5. OrderInv
    BY <1>1 DEF Init, OrderInv, Awaited
  <1>6. KeysInv
    BY DEF Init, KeysInv, LabelsInherited
  <1> QED
    BY <1>2, <1>3, <1>4, <1>5, <1>6 DEF StoreInv

LEMMA StoreStep == StoreInv /\ [Next]_vars => StoreInv'
  <1> SUFFICES ASSUME StoreInv, [Next]_vars PROVE StoreInv'
    OBVIOUS
  <1>1. CASE UNCHANGED vars
    BY <1>1 DEF vars, StoreInv, TypeOK, StreamInv, Last, Tells, Awaited, Live, GoneInv,
                OrderInv, EventInOrder, KeysInv, LabelsInherited
  <1>2. CASE Next
    BY <1>2, WorldInv, WatchInv, GapsInv, HandleInv DEF Next
  <1> QED
    BY <1>1, <1>2

\* The inductive invariant holds of every state of the store and its reflector.
THEOREM StoreInvariant == Spec => []StoreInv
  BY StoreInit, StoreStep, PTL DEF Spec

\* Type correctness of the store, the reflector and the API server's objects.
THEOREM StoreTypeCorrect == Spec => []TypeOK
  <1>1. StoreInv => TypeOK
    BY DEF StoreInv
  <1> QED
    BY <1>1, StoreInvariant, PTL

\* A reflector that has caught up serves every object there is at its latest
\* version, although Replace ignores every list (internal/store.go).
THEOREM StoreLiveServed == Spec => []LiveServed
  <1>1. StoreInv => LiveServed
    <2> SUFFICES ASSUME StoreInv, InSync, NEW o \in Existing
                 PROVE  metrics[o] # None /\ metrics[o].ver = world[o]
      BY DEF LiveServed
    <2>1. Len(events) = 0 /\ o \in Objects /\ world[o] # None /\ phase = "stream"
      BY DEF InSync, Existing
    <2>2. ~Awaited(o)
      BY <2>1 DEF Awaited
    <2> QED
      BY <2>1, <2>2 DEF StoreInv, StreamInv, Live
  <1> QED
    BY <1>1, StoreInvariant, PTL

\* Until a watch ends or is refused, the caught-up store holds the metrics of
\* exactly the objects that exist.
THEOREM StoreMirrorUnbroken == Spec => []MirrorUnbroken
  <1>1. StoreInv => MirrorUnbroken
    <2> SUFFICES ASSUME StoreInv, gaps = MaxGaps, InSync, NEW o \in Objects
                 PROVE  metrics[o] # None <=> world[o] # None
      BY DEF MirrorUnbroken, Mirror, Existing
    <2>1. Len(events) = 0 /\ phase = "stream"
      BY DEF InSync
    <2>2. ~Awaited(o)
      BY <2>1 DEF Awaited
    <2> QED
      BY <2>1, <2>2 DEF StoreInv, StreamInv, Live, GoneInv
  <1> QED
    BY <1>1, StoreInvariant, PTL

\* What is rendered of an object carries every label key that is configured for
\* the store, the family and the metric (Add and rawFrom).
THEOREM StoreLabelsInherited == Spec => []LabelsInherited
  <1>1. StoreInv => LabelsInherited
    BY DEF StoreInv, KeysInv
  <1> QED
    BY <1>1, StoreInvariant, PTL

\* No Add or Update takes what is served of an object back to an older version,
\* whatever watches ended in between.
THEOREM StoreNeverBack == Spec => NeverBack
  <1> DEFINE Forward ==
        \A o \in Objects :
          metrics[o] # None /\ metrics'[o] # None => metrics'[o].ver >= metrics[o].ver
  <1>1. StoreInv /\ [Next]_vars => [Forward]_metrics
    <2> SUFFICES ASSUME StoreInv, [Next]_vars, metrics' # metrics PROVE Forward
      OBVIOUS
    <2>1. HandleWatch
      BY DEF vars, Next, CreateObject, ModifyObject, DeleteObject, List, StoreReplace, Watch,
             WatchRefused, WatchEnds, storeVars
    <2>2. Handled(events[1]) /\ 1 \in 1..Len(events) /\ TypeOK
      BY <2>1, HeadHandled, EventsLeft DEF StoreInv
    <2>3. EventInOrder(1)
      BY <2>2 DEF StoreInv, OrderInv
    <2> SUFFICES ASSUME NEW o \in Objects, metrics[o] # None, metrics'[o] # None
                 PROVE  metrics'[o].ver >= metrics[o].ver
      OBVIOUS
    <2>4. metrics[o].ver \in Nat
      BY <2>2, RenderedVersion
    <2>5. CASE o = events[1].obj
      <3>1. metrics'[o].ver = events[1].ver
        BY <2>2, <2>5 DEF Handled
      <3>2. metrics[o].ver <= events[1].ver /\ events[1].ver \in Nat
        BY <2>2, <2>3, <2>5, EventType DEF EventInOrder
      <3> QED
        BY <2>4, <3>1, <3>2
    <2>6. CASE o # events[1].obj
      BY <2>2, <2>4, <2>6 DEF Handled
    <2> QED
      BY <2>5, <2>6
  <1> QED
    BY <1>1, StoreInvariant, PTL DEF Spec, NeverBack
=============================================================================
