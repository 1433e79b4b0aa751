---------------------------- MODULE UpdateProofs ----------------------------
(***************************************************************************)
(* No edit is lost with one worker: for every set of resources and         *)
(* configurations and any number of edits, broken watches and restarts, as *)
(* long as nobody deletes a resource, writes to it beside the controller,  *)
(* makes a call fail or empties a configuration.  And a Failed condition   *)
(* has its reason, with any number of workers and all but deletions.       *)
(***************************************************************************)
EXTENDS ServedProofs

\* The disturbances that lose updates do not happen.
OnlyEdits == \A d \in {"touch", "delete", "fault"} : Budget[d] = 0

\* The versions that n had.
VersionsOf(n) == [uid : {obj[n].uid}, gen : 1..Generation(obj[n].uid)]

\* The i-th delta of the stream will find version v of n in the informer's cache.
Held(n, i, v) ==
  \/ \E j \in 1..i - 1 :
       stream[j].name = n /\ stream[j].ver = v /\ \A h \in j + 1..i - 1 : stream[h].name # n
  \/ cache[n] = v /\ \A h \in 1..i - 1 : stream[h].name # n

\* After all deltas of the stream the informer will have version v of n.
Latest(n, v) == Held(n, Len(stream) + 1, v)

\* UpdateFunc tells version x from version v.
Follows(v, x) == v = x \/ Configuration(v) # Configuration(x)

\* What the informer has of n, or is about to be handed: versions that n had,
\* the last of which is the one it has now.
Informed(n) ==
  /\ \A i \in 1..Len(stream) :
       stream[i].name = n => stream[i].type = "Changed" /\ stream[i].ver \in VersionsOf(n)
  /\ cache[n] = Nothing => About(n)
  /\ cache[n] # Nothing => cache[n] \in VersionsOf(n)
  /\ \A v \in Version : Latest(n, v) => v = Current(n)

\* Every change on its way will be noticed.
Noticed(n) ==
  \A i \in 1..Len(stream) : stream[i].name = n =>
    \A v \in Version : Held(n, i, v) => Follows(v, stream[i].ver)

Undeleted(n) ==
  <<n, "deleteEvent">> \notin dirty /\ \A w \in Workers : holding[w] # <<n, "deleteEvent">>

\* An edit changes the configuration.
Edited(n) ==
  \A g \in 1..Generation(obj[n].uid) - 1 : specs[obj[n].uid][g] # specs[obj[n].uid][g + 1]

\* A worker in the handler of n will come to, or is at, the version n has now.
Ahead(w, n) ==
  /\ pc[w] \in {"metaUpdate", "recvUpdate"} => fresh[w]
  /\ pc[w] \notin {"metaGet", "metaUpdate", "recvGet", "recvUpdate"} => Progress(w, n)

\* The version n has now will be handled, is being handled, or is served.
Attended(n) ==
  \/ Marked(n)
  \/ /\ \A w \in Workers : Handles(w, n) => Ahead(w, n)
     /\ (\A w \in Workers : ~Handles(w, n)) => Reconciled(n) /\ OutcomeTold(n)

EditName(n) ==
  IF obj[n] = Absent
  THEN cache[n] = Nothing /\ ~About(n) /\ ~Marked(n) /\ \A w \in Workers : ~Handles(w, n)
  ELSE /\ Informed(n) /\ Undeleted(n) /\ Edited(n)
       /\ ~Coalesced(n) => Noticed(n) /\ (cache[n] = Current(n) => Attended(n))

BudgetInv ==
  /\ \A d \in {"touch", "delete", "fault"} : budget[d] = 0
  /\ budget["relist"] <= Budget["relist"]

EditInv == BudgetInv /\ \A n \in Names : EditName(n)

-----------------------------------------------------------------------------
(* The stream of deltas.                                                   *)

\* The deltas about n in the new stream: old ones that find what they would have
\* found, and the present version of n at the end.
SameDeltas(n) ==
  /\ \A i \in 1..Len(stream') : stream'[i].name = n =>
       \/ \E j \in 1..Len(stream) :
            stream'[i] = stream[j] /\ \A v \in Version : Held(n, i, v)' => Held(n, j, v)
       \/ /\ obj[n] # Absent /\ stream'[i] = [type |-> "Changed", name |-> n, ver |-> Current(n)]
          /\ \A v \in Version : Held(n, i, v)' => Latest(n, v)
  /\ \A v \in Version : Latest(n, v)' =>
       Latest(n, v) \/ (obj[n] # Absent /\ v = Current(n))

\* A delta that is added does not change what those before it find.
LEMMA HeldGrows ==
  ASSUME stream \in Seq(Delta), NEW d, stream' = Append(stream, d),
         NEW n \in Names, cache'[n] = cache[n], NEW v
  PROVE  /\ \A i \in 1..Len(stream) + 1 : Held(n, i, v)' => Held(n, i, v)
         /\ Latest(n, v)' =>
              IF d.name = n THEN v = d.ver ELSE Latest(n, v)
  <1>1. /\ Len(stream') = Len(stream) + 1 /\ Len(stream) \in Nat
        /\ \A i \in 1..Len(stream) : stream'[i] = stream[i]
        /\ stream'[Len(stream) + 1] = d
    OBVIOUS
  <1>2. ASSUME NEW i \in 1..Len(stream) + 1, Held(n, i, v)' PROVE Held(n, i, v)
    <2>1. \A h \in 1..i - 1 : stream'[h] = stream[h]
      BY <1>1
    <2>2. \A j \in 1..i - 1 : \A h \in j + 1..i - 1 : h \in 1..i - 1
      BY <1>1
    <2> QED
      BY <1>2, <2>1, <2>2 DEF Held
  <1>3. ASSUME Latest(n, v)', d.name = n PROVE v = d.ver
    <2> DEFINE e == Len(stream) + 1
    <2>1. e \in 1..(Len(stream') + 1) - 1 /\ stream'[e].name = n /\ stream'[e].ver = d.ver
      BY <1>1, <1>3
    <2>2. PICK j \in 1..(Len(stream') + 1) - 1 :
            stream'[j].ver = v /\ \A h \in j + 1..(Len(stream') + 1) - 1 : stream'[h].name # n
      BY <1>3, <2>1 DEF Held, Latest
    <2>3. e \notin j + 1..(Len(stream') + 1) - 1
      BY <2>1, <2>2
    <2>4. j = e
      BY <1>1, <2>3
    <2> QED
      BY <2>1, <2>2, <2>4
  <1>4. ASSUME Latest(n, v)', d.name # n PROVE Latest(n, v)
    <2>1. CASE cache'[n] = v /\ \A h \in 1..(Len(stream') + 1) - 1 : stream'[h].name # n
      <3>1. \A h \in 1..(Len(stream) + 1) - 1 : stream[h].name # n
        BY <1>1, <2>1
      <3> QED
        BY <2>1, <3>1 DEF Held, Latest
    <2>2. ASSUME NEW j \in 1..(Len(stream') + 1) - 1, stream'[j].name = n, stream'[j].ver = v,
                 \A h \in j + 1..(Len(stream') + 1) - 1 : stream'[h].name # n
          PROVE  Latest(n, v)
      <3>1. j \in 1..(Len(stream) + 1) - 1
        BY <1>1, <1>4, <2>2
      <3>2. stream[j].name = n /\ stream[j].ver = v
        BY <1>1, <2>2, <3>1
      <3>3. \A h \in j + 1..(Len(stream) + 1) - 1 : stream[h].name # n
        BY <1>1, <2>2, <3>1
      <3> QED
        BY <3>1, <3>2, <3>3 DEF Held, Latest
    <2> QED
      BY <1>4, <2>1, <2>2 DEF Held, Latest
  <1> QED
    BY <1>2, <1>3, <1>4

\* The stream stays, or grows by a delta of another resource or by a present one.
LEMMA DeltasGrow ==
  ASSUME stream \in Seq(Delta), NEW n \in Names, cache'[n] = cache[n],
         \/ stream' = stream
         \/ \E d : /\ stream' = Append(stream, d)
                   /\ \/ d.name # n
                      \/ obj[n] # Absent /\ d = [type |-> "Changed", name |-> n, ver |-> Current(n)]
  PROVE  SameDeltas(n)
  <1>1. CASE stream' = stream
    <2>1. \A i, v : Held(n, i, v)' => Held(n, i, v)
      BY <1>1 DEF Held
    <2>2. \A v : Latest(n, v)' => Latest(n, v)
      BY <1>1 DEF Held, Latest
    <2> QED
      BY <1>1, <2>1, <2>2 DEF SameDeltas
  <1>2. ASSUME NEW d, stream' = Append(stream, d),
               \/ d.name # n
               \/ obj[n] # Absent /\ d = [type |-> "Changed", name |-> n, ver |-> Current(n)]
        PROVE  SameDeltas(n)
    <2>1. /\ Len(stream') = Len(stream) + 1 /\ Len(stream) \in Nat
          /\ \A i \in 1..Len(stream) : stream'[i] = stream[i]
          /\ stream'[Len(stream) + 1] = d
      BY <1>2
    <2>2. \A i \in 1..Len(stream') : i \in 1..Len(stream) \/ i = Len(stream) + 1
      BY <2>1
    <2>3. \A v : /\ \A i \in 1..Len(stream) + 1 : Held(n, i, v)' => Held(n, i, v)
                 /\ Latest(n, v)' =>
                      IF d.name = n THEN v = d.ver ELSE Latest(n, v)
      BY <1>2, HeldGrows
    <2>4. d.name = n => obj[n] # Absent /\ d = [type |-> "Changed", name |-> n, ver |-> Current(n)]
                        /\ d.ver = Current(n)
      BY <1>2
    <2>5. \A v : Latest(n, v)' =>
            Latest(n, v) \/ (obj[n] # Absent /\ v = Current(n))
      BY <2>3, <2>4
    <2>6. ASSUME NEW i \in 1..Len(stream'), stream'[i].name = n
          PROVE \/ \E j \in 1..Len(stream) :
                     stream'[i] = stream[j] /\ \A v \in Version : Held(n, i, v)' => Held(n, j, v)
                \/ /\ obj[n] # Absent /\ stream'[i] = [type |-> "Changed", name |-> n, ver |-> Current(n)]
                   /\ \A v \in Version : Held(n, i, v)' => Latest(n, v)
      <3>1. i \in 1..Len(stream) + 1
        BY <2>1
      <3>2. CASE i \in 1..Len(stream)
        BY <2>1, <2>3, <3>1, <3>2
      <3>3. CASE i = Len(stream) + 1
        BY <2>1, <2>3, <2>4, <2>6, <3>1, <3>3 DEF Latest
      <3> QED
        BY <2>2, <3>2, <3>3
    <2> QED
      BY <2>5, <2>6 DEF SameDeltas
  <1> QED
    BY <1>1, <1>2

\* The first delta is handed over: the others find what they would have found.
LEMMA DeltasShrink ==
  ASSUME stream \in Seq(Delta), stream # <<>>, stream' = Tail(stream), NEW n \in Names,
         IF Head(stream).name = n THEN cache'[n] = Head(stream).ver ELSE cache'[n] = cache[n]
  PROVE  SameDeltas(n)
  <1>1. /\ Len(stream') = Len(stream) - 1 /\ Len(stream) \in Nat /\ Len(stream) >= 1
        /\ \A i \in 1..Len(stream') : stream'[i] = stream[i + 1]
        /\ Head(stream) = stream[1]
    BY HeadTailProperties
  <1>2. ASSUME NEW v, NEW i \in 1..Len(stream') + 1, Held(n, i, v)'
        PROVE  Held(n, i + 1, v)
    <2>1. i \in Nat /\ i >= 1 /\ (i + 1) - 1 = i
      BY <1>1
    <2>2. \A h \in 1..i - 1 : stream'[h] = stream[h + 1]
      BY <1>1, <2>1
    <2>3. ASSUME NEW j \in 1..i - 1, stream'[j].name = n, stream'[j].ver = v,
                 \A h \in j + 1..i - 1 : stream'[h].name # n
          PROVE  Held(n, i + 1, v)
      <3>1. j + 1 \in 1..(i + 1) - 1 /\ stream[j + 1].name = n /\ stream[j + 1].ver = v
        BY <2>1, <2>2, <2>3
      <3>2. ASSUME NEW h \in (j + 1) + 1..(i + 1) - 1 PROVE stream[h].name # n
        <4>1. h - 1 \in j + 1..i - 1 /\ h - 1 \in 1..i - 1 /\ (h - 1) + 1 = h
          BY <2>1
        <4> QED
          BY <2>2, <2>3, <4>1
      <3> QED
        BY <3>1, <3>2 DEF Held
    <2>4. ASSUME cache'[n] = v, \A h \in 1..i - 1 : stream'[h].name # n
          PROVE  Held(n, i + 1, v)
      <3>1. ASSUME NEW h \in 2..(i + 1) - 1 PROVE stream[h].name # n
        <4>1. h - 1 \in 1..i - 1 /\ (h - 1) + 1 = h
          BY <2>1
        <4> QED
          BY <2>2, <2>4, <4>1
      <3>2. CASE Head(stream).name = n
        <4>1. 1 \in 1..(i + 1) - 1 /\ stream[1].name = n /\ stream[1].ver = v
          BY <1>1, <2>1, <2>4, <3>2
        <4>2. \A h \in 1 + 1..(i + 1) - 1 : stream[h].name # n
          BY <3>1
        <4> QED
          BY <4>1, <4>2 DEF Held
      <3>3. CASE Head(stream).name # n
        <4>1. \A h \in 1..(i + 1) - 1 : h = 1 \/ h \in 2..(i + 1) - 1
          BY <2>1
        <4>2. \A h \in 1..(i + 1) - 1 : stream[h].name # n
          BY <1>1, <3>1, <3>3, <4>1
        <4> QED
          BY <2>4, <3>3, <4>2 DEF Held
      <3> QED
        BY <3>2, <3>3
    <2> QED
      BY <1>2, <2>3, <2>4 DEF Held
  <1>3. ASSUME NEW i \in 1..Len(stream')
        PROVE  \E j \in 1..Len(stream) :
                 stream'[i] = stream[j] /\ \A v \in Version : Held(n, i, v)' => Held(n, j, v)
    <2>1. i + 1 \in 1..Len(stream) /\ stream'[i] = stream[i + 1] /\ i \in 1..Len(stream') + 1
      BY <1>1
    <2> QED
      BY <1>2, <2>1
  <1>4. ASSUME NEW v \in Version, Latest(n, v)' PROVE Latest(n, v)
    <2> DEFINE e == Len(stream') + 1
    <2>1. e \in 1..Len(stream') + 1 /\ e + 1 = Len(stream) + 1
      BY <1>1
    <2>2. PICK x : x = e
      OBVIOUS
    <2>3. Held(n, x, v)'
      BY <1>4, <2>2 DEF Latest, Held
    <2>4. Held(n, x + 1, v)
      BY <1>2, <2>1, <2>2, <2>3
    <2> QED
      BY <2>1, <2>2, <2>4 DEF Latest
  <1> QED
    BY <1>3, <1>4 DEF SameDeltas

\* What the informer will find is a version that n had.
LEMMA HeldVersion ==
  ASSUME stream \in Seq(Delta), NEW n \in Names, Informed(n), NEW v \in Version,
         NEW i \in 1..Len(stream) + 1, Held(n, i, v)
  PROVE  v \in VersionsOf(n)
  <1>1. CASE cache[n] = v
    BY <1>1, SentinelAssumption DEF Informed
  <1>2. CASE \E j \in 1..i - 1 : stream[j].name = n /\ stream[j].ver = v
    <2>1. PICK j \in 1..i - 1 : stream[j].name = n /\ stream[j].ver = v
      BY <1>2
    <2>2. j \in 1..Len(stream)
      OBVIOUS
    <2> QED
      BY <2>1, <2>2 DEF Informed
  <1> QED
    BY <1>1, <1>2 DEF Held

\* The version n has now is one of those it had.
LEMMA CurrentVersion ==
  ASSUME IInv, OwnerInv, NEW n \in Names, obj[n] # Absent
  PROVE  /\ Current(n) \in VersionsOf(n) /\ VersionsOf(n) \subseteq Version
         /\ Generation(obj[n].uid) \in Nat /\ Generation(obj[n].uid) >= 1
  <1>1. obj[n].uid \in UIDs
    BY CurrentType DEF IInv
  <1>2. Generation(obj[n].uid) \in Nat /\ Generation(obj[n].uid) >= 1
    BY <1>1 DEF Generation, IInv, TypeOK, OwnerInv
  <1> QED
    BY <1>1, <1>2 DEF Current, VersionsOf, Version

\* A resource that keeps its configurations keeps its versions.
LEMMA VersionsKept ==
  ASSUME NEW n \in Names, obj'[n].uid = obj[n].uid, specs'[obj[n].uid] = specs[obj[n].uid]
  PROVE  /\ VersionsOf(n)' = VersionsOf(n) /\ Current(n)' = Current(n)
         /\ Edited(n)' <=> Edited(n)
         /\ \A v, x \in VersionsOf(n) : Follows(v, x) => Follows(v, x)'
  <1>1. Generation(obj[n].uid)' = Generation(obj[n].uid)
    BY DEF Generation
  <1>2. \A v \in VersionsOf(n) : v.uid = obj[n].uid
    BY DEF VersionsOf
  <1>3. \A v \in VersionsOf(n) : Configuration(v)' = Configuration(v)
    BY <1>2 DEF Configuration
  <1>4. VersionsOf(n)' = VersionsOf(n) /\ Current(n)' = Current(n)
    BY <1>1 DEF VersionsOf, Current
  <1>5. Edited(n)' <=> Edited(n)
    BY <1>1 DEF Edited
  <1> QED
    BY <1>3, <1>4, <1>5 DEF Follows

\* What was a version stays one, and changes are still noticed.
LEMMA InformedKept ==
  ASSUME IInv, OwnerInv, NEW n \in Names, obj[n] # Absent, Informed(n), SameDeltas(n),
         obj'[n].uid = obj[n].uid, specs'[obj[n].uid] = specs[obj[n].uid],
         cache'[n] = Nothing => About(n)',
         cache'[n] # Nothing => cache'[n] \in VersionsOf(n)
  PROVE  Informed(n)' /\ (Noticed(n) => Noticed(n)')
  <1>1. /\ VersionsOf(n)' = VersionsOf(n) /\ Current(n)' = Current(n)
        /\ \A v, x \in VersionsOf(n) : Follows(v, x) => Follows(v, x)'
    BY VersionsKept
  <1>2. Current(n) \in VersionsOf(n)
    BY CurrentVersion
  <1>3. stream \in Seq(Delta) /\ Len(stream) \in Nat
    BY DEF IInv, TypeOK
  <1>4. ASSUME NEW i \in 1..Len(stream'), stream'[i].name = n
        PROVE  /\ stream'[i].type = "Changed" /\ stream'[i].ver \in VersionsOf(n)
               /\ Noticed(n) => \A v \in Version : \A x :
                    Held(n, i, v)' /\ x = stream'[i].ver => Follows(v, x)'
    <2>1. CASE /\ stream'[i] = [type |-> "Changed", name |-> n, ver |-> Current(n)]
               /\ \A v \in Version : Held(n, i, v)' => Latest(n, v)
      <3>1. \A v \in Version : Held(n, i, v)' => v = Current(n)
        BY <2>1 DEF Informed
      <3>2. \A v, x : v = x => Follows(v, x)'
        BY DEF Follows
      <3> QED
        BY <1>2, <2>1, <3>1, <3>2
    <2>2. ASSUME NEW j \in 1..Len(stream), stream'[i] = stream[j],
                 \A v \in Version : Held(n, i, v)' => Held(n, j, v)
          PROVE  /\ stream'[i].type = "Changed" /\ stream'[i].ver \in VersionsOf(n)
                 /\ Noticed(n) => \A v \in Version : \A x :
                      Held(n, i, v)' /\ x = stream'[i].ver => Follows(v, x)'
      <3>1. stream[j].name = n /\ stream[j].type = "Changed" /\ stream[j].ver \in VersionsOf(n)
        BY <1>4, <2>2 DEF Informed
      <3>2. ASSUME Noticed(n), NEW v \in Version, Held(n, i, v)', NEW x, x = stream'[i].ver
            PROVE  Follows(v, x)'
        <4>1. Held(n, j, v) /\ j \in 1..Len(stream) + 1
          BY <1>3, <2>2, <3>2
        <4>2. v \in VersionsOf(n)
          BY <1>3, <4>1, HeldVersion
        <4>3. x = stream[j].ver /\ x \in VersionsOf(n)
          BY <2>2, <3>1, <3>2
        <4>4. Follows(v, x)
          BY <3>1, <3>2, <4>1, <4>3 DEF Noticed
        <4> QED
          BY <1>1, <4>2, <4>3, <4>4
      <3> QED
        BY <2>2, <3>1, <3>2
    <2> QED
      BY <1>4, <2>1, <2>2 DEF SameDeltas
  <1>5. \A v \in Version : Latest(n, v)' => v = Current(n)
    BY DEF SameDeltas, Informed
  <1>6. Informed(n)'
    BY <1>1, <1>4, <1>5 DEF Informed
  <1>7. ASSUME Noticed(n) PROVE Noticed(n)'
    <2> SUFFICES ASSUME NEW i \in 1..Len(stream'), stream'[i].name = n,
                        NEW v \in Version, Held(n, i, v)'
                 PROVE  Follows(v, stream[i].ver)'
      BY DEF Noticed
    <2>1. PICK x : x = stream'[i].ver
      OBVIOUS
    <2>2. Follows(v, x)'
      BY <1>4, <1>7, <2>1
    <2> QED
      BY <2>1, <2>2 DEF Follows, Configuration
  <1> QED
    BY <1>6, <1>7

\* Edits that may have coalesced stay so.
LEMMA CoalescedStays ==
  ASSUME IInv, NEW n \in Names, obj[n] # Absent, obj'[n].uid = obj[n].uid, Extended,
         budget' \in [Disturbances -> Nat], budget'["relist"] <= budget["relist"]
  PROVE  Coalesced(n) => Coalesced(n)'
  <1> DEFINE u == obj[n].uid
  <1>1. u \in UIDs
    BY CurrentType DEF IInv
  <1>2. /\ Len(specs[u]) \in Nat /\ Len(specs'[u]) \in Nat /\ Len(specs[u]) <= Len(specs'[u])
        /\ \A i \in 1..Len(specs[u]) : specs'[u][i] = specs[u][i]
    BY <1>1 DEF Extended, IInv, TypeOK
  <1>3. \A i \in 1..Len(specs[u]) : i \in 1..Len(specs'[u])
    BY <1>2
  <1>4. budget["relist"] < Budget["relist"] => budget'["relist"] < Budget["relist"]
    <2>1. "relist" \in Disturbances
      BY DEF Disturbances
    <2>2. budget["relist"] \in Nat /\ budget'["relist"] \in Nat
      BY <2>1 DEF IInv, TypeOK
    <2>3. Budget["relist"] \in Nat
      BY <2>1, BoundAssumption
    <2> HIDE DEF u
    <2> QED
      BY <2>2, <2>3
  <1> QED
    BY <1>2, <1>3, <1>4 DEF Coalesced, Generation

\* Nothing happens to a resource that is attended to.
LEMMA AttendedSame ==
  ASSUME NEW n \in Names, obj[n] # Absent, Attended(n), SameResource(n), SameHandlers(n),
         \A e \in Events : <<n, e>> \in dirty => <<n, e>> \in dirty'
  PROVE  Attended(n)'
  <1>1. CASE Marked(n)
    BY <1>1 DEF Marked, Attended
  <1>2. CASE /\ \A w \in Workers : Handles(w, n) => Ahead(w, n)
             /\ (\A w \in Workers : ~Handles(w, n)) => Reconciled(n) /\ OutcomeTold(n)
    <2>1. \A w \in Workers : Handles(w, n)' <=> Handles(w, n)
      BY DEF SameHandlers
    <2>2. ASSUME NEW w \in Workers, Handles(w, n) PROVE Ahead(w, n)'
      <3>1. Ahead(w, n) /\ pc'[w] = pc[w] /\ (fresh'[w] <=> fresh[w])
        BY <1>2, <2>2 DEF SameHandlers
      <3>2. Progress(w, n) => Progress(w, n)'
        BY <2>2, SameProgress
      <3> QED
        BY <3>1, <3>2, Zenon DEF Ahead
    <2>3. Reconciled(n) /\ OutcomeTold(n) => Reconciled(n)' /\ OutcomeTold(n)'
      BY SameState
    <2> QED
      BY <1>2, <2>1, <2>2, <2>3 DEF Attended
  <1> QED
    BY <1>1, <1>2 DEF Attended

\* A step that keeps the versions of n and what the informer has of them.
LEMMA EditKept ==
  ASSUME IInv, OwnerInv, NEW n \in Names, obj[n] # Absent, EditName(n), Extended, SameDeltas(n),
         obj'[n] # Absent, obj'[n].uid = obj[n].uid, specs'[obj[n].uid] = specs[obj[n].uid],
         cache'[n] = cache[n], cache[n] = Nothing /\ About(n) => About(n)',
         budget' \in [Disturbances -> Nat], budget'["relist"] <= budget["relist"],
         Undeleted(n)',
         cache[n] = Current(n) /\ Attended(n) => Attended(n)'
  PROVE  EditName(n)'
  <1>1. /\ Informed(n) /\ Edited(n)
        /\ ~Coalesced(n) => Noticed(n) /\ (cache[n] = Current(n) => Attended(n))
    BY DEF EditName
  <1>2. Current(n)' = Current(n) /\ (Edited(n)' <=> Edited(n))
    BY VersionsKept
  <1>3. Informed(n)' /\ (Noticed(n) => Noticed(n)')
    BY <1>1, InformedKept DEF Informed
  <1>4. Coalesced(n) => Coalesced(n)'
    BY CoalescedStays
  <1> QED
    BY <1>1, <1>2, <1>3, <1>4 DEF EditName

\* A resource that a step leaves alone.
LEMMA EditSame ==
  ASSUME IInv, OwnerInv, NEW n \in Names, EditName(n), Extended, SameDeltas(n), Same(n),
         budget' \in [Disturbances -> Nat], budget'["relist"] <= budget["relist"]
  PROVE  EditName(n)'
  <1>1. /\ obj'[n] = obj[n] /\ cache'[n] = cache[n]
        /\ \A e \in Events : <<n, e>> \in dirty' <=> <<n, e>> \in dirty
        /\ \A w \in Workers : Handles(w, n)' <=> Handles(w, n)
        /\ cache[n] = Nothing /\ About(n) => About(n)'
    BY DEF Same, SameResource, SameInformer, SameHandlers
  <1>2. CASE obj[n] = Absent
    <2>1. cache[n] = Nothing /\ ~About(n) /\ ~Marked(n) /\ \A w \in Workers : ~Handles(w, n)
      BY <1>2 DEF EditName
    <2>2. ~About(n)'
      BY <1>2, <2>1 DEF About, SameDeltas
    <2>3. ~Marked(n)'
      BY <1>1, <2>1 DEF Marked
    <2> QED
      BY <1>1, <1>2, <2>1, <2>2, <2>3 DEF EditName
  <1>3. CASE obj[n] # Absent
    <2>1. specs'[obj[n].uid] = specs[obj[n].uid] /\ SameResource(n) /\ SameHandlers(n)
      BY <1>3 DEF Same, SameResource
    <2>2. Undeleted(n)'
      <3>1. Undeleted(n)
        BY <1>3 DEF EditName
      <3>2. \A w \in Workers : holding'[w] # <<n, "deleteEvent">>
        <4> SUFFICES ASSUME NEW w \in Workers, holding'[w] = <<n, "deleteEvent">> PROVE FALSE
          OBVIOUS
        <4>1. <<n, "deleteEvent">> \in Items
          BY EnqueuedItem DEF Events
        <4>2. Handles(w, n)'
          BY <4>1, NoItemAssumption DEF Handles
        <4>3. holding[w] = holding'[w]
          BY <1>1, <4>2 DEF Same, SameHandlers
        <4> QED
          BY <3>1, <4>3 DEF Undeleted
      <3> QED
        BY <1>1, <3>1, <3>2 DEF Undeleted, Events
    <2>3. Attended(n) => Attended(n)'
      BY <1>1, <1>3, <2>1, AttendedSame
    <2> QED
      BY <1>1, <1>3, <2>1, <2>2, <2>3, EditKept
  <1> QED
    BY <1>2, <1>3
-----------------------------------------------------------------------------
(* The steps of the API server's users.                                    *)

\* Only these budgets shrink, and none grows.
LEMMA BudgetNext ==
  ASSUME IInv, BudgetInv, [Next]_vars
  PROVE  /\ BudgetInv' /\ budget' \in [Disturbances -> Nat]
         /\ budget'["relist"] <= budget["relist"]
         /\ \A d \in {"touch", "delete", "fault"} : ~Spend(d)
  <1>1. \A d \in {"touch", "delete", "fault"} : ~Spend(d)
    BY DEF Spend, BudgetInv
  <1>2. budget' = budget \/ \E d \in {"edit", "crash", "relist"} : Spend(d)
    <2>1. CASE \E w \in Workers : Step(w)
      BY <1>1, <2>1, ZenonT(30)
         DEF Step, TakeItem, MetaGet, MetaUpdate, ReceivedGet, ReceivedUpdate, DropStores,
             BuildStore, AppendStore, DoneGet, DoneUpdate, FailGet, FailUpdate, FinalUpdate,
             FinishItem, GetResource, CallFails, AnswerLost
    <2>2. CASE \E n \in Names : Touch(n) \/ Delete(n)
      BY <1>1, <2>2 DEF Touch, Delete
    <2>3. CASE \/ \E n \in Names, u \in UIDs, c \in Configs : Create(n, u, c)
               \/ \E n \in Names, c \in Configs : EditSpec(n, c)
               \/ Deliver
               \/ \E k \in 0..Len(stream) : Relist(k)
               \/ Restart
               \/ UNCHANGED vars
      BY <2>3 DEF Create, EditSpec, Deliver, Relist, Restart, vars, ctlVars
    <2> QED
      BY <2>1, <2>2, <2>3 DEF Next
  <1>3. budget \in [Disturbances -> Nat]
    BY DEF IInv, TypeOK
  <1>4. ASSUME NEW d \in {"edit", "crash", "relist"}, Spend(d)
        PROVE  /\ budget' \in [Disturbances -> Nat]
               /\ \A x \in {"touch", "delete", "fault"} : budget'[x] = budget[x]
               /\ budget'["relist"] <= budget["relist"]
    BY <1>3, <1>4 DEF Spend, Disturbances
  <1>5. budget["relist"] \in Nat /\ Budget["relist"] \in Nat
    BY <1>3, BoundAssumption DEF Disturbances
  <1>6. /\ budget' \in [Disturbances -> Nat]
        /\ \A x \in {"touch", "delete", "fault"} : budget'[x] = budget[x]
        /\ budget'["relist"] <= budget["relist"]
    BY <1>2, <1>3, <1>4, <1>5
  <1>7. BudgetInv'
    <2>1. budget'["relist"] \in Nat
      BY <1>6 DEF Disturbances
    <2> QED
      BY <1>5, <1>6, <2>1 DEF BudgetInv
  <1> QED
    BY <1>1, <1>6, <1>7

\* A resource is created: its first version is on its way.
LEMMA CreateEdit ==
  ASSUME IInv, OwnerInv, EditInv, budget' = budget,
         NEW n \in Names, NEW u \in UIDs, NEW c \in Configs, Create(n, u, c)
  PROVE  \A m \in Names : EditName(m)'
  <1>1. specs[u] = <<>> /\ obj[n] = Absent /\ budget \in [Disturbances -> Nat]
    BY DEF Create, IInv, TypeOK
  <1>2. \A m \in Names : obj[m] # Absent => obj[m].uid # u
    BY <1>1, FreshUID
  <1>3. /\ specs'[u] = <<c>>
        /\ \A x \in UIDs \ {u} : specs'[x] = specs[x]
        /\ obj'[n].uid = u /\ obj'[n] # Absent
        /\ \A m \in Names \ {n} : obj'[m] = obj[m]
        /\ UNCHANGED <<wqVars, workerVars, sharedVars, cache>>
    <2>1. [uid |-> u, labelled |-> FALSE, conds |-> [t \in Types |-> Nothing]] \in Object
      BY DEF Object
    <2> QED
      BY <2>1, SentinelAssumption DEF Create, IInv, TypeOK
  <1> DEFINE d == [type |-> "Changed", name |-> n, ver |-> [uid |-> u, gen |-> 1]]
  <1>4. stream' = Append(stream, d) /\ stream \in Seq(Delta)
    BY DEF Create, Emit, IInv, TypeOK
  <1>5. d.name = n /\ d.type = "Changed" /\ d.ver = [uid |-> u, gen |-> 1]
    OBVIOUS
  <1>6. Extended
    BY FirstConfiguration, ExtendedBy
  <1> HIDE DEF d
  <1>7. ASSUME NEW m \in Names, m # n PROVE EditName(m)'
    <2>1. SameResource(m)
      BY <1>2, <1>3, <1>7, CurrentType DEF SameResource, sharedVars, IInv
    <2>2. Same(m)
      BY <1>3, <1>7, <2>1, UserWrite DEF Create
    <2>3. SameDeltas(m)
      BY <1>3, <1>4, <1>5, <1>7, DeltasGrow
    <2> QED
      BY <1>1, <1>6, <2>2, <2>3, EditSame DEF EditInv, IInv, TypeOK, Disturbances
  <1>8. EditName(n)'
    <2>1. cache[n] = Nothing /\ ~About(n) /\ ~Marked(n) /\ \A w \in Workers : ~Handles(w, n)
      BY <1>1 DEF EditInv, EditName
    <2>2. Generation(obj[n].uid)' = 1 /\ Current(n)' = [uid |-> u, gen |-> 1]
      <3>1. Len(specs'[u]) = 1 /\ obj'[n].uid = u
        BY <1>3
      <3> QED
        BY <3>1, Zenon DEF Current, Generation
    <2>3. Current(n)' \in VersionsOf(n)'
      BY <1>3, <2>2 DEF VersionsOf
    <2>4. /\ Len(stream') = Len(stream) + 1 /\ Len(stream) \in Nat
          /\ \A i \in 1..Len(stream) : stream'[i] = stream[i]
          /\ stream'[Len(stream) + 1] = d
      BY <1>4
    <2>5. \A i \in 1..Len(stream') : stream'[i].name = n => i = Len(stream) + 1 /\ stream'[i] = d
      BY <2>1, <2>4 DEF About
    <2>6. About(n)'
      <3>1. Len(stream) + 1 \in 1..Len(stream') /\ stream'[Len(stream) + 1].name = n
        BY <1>5, <2>4
      <3> QED
        BY <3>1 DEF About
    <2>7. \A v \in Version : Latest(n, v)' => v = Current(n)'
      BY <1>3, <1>4, <1>5, <2>2, HeldGrows
    <2>8. Informed(n)'
      <3>1. \A i \in 1..Len(stream') :
              stream'[i].name = n => stream'[i].type = "Changed" /\ stream'[i].ver \in VersionsOf(n)'
        BY <1>5, <2>2, <2>3, <2>5
      <3> QED
        BY <1>3, <2>1, <2>6, <2>7, <3>1 DEF Informed
    <2>9. ASSUME NEW i \in 1..Len(stream'), stream'[i].name = n, NEW v \in Version
          PROVE  ~Held(n, i, v)'
      <3>1. i \in 1..Len(stream) + 1
        BY <2>4
      <3>2. Held(n, i, v)' => Held(n, i, v)
        BY <1>3, <1>4, <3>1, HeldGrows
      <3>3. ~Held(n, i, v)
        BY <2>1, <2>4, <3>1, SentinelAssumption DEF Held, About
      <3> QED
        BY <3>2, <3>3
    <2>10. Noticed(n)'
      BY <2>9 DEF Noticed
    <2>11. Edited(n)'
      BY <2>2 DEF Edited
    <2>12. Undeleted(n)'
      BY <1>3, <2>1, EnqueuedItem, NoItemAssumption DEF Undeleted, Marked, Handles, Events, wqVars
    <2>13. cache'[n] # Current(n)'
      BY <1>3, <2>1, <2>2, SentinelAssumption DEF Version
    <2> QED
      BY <1>3, <2>8, <2>10, <2>11, <2>12, <2>13 DEF EditName
  <1> QED
    BY <1>7, <1>8

\* An edit: the new version is on its way and differs from the last one.
LEMMA EditEdit ==
  ASSUME IInv, OwnerInv, EditInv, budget' \in [Disturbances -> Nat],
         budget'["relist"] <= budget["relist"],
         NEW n \in Names, NEW c \in Configs, EditSpec(n, c)
  PROVE  \A m \in Names : EditName(m)'
  <1> DEFINE u == obj[n].uid
             g == Generation(u)
             d == [type |-> "Changed", name |-> n, ver |-> [uid |-> u, gen |-> g + 1]]
  <1>1. obj[n] # Absent /\ u \in UIDs
    BY CurrentType DEF EditSpec, IInv
  <1>2. Extended
    BY <1>1, ExtendedBy DEF EditSpec
  <1>3. obj' = obj /\ UNCHANGED <<wqVars, cache, workerVars, sharedVars>>
    BY DEF EditSpec
  <1>4. stream' = Append(stream, d) /\ stream \in Seq(Delta)
    BY DEF EditSpec, Emit, IInv, TypeOK
  <1>5. d.name = n /\ d.type = "Changed" /\ d.ver = [uid |-> u, gen |-> g + 1]
    OBVIOUS
  <1> HIDE DEF d
  <1>6. ASSUME NEW m \in Names, m # n PROVE EditName(m)'
    <2>1. obj[m] # Absent => obj[m].uid # u /\ obj[m].uid \in UIDs
      BY <1>1, <1>6, CurrentType DEF OwnerInv, IInv
    <2>2. SameResource(m)
      BY <1>1, <1>3, <2>1 DEF SameResource, EditSpec, IInv, TypeOK, sharedVars
    <2>3. Same(m)
      BY <1>3, <1>6, <2>2, UserWrite DEF EditSpec
    <2>4. SameDeltas(m)
      BY <1>3, <1>4, <1>5, <1>6, DeltasGrow
    <2> QED
      BY <1>2, <2>3, <2>4, EditSame DEF EditInv
  <1>7. EditName(n)'
    <2>1. /\ Informed(n) /\ Undeleted(n) /\ Edited(n)
          /\ ~Coalesced(n) => Noticed(n)
      BY <1>1 DEF EditInv, EditName
    <2>2. g \in Nat /\ g >= 1 /\ Current(n) \in VersionsOf(n) /\ Current(n) = [uid |-> u, gen |-> g]
      BY <1>1, CurrentVersion DEF Current
    <2>3. specs[u] \in Seq(Configs) /\ Len(specs[u]) = g /\ specs'[u] = Append(specs[u], c)
      BY <1>1 DEF EditSpec, IInv, TypeOK, Generation
    <2>4. /\ Len(specs'[u]) = g + 1
          /\ \A i \in 1..g : specs'[u][i] = specs[u][i]
          /\ specs'[u][g + 1] = c
      BY <2>2, <2>3
    <2>5. specs[u][g] # c
      BY <2>2 DEF EditSpec, Configuration
    <2>6. Current(n)' = [uid |-> u, gen |-> g + 1] /\ Generation(u)' = g + 1
      BY <1>3, <2>4 DEF Current, Generation
    <2>7. VersionsOf(n) \subseteq VersionsOf(n)' /\ Current(n)' \in VersionsOf(n)'
      <3>1. \A i \in 1..g : i \in 1..g + 1
        BY <2>2
      <3>2. VersionsOf(n)' = [uid : {u}, gen : 1..g + 1] /\ VersionsOf(n) = [uid : {u}, gen : 1..g]
        BY <1>3, <2>6 DEF VersionsOf
      <3>3. [uid |-> u, gen |-> g + 1] \in [uid : {u}, gen : 1..g + 1]
        BY <2>2
      <3> QED
        BY <2>6, <3>1, <3>2, <3>3
    <2>8. \A v \in VersionsOf(n) : v.uid = u /\ v.gen \in 1..g
      BY DEF VersionsOf
    <2>9. \A v \in VersionsOf(n) : Configuration(v)' = Configuration(v)
      BY <2>4, <2>8 DEF Configuration
    <2>10. /\ Len(stream') = Len(stream) + 1 /\ Len(stream) \in Nat
           /\ \A i \in 1..Len(stream) : stream'[i] = stream[i]
           /\ stream'[Len(stream) + 1] = d
      BY <1>4
    <2>11. \A i \in 1..Len(stream') : i \in 1..Len(stream) \/ i = Len(stream) + 1
      BY <2>10
    <2>12. \A v \in Version : Latest(n, v)' => v = Current(n)'
      BY <1>3, <1>4, <1>5, <2>6, HeldGrows
    <2>13. Informed(n)'
      <3>1. \A i \in 1..Len(stream') :
              stream'[i].name = n => stream'[i].type = "Changed" /\ stream'[i].ver \in VersionsOf(n)'
        BY <1>5, <2>1, <2>6, <2>7, <2>10, <2>11 DEF Informed
      <3>2. cache'[n] = Nothing => About(n)'
        <4>1. Len(stream) + 1 \in 1..Len(stream') /\ stream'[Len(stream) + 1].name = n
          BY <1>5, <2>10
        <4> QED
          BY <4>1 DEF About
      <3>3. cache'[n] # Nothing => cache'[n] \in VersionsOf(n)'
        BY <1>3, <2>1, <2>7 DEF Informed
      <3> QED
        BY <2>12, <3>1, <3>2, <3>3 DEF Informed
    <2>14. Undeleted(n)'
      BY <1>3, <2>1 DEF Undeleted, wqVars
    <2>15. Edited(n)'
      <3> SUFFICES ASSUME NEW i \in 1..(g + 1) - 1 PROVE specs'[u][i] # specs'[u][i + 1]
        BY <1>3, <2>6 DEF Edited
      <3>1. CASE i = g
        <4>1. g \in 1..g
          BY <2>2
        <4>2. specs'[u][g] = specs[u][g] /\ specs'[u][g + 1] = c
          BY <2>4, <4>1
        <4> HIDE DEF g
        <4> QED
          BY <2>5, <3>1, <4>2
      <3>2. CASE i # g
        <4>1. i \in 1..g - 1 /\ i \in 1..g /\ i + 1 \in 1..g
          BY <2>2, <3>2
        <4>2. specs[u][i] # specs[u][i + 1]
          BY <2>1, <4>1 DEF Edited
        <4>3. specs'[u][i] = specs[u][i] /\ specs'[u][i + 1] = specs[u][i + 1]
          BY <2>4, <4>1
        <4> QED
          BY <4>2, <4>3
      <3> QED
        BY <3>1, <3>2
    <2>16. ASSUME Noticed(n), NEW i \in 1..Len(stream'), stream'[i].name = n,
                  NEW v \in Version, Held(n, i, v)', NEW x, x = stream'[i].ver
           PROVE  Follows(v, x)'
      <3>1. i \in 1..Len(stream) + 1
        BY <2>10
      <3>2. Held(n, i, v)
        BY <1>3, <1>4, <2>16, <3>1, HeldGrows
      <3>3. v \in VersionsOf(n)
        BY <1>4, <2>1, <3>1, <3>2, HeldVersion
      <3>4. CASE i \in 1..Len(stream)
        <4>1. x = stream[i].ver /\ stream[i].name = n
          BY <2>10, <2>16, <3>4
        <4>2. x \in VersionsOf(n) /\ Follows(v, x)
          BY <2>1, <2>16, <3>2, <3>4, <4>1 DEF Informed, Noticed
        <4> QED
          BY <2>9, <3>3, <4>2 DEF Follows
      <3>5. CASE i = Len(stream) + 1
        <4>1. x = [uid |-> u, gen |-> g + 1]
          BY <1>5, <2>10, <2>16, <3>5
        <4>2. Latest(n, v)
          BY <3>2, <3>5 DEF Latest
        <4>3. v = Current(n)
          BY <2>1, <4>2 DEF Informed
        <4>4. Configuration(v)' = specs[u][g]
          BY <2>2, <2>9, <3>3, <4>3 DEF Configuration
        <4>5. Configuration(x)' = c
          BY <2>4, <4>1 DEF Configuration
        <4> QED
          BY <2>5, <4>4, <4>5 DEF Follows
      <3> QED
        BY <2>11, <3>4, <3>5
    <2>17. Noticed(n) => Noticed(n)'
      <3> SUFFICES ASSUME Noticed(n), NEW i \in 1..Len(stream'), stream'[i].name = n,
                          NEW v \in Version, Held(n, i, v)'
                   PROVE  Follows(v, stream[i].ver)'
        BY DEF Noticed
      <3>1. PICK x : x = stream'[i].ver
        OBVIOUS
      <3>2. Follows(v, x)'
        BY <2>16, <3>1
      <3> QED
        BY <3>1, <3>2 DEF Follows, Configuration
    <2>18. Coalesced(n) => Coalesced(n)'
      BY <1>1, <1>2, <1>3, CoalescedStays
    <2>19. cache'[n] # Current(n)'
      <3>1. cache[n] = Nothing \/ cache[n].gen \in 1..g
        BY <2>1, <2>8 DEF Informed
      <3>2. Nothing # [uid |-> u, gen |-> g + 1]
        BY <1>1, <2>2, SentinelAssumption DEF Version
      <3> QED
        BY <1>3, <2>2, <2>6, <3>1, <3>2
    <2> QED
      BY <1>1, <1>3, <2>1, <2>13, <2>14, <2>15, <2>17, <2>18, <2>19 DEF EditName
  <1> QED
    BY <1>6, <1>7
-----------------------------------------------------------------------------
(* The informer's steps.                                                   *)

\* The handlers queue every version that the next delta brings and they can
\* tell from the one they had.
LEMMA DeliverEdit ==
  ASSUME IInv, OwnerInv, EditInv, budget' = budget, Deliver
  PROVE  \A n \in Names : EditName(n)'
  <1> DEFINE d == Head(stream)
  <1>1. stream \in Seq(Delta) /\ stream # <<>> /\ stream' = Tail(stream) /\ d \in Delta /\ d = stream[1]
    BY DEF Deliver, IInv, TypeOK
  <1>2. /\ UNCHANGED <<specs, obj, stores, pc, fresh, res, built, old>> /\ holding' = holding
        /\ budget' \in [Disturbances -> Nat] /\ budget'["relist"] <= budget["relist"]
    BY DeliverQueue DEF Deliver, workerVars, sharedVars, IInv, TypeOK, Disturbances
  <1>3. Extended
    BY <1>2 DEF Extended, IInv, TypeOK
  <1>4. 1 \in 1..Len(stream)
    BY <1>1
  <1> HIDE DEF d
  <1>5. ASSUME NEW n \in Names, d.name # n PROVE EditName(n)'
    <2>1. Same(n)
      BY <1>5, DeliverOthers DEF d
    <2>2. SameDeltas(n)
      BY <1>1, <1>5, <2>1, DeltasShrink DEF d, Same, SameInformer
    <2> QED
      BY <1>2, <1>3, <2>1, <2>2, EditSame DEF EditInv
  <1>6. ASSUME NEW n \in Names, d.name = n PROVE EditName(n)'
    <2>1. obj[n] # Absent
      BY <1>1, <1>4, <1>6 DEF EditInv, EditName, About
    <2>2. /\ Informed(n) /\ Undeleted(n) /\ Edited(n)
          /\ ~Coalesced(n) => Noticed(n) /\ (cache[n] = Current(n) => Attended(n))
      BY <2>1 DEF EditInv, EditName
    <2>3. PICK x : x = d.ver
      OBVIOUS
    <2>4. d.type = "Changed" /\ x \in VersionsOf(n) /\ x \in Version /\ x # Nothing
      BY <1>1, <1>4, <1>6, <2>1, <2>2, <2>3, CurrentVersion, SentinelAssumption DEF Informed
    <2>5. OnChange(n, x)
      BY <1>6, <2>3, <2>4 DEF Deliver, d
    <2>6. cache'[n] = x
      BY <2>5 DEF OnChange, IInv, TypeOK
    <2>7. SameDeltas(n)
      BY <1>1, <1>6, <2>3, <2>6, DeltasShrink DEF d
    <2>8. SameResource(n) /\ SameHandlers(n)
      BY <1>2 DEF SameResource, SameHandlers, Handles
    <2>9. dirty \subseteq dirty' /\ \A i \in dirty' : i \in dirty \/ i # <<n, "deleteEvent">>
      BY <2>5 DEF OnChange, enqueueCRDMetrics, Add, wqVars
    <2>10. Undeleted(n)'
      BY <1>2, <2>2, <2>9 DEF Undeleted
    <2>11. Current(n)' = Current(n) /\ (Edited(n)' <=> Edited(n))
      BY <1>2, VersionsKept
    <2>12. Informed(n)' /\ (Noticed(n) => Noticed(n)')
      BY <1>1, <1>2, <2>1, <2>2, <2>4, <2>6, <2>7, InformedKept
    <2>13. Coalesced(n) => Coalesced(n)'
      BY <1>2, <1>3, <2>1, CoalescedStays
    <2>14. ASSUME Noticed(n), cache[n] = Current(n) => Attended(n), x = Current(n) PROVE Attended(n)'
      <3>1. CASE cache[n] = Nothing
        <4>1. <<n, "addEvent">> \in dirty'
          BY <2>5, <3>1 DEF OnChange, enqueueCRDMetrics, Add, OwnerInv
        <4> QED
          BY <4>1 DEF Attended, Marked, Events
      <3>2. CASE cache[n] = x
        <4>1. Attended(n)
          BY <2>14, <3>2
        <4> QED
          BY <2>1, <2>8, <2>9, <4>1, AttendedSame
      <3>3. CASE cache[n] # Nothing /\ cache[n] # x
        <4>1. cache[n] \in Version
          BY <3>3 DEF IInv, TypeOK
        <4>2. Held(n, 1, cache[n])
          BY DEF Held
        <4>3. Follows(cache[n], x)
          BY <1>1, <1>4, <1>6, <2>3, <2>14, <4>1, <4>2 DEF Noticed
        <4>4. <<n, "updateEvent">> \in dirty'
          BY <2>5, <3>3, <4>3 DEF Follows, OnChange, enqueueCRDMetrics, Add, OwnerInv
        <4> QED
          BY <4>4 DEF Attended, Marked, Events
      <3> QED
        BY <3>1, <3>2, <3>3
    <2> QED
      BY <1>2, <2>1, <2>2, <2>6, <2>10, <2>11, <2>12, <2>13, <2>14 DEF EditName
  <1> QED
    BY <1>5, <1>6

\* The positions in a concatenation.
LEMMA PartsOf ==
  ASSUME NEW a \in Seq(Delta), NEW b \in Seq(Delta)
  PROVE  /\ a \o b \in Seq(Delta) /\ Len(a \o b) = Len(a) + Len(b)
         /\ \A i \in 1..Len(a) : (a \o b)[i] = a[i]
         /\ \A j \in 1..Len(b) : (a \o b)[Len(a) + j] = b[j]
  <1> DEFINE s == a \o b
  <1>1. /\ s \in Seq(Delta) /\ Len(s) = Len(a) + Len(b)
        /\ Len(a) \in Nat /\ Len(b) \in Nat
        /\ \A i \in 1..Len(a) + Len(b) : s[i] = IF i <= Len(a) THEN a[i] ELSE b[i - Len(a)]
    BY ConcatProperties
  <1> HIDE DEF s
  <1>2. \A i \in 1..Len(a) : s[i] = a[i]
    BY <1>1
  <1>3. ASSUME NEW j \in 1..Len(b) PROVE s[Len(a) + j] = b[j]
    <2>1. Len(a) + j \in 1..Len(a) + Len(b) /\ ~(Len(a) + j <= Len(a)) /\ (Len(a) + j) - Len(a) = j
      BY <1>1
    <2>2. s[Len(a) + j] = b[(Len(a) + j) - Len(a)]
      BY <1>1, <2>1
    <2> QED
      BY <2>1, <2>2
  <1> QED
    BY <1>1, <1>2, <1>3 DEF s

\* After a list the last that is said of a resource is what it is now.
LEMMA RelistLast ==
  ASSUME IInv, NEW k \in 0..Len(stream), Relist(k), NEW n \in Listed
  PROVE  \E e \in 1..Len(stream') :
           /\ stream'[e].name = n
           /\ \A h \in e..Len(stream') : stream'[h].name = n => stream'[h].ver = Current(n)
  <1> DEFINE kept == SubSeq(stream, 1, k)
             gone == {m \in Names \ Listed : Known(m, kept)}
             tomb(r) == [i \in 1..Len(r) |->
                           [type |-> "Tombstone", name |-> r[i], ver |-> Nothing]]
  <1>1. PICK q \in Orders(Listed), r \in Orders(gone) :
           stream' = kept \o ListDeltas(q) \o tomb(r)
    BY DEF Relist
  <1>2. kept \in Seq(Delta) /\ Len(kept) \in Nat
    BY SubSeqProperties DEF IInv, TypeOK
  <1>3. ListDeltas(q) \in Seq(Delta) /\ Len(ListDeltas(q)) \in Nat
    BY ListDeltasType DEF IInv
  <1>4. /\ Len(tomb(r)) \in Nat /\ tomb(r) \in Seq(Delta)
        /\ \A i \in 1..Len(tomb(r)) : tomb(r)[i].name # n
    <2>1. r \in Seq(gone)
      BY OrdersType
    <2>2. Len(r) \in Nat /\ \A i \in 1..Len(r) : r[i] \in gone /\ r[i] \in Names
      BY <2>1
    <2>3. \A i \in 1..Len(r) : [type |-> "Tombstone", name |-> r[i], ver |-> Nothing] \in Delta
      BY <2>2 DEF Delta
    <2>4. Len(tomb(r)) = Len(r) /\ \A i \in 1..Len(r) : tomb(r)[i].name = r[i]
      BY <2>2
    <2> QED
      BY <2>2, <2>3, <2>4
  <1> DEFINE list == ListDeltas(q)
             front == kept \o list
  <1>5. PICK j \in 1..Len(list) : list[j].name = n
    BY ListedDeltas
  <1>6. \A i \in 1..Len(list) : list[i].name = n => list[i].ver = Current(n)
    <2> SUFFICES ASSUME NEW i \in 1..Len(list), list[i].name = n PROVE list[i].ver = Current(n)
      OBVIOUS
    <2>1. PICK m \in Listed : list[i] = [type |-> "Changed", name |-> m, ver |-> Current(m)]
      BY ListedDeltas
    <2> QED
      BY <2>1
  <1> HIDE DEF kept, gone, tomb, list
  <1>7. /\ front \in Seq(Delta) /\ Len(front) = Len(kept) + Len(list)
        /\ \A i \in 1..Len(list) : front[Len(kept) + i] = list[i]
    BY <1>2, <1>3, PartsOf DEF list
  <1>8. stream' = front \o tomb(r)
    BY <1>1 DEF list
  <1> HIDE DEF front
  <1>9. /\ Len(stream') = Len(front) + Len(tomb(r))
        /\ \A i \in 1..Len(front) : stream'[i] = front[i]
        /\ \A i \in 1..Len(tomb(r)) : stream'[Len(front) + i] = tomb(r)[i]
    BY <1>4, <1>7, <1>8, PartsOf
  <1> DEFINE a == Len(kept)
             b == Len(list)
             c == Len(tomb(r))
  <1>10. a \in Nat /\ b \in Nat /\ c \in Nat /\ Len(front) = a + b /\ Len(stream') = (a + b) + c
    BY <1>2, <1>3, <1>4, <1>7, <1>9 DEF list
  <1>11. \A i \in 1..b : stream'[a + i] = list[i]
    <2> SUFFICES ASSUME NEW i \in 1..b PROVE stream'[a + i] = list[i]
      OBVIOUS
    <2>1. a + i \in 1..Len(front)
      BY <1>10
    <2>2. front[a + i] = list[i]
      BY <1>7
    <2> QED
      BY <1>9, <2>1, <2>2
  <1>12. \A i \in 1..c : stream'[(a + b) + i] = tomb(r)[i]
    BY <1>9, <1>10
  <1>13. a + j \in 1..Len(stream') /\ stream'[a + j].name = n
    BY <1>5, <1>10, <1>11
  <1>14. ASSUME NEW h \in (a + j)..Len(stream'), stream'[h].name = n
         PROVE  stream'[h].ver = Current(n)
    <2> HIDE DEF a, b, c
    <2>1. CASE h <= a + b
      <3>1. h - a \in 1..b /\ a + (h - a) = h
        BY <1>5, <1>10, <2>1 DEF b
      <3>2. stream'[h] = list[h - a]
        BY <1>11, <3>1
      <3> QED
        BY <1>6, <1>14, <3>1, <3>2 DEF b
    <2>2. CASE h > a + b
      <3>1. h - (a + b) \in 1..c /\ (a + b) + (h - (a + b)) = h
        BY <1>10, <2>2
      <3>2. stream'[h] = tomb(r)[h - (a + b)]
        BY <1>12, <3>1
      <3> QED
        BY <1>4, <1>14, <3>1, <3>2 DEF c
    <2> QED
      BY <1>10, <2>1, <2>2
  <1> QED
    BY <1>13, <1>14

\* The informer lists: what it is about to be handed ends with what is now.
LEMMA InformedAnew ==
  ASSUME IInv, OwnerInv, NEW n \in Names, obj[n] # Absent, UNCHANGED <<specs, obj>>,
         stream' \in Seq(Delta),
         \A i \in 1..Len(stream') :
           stream'[i].name = n => stream'[i].type = "Changed" /\ stream'[i].ver \in VersionsOf(n),
         NEW e \in 1..Len(stream'), stream'[e].name = n,
         \A h \in e..Len(stream') : stream'[h].name = n => stream'[h].ver = Current(n),
         cache'[n] # Nothing => cache'[n] \in VersionsOf(n)
  PROVE  /\ Informed(n)' /\ VersionsOf(n)' = VersionsOf(n) /\ Current(n)' = Current(n)
         /\ \A i \in 1..Len(stream') : \A v \in Version : Held(n, i, v)' => v \in VersionsOf(n)
  <1>1. VersionsOf(n)' = VersionsOf(n) /\ Current(n)' = Current(n)
    BY VersionsKept
  <1>2. About(n)'
    BY DEF About
  <1>3. ASSUME NEW v \in Version, Latest(n, v)' PROVE v = Current(n)
    <2>1. e \in 1..(Len(stream') + 1) - 1
      OBVIOUS
    <2>2. PICK j \in 1..(Len(stream') + 1) - 1 :
            /\ stream'[j].name = n /\ stream'[j].ver = v
            /\ \A h \in j + 1..(Len(stream') + 1) - 1 : stream'[h].name # n
      BY <1>3, <2>1 DEF Held, Latest
    <2>3. e \notin j + 1..(Len(stream') + 1) - 1
      BY <2>2
    <2>4. j \in e..Len(stream')
      BY <2>1, <2>3
    <2> QED
      BY <2>2, <2>4
  <1>4. ASSUME NEW i \in 1..Len(stream'), NEW v \in Version, Held(n, i, v)'
        PROVE  v \in VersionsOf(n)
    <2>1. CASE cache'[n] = v
      BY <2>1, SentinelAssumption
    <2>2. ASSUME NEW j \in 1..i - 1, stream'[j].name = n, stream'[j].ver = v
          PROVE  v \in VersionsOf(n)
      <3>1. j \in 1..Len(stream')
        OBVIOUS
      <3> QED
        BY <2>2, <3>1
    <2> QED
      BY <1>4, <2>1, <2>2 DEF Held
  <1> QED
    BY <1>1, <1>2, <1>3, <1>4 DEF Informed

\* A broken watch: the list that follows hides no change of configuration,
\* unless a resource went back to one it had.
LEMMA RelistEdit ==
  ASSUME IInv, OwnerInv, EditInv, budget' \in [Disturbances -> Nat],
         NEW k \in 0..Len(stream), Relist(k), stream' \in Seq(Delta)
  PROVE  \A n \in Names : EditName(n)'
  <1>1. UNCHANGED <<wqVars, specs, obj, cache, fresh, workerVars, sharedVars>>
    BY DEF Relist
  <1>2. budget'["relist"] <= budget["relist"] /\ budget'["relist"] < Budget["relist"]
    BY BoundAssumption, SMTT(30)
    DEF Relist, Spend, EditInv, BudgetInv, IInv, TypeOK, Disturbances
  <1>3. Extended
    BY <1>1 DEF Extended, IInv, TypeOK
  <1>4. ASSUME NEW n \in Names PROVE Same(n)
    BY RelistSame DEF EditInv, EditName
  <1>5. ASSUME NEW n \in Names, obj[n] = Absent PROVE EditName(n)'
    <2>1. cache[n] = Nothing /\ ~About(n) /\ ~Marked(n) /\ \A w \in Workers : ~Handles(w, n)
      BY <1>5 DEF EditInv, EditName
    <2>2. ~About(n)'
      <3>1. SameInformer(n)
        BY <1>4 DEF Same
      <3> QED
        BY <1>5, <2>1, <3>1 DEF About, SameInformer
    <2> QED
      BY <1>1, <1>5, <2>1, <2>2 DEF EditName, Marked, Handles, wqVars
  <1>6. ASSUME NEW n \in Names, obj[n] # Absent PROVE EditName(n)'
    <2>1. /\ Informed(n) /\ Undeleted(n) /\ Edited(n)
          /\ ~Coalesced(n) => (cache[n] = Current(n) => Attended(n))
      BY <1>6 DEF EditInv, EditName
    <2>2. \A i \in 1..Len(stream') :
            stream'[i].name = n => stream'[i].type = "Changed" /\ stream'[i].ver \in VersionsOf(n)
      <3> SUFFICES ASSUME NEW i \in 1..Len(stream'), stream'[i].name = n
                   PROVE  stream'[i].type = "Changed" /\ stream'[i].ver \in VersionsOf(n)
        OBVIOUS
      <3>1. SameInformer(n)
        BY <1>4 DEF Same
      <3>2. CASE \E j \in 1..Len(stream) : stream[j] = stream'[i]
        BY <2>1, <3>2 DEF Informed
      <3>3. CASE stream'[i] = [type |-> "Changed", name |-> n, ver |-> Current(n)]
        BY <1>6, <3>3, CurrentVersion
      <3> QED
        BY <3>1, <3>2, <3>3 DEF SameInformer
    <2>3. PICK e \in 1..Len(stream') :
            /\ stream'[e].name = n
            /\ \A h \in e..Len(stream') : stream'[h].name = n => stream'[h].ver = Current(n)
      BY <1>6, RelistLast DEF Listed
    <2>4. cache'[n] # Nothing => cache'[n] \in VersionsOf(n)
      BY <1>1, <2>1 DEF Informed
    <2>5. /\ Informed(n)' /\ VersionsOf(n)' = VersionsOf(n) /\ Current(n)' = Current(n)
          /\ \A i \in 1..Len(stream') : \A v \in Version : Held(n, i, v)' => v \in VersionsOf(n)
      BY <1>1, <1>6, <2>2, <2>3, <2>4, InformedAnew
    <2>6. ASSUME ~Coalesced(n)', NEW v \in VersionsOf(n), NEW x \in VersionsOf(n) PROVE Follows(v, x)'
      <3> DEFINE u == obj[n].uid
      <3>1. /\ v.uid = u /\ v.gen \in 1..Generation(u)
            /\ x.uid = u /\ x.gen \in 1..Generation(u)
        BY DEF VersionsOf
      <3>2. \A i, j \in 1..Generation(u) : specs[u][i] = specs[u][j] => i = j
        BY <1>1, <1>2, <2>6 DEF Coalesced, Generation
      <3>3. v.gen = x.gen => v = x
        BY <3>1 DEF VersionsOf
      <3> QED
        BY <1>1, <3>1, <3>2, <3>3 DEF Follows, Configuration
    <2>7. ~Coalesced(n)' => Noticed(n)'
      <3> SUFFICES ASSUME ~Coalesced(n)', NEW i \in 1..Len(stream'), stream'[i].name = n,
                          NEW v \in Version, Held(n, i, v)'
                   PROVE  Follows(v, stream[i].ver)'
        BY DEF Noticed
      <3>1. PICK x : x = stream'[i].ver
        OBVIOUS
      <3>2. Follows(v, x)'
        BY <2>2, <2>5, <2>6, <3>1
      <3> QED
        BY <3>1, <3>2 DEF Follows, Configuration
    <2>8. Coalesced(n) => Coalesced(n)'
      BY <1>1, <1>2, <1>3, <1>6, CoalescedStays
    <2>9. Attended(n) => Attended(n)'
      BY <1>1, <1>4, <1>6, AttendedSame DEF Same, wqVars
    <2>10. Undeleted(n)' /\ Edited(n)'
      BY <1>1, <2>1, VersionsKept DEF Undeleted, wqVars
    <2> QED
      BY <1>1, <1>6, <2>1, <2>5, <2>7, <2>8, <2>9, <2>10 DEF EditName
  <1> QED
    BY <1>5, <1>6

\* A restart: the informer's first list adds every resource.
LEMMA RestartEdit ==
  ASSUME IInv, OwnerInv, EditInv, Restart, stream' \in Seq(Delta)
  PROVE  \A n \in Names : EditName(n)'
  <1>1. /\ UNCHANGED <<specs, obj>> /\ dirty' = {}
        /\ \A w \in Workers : holding'[w] = NoItem
        /\ \A n \in Names : cache'[n] = Nothing
    BY DEF Restart
  <1>2. PICK q \in Orders(Listed) : stream' = ListDeltas(q)
    BY DEF Restart
  <1>3. ASSUME NEW n \in Names PROVE EditName(n)'
    <2>1. \A i \in 1..Len(stream') : stream'[i].name = n =>
            obj[n] # Absent /\ stream'[i].type = "Changed" /\ stream'[i].ver = Current(n)
      <3> SUFFICES ASSUME NEW i \in 1..Len(stream'), stream'[i].name = n
                   PROVE  obj[n] # Absent /\ stream'[i].type = "Changed" /\ stream'[i].ver = Current(n)
        OBVIOUS
      <3>1. PICK m \in Listed : stream'[i] = [type |-> "Changed", name |-> m, ver |-> Current(m)]
        BY <1>2, ListedDeltas
      <3>2. m = n /\ obj[m] # Absent
        BY <3>1 DEF Listed
      <3> QED
        BY <3>1, <3>2
    <2>2. ~Marked(n)' /\ (\A w \in Workers : ~Handles(w, n)') /\ cache'[n] = Nothing
      BY <1>1 DEF Marked, Handles
    <2>3. CASE obj[n] = Absent
      BY <1>1, <2>1, <2>2, <2>3 DEF EditName, About
    <2>4. CASE obj[n] # Absent
      <3>1. PICK e \in 1..Len(stream') : stream'[e].name = n
        BY <1>2, <2>4, ListedDeltas DEF Listed
      <3>2. \A h \in e..Len(stream') : stream'[h].name = n => stream'[h].ver = Current(n)
        BY <2>1
      <3>3. /\ Current(n) \in VersionsOf(n) /\ Current(n) \in Version
        BY <2>4, CurrentVersion
      <3>4. Informed(n)' /\ Current(n)' = Current(n)
        BY <1>1, <2>1, <2>2, <2>4, <3>1, <3>2, <3>3, InformedAnew
      <3>5. ASSUME NEW i \in 1..Len(stream'), stream'[i].name = n, NEW v \in Version, Held(n, i, v)'
            PROVE  v = stream'[i].ver
        <4>1. PICK j \in 1..i - 1 : stream'[j].name = n /\ stream'[j].ver = v
          BY <2>2, <3>5, SentinelAssumption DEF Held
        <4>2. j \in 1..Len(stream')
          OBVIOUS
        <4> QED
          BY <2>1, <3>5, <4>1, <4>2
      <3>6. Noticed(n)'
        BY <3>5 DEF Noticed, Follows
      <3>7. Undeleted(n)'
        BY <1>1, EnqueuedItem, NoItemAssumption DEF Undeleted, Events
      <3>8. Edited(n)'
        BY <1>1, <2>4, VersionsKept DEF EditInv, EditName
      <3>9. cache'[n] # Current(n)'
        BY <2>2, <3>3, <3>4, SentinelAssumption
      <3> QED
        BY <1>1, <2>4, <3>4, <3>6, <3>7, <3>8, <3>9 DEF EditName
    <2> QED
      BY <2>3, <2>4
  <1> QED
    BY <1>3
-----------------------------------------------------------------------------
(* The steps of the only worker.                                           *)

\* What is known when a worker is in the handler of a resource.
LEMMA HandledEdit ==
  ASSUME IInv, EditInv, NEW w \in Workers, pc[w] # "idle", NEW k, NameOf(w) = k
  PROVE  /\ k \in Names /\ obj[k] # Absent /\ Handles(w, k)
         /\ EventOf(w) # "deleteEvent"
  <1>1. holding[w] # NoItem
    BY DEF IInv, WorkerInv
  <1>2. Handles(w, k) /\ k \in Names
    BY <1>1, HeldItem DEF Handles, NameOf, IInv, TypeOK
  <1>3. obj[k] # Absent /\ Undeleted(k)
    BY <1>2 DEF EditInv, EditName
  <1>4. holding[w] = <<k, EventOf(w)>>
    BY <1>1, ItemsAssumption DEF NameOf, EventOf, IInv, TypeOK, WQTypeOK
  <1> QED
    BY <1>2, <1>3, <1>4 DEF Undeleted

\* A step in the handler of k.
LEMMA HandlerEdit ==
  ASSUME \A v, x \in Workers : v = x,
         IInv, OwnerInv, EditInv, budget' = budget,
         NEW w \in Workers, pc[w] # "idle", NEW k, NameOf(w) = k,
         UNCHANGED <<wqVars, cache, specs>>,
         \A m \in Names \ {k} : obj'[m] = obj[m],
         obj'[k] # Absent, obj'[k].uid = obj[k].uid,
         stream' = stream \/ Emit("Changed", k, Current(k)),
         \A m \in Names \ {k} : obj[m] # Absent => stores'[obj[m].uid] = stores[obj[m].uid],
         Ahead(w, k) => Ahead(w, k)'
  PROVE  \A n \in Names : EditName(n)'
  <1>1. k \in Names /\ obj[k] # Absent /\ Handles(w, k)
    BY HandledEdit
  <1>2. /\ stream \in Seq(Delta) /\ Extended
        /\ budget' \in [Disturbances -> Nat] /\ budget'["relist"] <= budget["relist"]
    BY DEF Extended, IInv, TypeOK, Disturbances
  <1>3. holding' = holding /\ dirty' = dirty /\ cache' = cache
    BY DEF wqVars
  <1>4. ASSUME NEW n \in Names
        PROVE  \/ stream' = stream
               \/ \E d : /\ stream' = Append(stream, d)
                         /\ \/ d.name # n
                            \/ obj[n] # Absent /\ d = [type |-> "Changed", name |-> n, ver |-> Current(n)]
    <2>1. [type |-> "Changed", name |-> k, ver |-> Current(k)].name = k
      OBVIOUS
    <2>2. CASE n = k
      BY <1>1, <2>2, Zenon DEF Emit
    <2>3. CASE n # k
      BY <2>1, <2>3, Zenon DEF Emit
    <2> QED
      BY <2>2, <2>3
  <1>5. \A n \in Names : SameDeltas(n) /\ SameInformer(n)
    BY <1>2, <1>3, <1>4, DeltasGrow, StreamGrows
  <1>6. ASSUME NEW n \in Names, n # k PROVE EditName(n)'
    <2>1. ~Handles(w, n) /\ ~Handles(w, n)'
      BY <1>1, <1>3, <1>6 DEF Handles
    <2>2. SameResource(n)
      BY <1>6 DEF SameResource
    <2>3. Same(n)
      BY <1>1, <1>3, <1>6, <2>1, <2>2, HandlerOthers
    <2> QED
      BY <1>2, <1>5, <2>3, EditSame DEF EditInv
  <1>7. EditName(k)'
    <2>1. Undeleted(k)'
      BY <1>1, <1>3 DEF EditInv, EditName, Undeleted
    <2>2. Attended(k) => Attended(k)'
      <3>1. Handles(w, k)' /\ (Marked(k)' <=> Marked(k))
        BY <1>1, <1>3 DEF Handles, Marked
      <3> QED
        BY <1>1, <3>1 DEF Attended
    <2>3. cache[k] = Nothing /\ About(k) => About(k)'
      BY <1>1, <1>5 DEF SameInformer
    <2> QED
      BY <1>1, <1>2, <1>3, <1>5, <2>1, <2>2, <2>3, EditKept DEF EditInv
  <1> QED
    BY <1>6, <1>7

\* A call that was refused: what the worker read is out of date, so an edit is
\* on its way.
LEMMA RefusedEdit ==
  ASSUME \A v, x \in Workers : v = x,
         IInv, OwnerInv, EditInv, budget' = budget, ~Spend("fault"),
         NEW w \in Workers, pc[w] # "idle", NEW k, NameOf(w) = k,
         NEW r, CallFails(w, r), r => ~Ahead(w, k)
  PROVE  \A n \in Names : EditName(n)'
  <1>1. ~Ahead(w, k) /\ UNCHANGED <<wqVars, cache, specs, obj, stream, stores>>
    BY DEF CallFails, sharedVars
  <1>2. obj[k] # Absent
    BY HandledEdit
  <1> QED
    BY <1>1, <1>2, HandlerEdit

LEMMA GetsEdit ==
  ASSUME \A v, x \in Workers : v = x,
         IInv, OwnerInv, EditInv, budget' = budget, ~Spend("fault"), NEW w \in Workers,
         MetaGet(w) \/ ReceivedGet(w) \/ DoneGet(w) \/ FailGet(w)
  PROVE  \A n \in Names : EditName(n)'
  <1>1. PICK k : NameOf(w) = k
    OBVIOUS
  <1>2. pc[w] # "idle"
    BY DEF MetaGet, ReceivedGet, DoneGet, FailGet
  <1>3. k \in Names /\ obj[k] # Absent
    BY <1>1, <1>2, HandledEdit
  <1>4. PICK s : /\ GetResource(w, s)
                 /\ \/ pc[w] = "metaGet" /\ s = "metaUpdate"
                    \/ pc[w] = "recvGet" /\ s = "recvUpdate"
                    \/ pc[w] = "doneGet" /\ s = "doneUpdate"
                    \/ pc[w] = "failGet" /\ s = "failUpdate"
    BY DEF MetaGet, ReceivedGet, DoneGet, FailGet
  <1>5. CASE CallFails(w, obj[NameOf(w)] = Absent)
    BY <1>1, <1>2, <1>3, <1>5, RefusedEdit
  <1>6. CASE /\ Goto(w, s) /\ fresh' = [fresh EXCEPT ![w] = TRUE]
             /\ UNCHANGED <<wqVars, specs, obj, stream, cache, res, built, old, sharedVars>>
    <2>1. pc'[w] = s /\ fresh'[w]
      <3>1. pc'[w] = s
        BY <1>6 DEF Goto, IInv, TypeOK
      <3>2. fresh'[w] = TRUE
        BY <1>6, Zenon DEF IInv, TypeOK
      <3> QED
        BY <3>1, <3>2
    <2>2. SameResource(k)
      BY <1>6 DEF SameResource, sharedVars
    <2>3. /\ BeingProcessed(k)' <=> BeingProcessed(k)
          /\ Unusable(k)' <=> Unusable(k)
          /\ Reconciled(k)' <=> Reconciled(k)
      BY <1>3, <2>2, SameState
    <2>4. ASSUME Ahead(w, k) PROVE Ahead(w, k)'
      <3>1. CASE pc[w] = "metaGet" \/ pc[w] = "recvGet"
        BY <1>4, <2>1, <3>1 DEF Ahead
      <3>2. CASE pc[w] = "doneGet"
        <4>1. Progress(w, k) /\ pc'[w] = "doneUpdate"
          BY <1>4, <2>1, <2>4, <3>2 DEF Ahead
        <4>2. ~Unusable(k)' /\ Reconciled(k)'
          BY <2>3, <3>2, <4>1 DEF Progress
        <4> QED
          BY <2>1, <4>1, <4>2 DEF Ahead, Progress
      <3>3. CASE pc[w] = "failGet"
        <4>1. Progress(w, k) /\ pc'[w] = "failUpdate"
          BY <1>4, <2>1, <2>4, <3>3 DEF Ahead
        <4>2. Unusable(k)' /\ Reconciled(k)' /\ BeingProcessed(k)'
          BY <2>3, <3>3, <4>1 DEF Progress
        <4> QED
          BY <2>1, <4>1, <4>2 DEF Ahead, Progress
      <3> QED
        BY <1>4, <3>1, <3>2, <3>3
    <2> QED
      BY <1>1, <1>2, <1>3, <1>6, <2>4, HandlerEdit DEF sharedVars
  <1> QED
    BY <1>4, <1>5, <1>6 DEF GetResource

\* The object is written.
LEMMA WriteEdit ==
  ASSUME \A v, x \in Workers : v = x,
         IInv, OwnerInv, EditInv, budget' = budget,
         NEW w \in Workers, NEW k, NameOf(w) = k,
         NEW o \in Object, o.uid = obj[k].uid, WriteResource(w, o),
         UNCHANGED <<wqVars, specs, cache, sharedVars>>,
         Ahead(w, k) => Ahead(w, k)'
  PROVE  \A n \in Names : EditName(n)'
  <1>1. k \in Names /\ pc[w] # "idle"
    BY FreshObject DEF WriteResource
  <1>2. obj' = [obj EXCEPT ![k] = o] /\ Emit("Changed", k, Current(k))
    BY DEF WriteResource
  <1>3. obj'[k] = o /\ \A m \in Names \ {k} : obj'[m] = obj[m]
    BY <1>1, <1>2 DEF IInv, TypeOK
  <1>4. obj'[k] # Absent /\ obj'[k].uid = obj[k].uid
    BY <1>3, SentinelAssumption
  <1>5. stores' = stores
    BY DEF sharedVars
  <1> QED
    BY <1>1, <1>2, <1>3, <1>4, <1>5, HandlerEdit

LEMMA MetaEdit ==
  ASSUME \A v, x \in Workers : v = x,
         IInv, OwnerInv, EditInv, budget' = budget, ~Spend("fault"),
         NEW w \in Workers, MetaUpdate(w)
  PROVE  \A n \in Names : EditName(n)'
  <1>1. PICK k : NameOf(w) = k
    OBVIOUS
  <1>2. pc[w] = "metaUpdate" /\ pc[w] # "idle"
    BY DEF MetaUpdate
  <1>3. k \in Names /\ obj[k] # Absent
    BY <1>1, <1>2, HandledEdit
  <1> DEFINE o == [obj[k] EXCEPT !.labelled = TRUE]
  <1>4. fresh[w] => o \in Object /\ o.uid = obj[k].uid
    BY <1>1, FreshObject DEF Object
  <1>5. Goto(w, "recvGet") => Ahead(w, k)'
    BY DEF Ahead, Goto, IInv, TypeOK
  <1>6. Ahead(w, k) => fresh[w]
    BY <1>2 DEF Ahead
  <1> HIDE DEF o
  <1>7. CASE /\ fresh[w] /\ WriteResource(w, o) /\ Goto(w, "recvGet")
             /\ UNCHANGED <<wqVars, specs, cache, sharedVars>>
    BY <1>1, <1>4, <1>5, <1>7, WriteEdit
  <1>8. CASE Goto(w, "recvGet") /\ UNCHANGED <<wqVars, specs, obj, stream, cache, sharedVars>>
    BY <1>1, <1>2, <1>3, <1>5, <1>8, HandlerEdit DEF sharedVars
  <1>9. CASE CallFails(w, ~fresh[w])
    BY <1>1, <1>2, <1>6, <1>9, RefusedEdit
  <1> QED
    BY <1>1, <1>7, <1>8, <1>9 DEF MetaUpdate, AnswerLost, o

\* The status write that starts the work returns the version n has now.
LEMMA ReceivedEdit ==
  ASSUME \A v, x \in Workers : v = x, EmptyConfig \notin Configs,
         IInv, OwnerInv, EditInv, budget' = budget, ~Spend("fault"),
         NEW w \in Workers, ReceivedUpdate(w)
  PROVE  \A n \in Names : EditName(n)'
  <1>1. PICK k : NameOf(w) = k
    OBVIOUS
  <1>2. pc[w] = "recvUpdate" /\ pc[w] # "idle"
    BY DEF ReceivedUpdate
  <1>3. k \in Names /\ obj[k] # Absent
    BY <1>1, <1>2, HandledEdit
  <1>4. Ahead(w, k) => fresh[w]
    BY <1>2 DEF Ahead
  <1>5. Configuration(Current(k)) # EmptyConfig
    <2>1. /\ obj[k].uid \in UIDs /\ Current(k).uid = obj[k].uid
          /\ Current(k).gen = Generation(obj[k].uid)
      BY <1>3, CurrentType DEF IInv
    <2>2. Generation(obj[k].uid) \in 1..Len(specs[obj[k].uid])
      BY <1>3, <2>1 DEF OwnerInv, Generation, IInv, TypeOK
    <2> QED
      BY <2>1, <2>2 DEF Configuration, IInv, TypeOK
  <1> DEFINE o == StatusSet(obj[k], "Processed", FALSE)
  <1>6. ASSUME WriteResource(w, o)
        PROVE  /\ o \in Object /\ o.uid = obj[k].uid /\ obj'[k].uid = obj[k].uid
               /\ obj'[k].conds["Processed"] = [status |-> FALSE, gen |-> Generation(obj[k].uid)]
    BY <1>1, <1>6, StatusWritten DEF Types
  <1> HIDE DEF o
  <1>7. CASE /\ WriteResource(w, o) /\ res' = [res EXCEPT ![w] = Current(k)] /\ Goto(w, "drop")
             /\ UNCHANGED <<wqVars, specs, cache, sharedVars>>
    <2>1. pc'[w] = "drop" /\ res'[w] = Current(k)
      BY <1>7 DEF Goto, IInv, TypeOK
    <2>2. /\ o \in Object /\ o.uid = obj[k].uid /\ obj'[k].uid = obj[k].uid
          /\ obj'[k].conds["Processed"] = [status |-> FALSE, gen |-> Generation(obj[k].uid)]
      BY <1>6, <1>7
    <2>3. /\ Current(k)' = Current(k)
          /\ Configuration(Current(k))' = Configuration(Current(k))
      BY <1>3, <1>7, <2>2, WrittenState DEF sharedVars
    <2>4. BeingProcessed(k)'
      BY <1>7, <2>2 DEF BeingProcessed, Generation
    <2>5. Ahead(w, k)'
      BY <1>5, <2>1, <2>3, <2>4 DEF Ahead, Progress
    <2> QED
      BY <1>1, <1>7, <2>2, <2>5, WriteEdit
  <1>8. CASE CallFails(w, ~fresh[w])
    BY <1>1, <1>2, <1>4, <1>8, RefusedEdit
  <1> QED
    BY <1>1, <1>5, <1>7, <1>8 DEF ReceivedUpdate, AnswerLost, o

\* The last status write tells what came of the version that n has now.
LEMMA FinalEdit ==
  ASSUME \A v, x \in Workers : v = x,
         IInv, OwnerInv, EditInv, budget' = budget, ~Spend("fault"),
         NEW w \in Workers, DoneUpdate(w) \/ FailUpdate(w)
  PROVE  \A n \in Names : EditName(n)'
  <1>1. PICK k : NameOf(w) = k
    OBVIOUS
  <1>2. PICK t \in Types : /\ (t = "Processed" /\ pc[w] = "doneUpdate")
                              \/ (t = "Failed" /\ pc[w] = "failUpdate")
                           /\ FinalUpdate(w, pc[w], t)
    BY DEF DoneUpdate, FailUpdate, FinalUpdate, Types
  <1>3. pc[w] # "idle"
    BY <1>2
  <1>4. k \in Names /\ obj[k] # Absent
    BY <1>1, <1>3, HandledEdit
  <1>5. Ahead(w, k) => Progress(w, k) /\ fresh[w]
    BY <1>2 DEF Ahead, Progress
  <1> DEFINE o == StatusSet(obj[k], t, TRUE)
  <1>6. ASSUME WriteResource(w, o)
        PROVE  /\ o \in Object /\ o.uid = obj[k].uid /\ obj'[k].uid = obj[k].uid
               /\ obj'[k].conds[t] = [status |-> TRUE, gen |-> Generation(obj[k].uid)]
               /\ \A x \in Types \ {t} : obj'[k].conds[x] = obj[k].conds[x]
    <2>1. WriteResource(w, StatusSet(obj[k], t, TRUE)) /\ TRUE \in BOOLEAN
      BY <1>6
    <2>2. \A b \in BOOLEAN : WriteResource(w, StatusSet(obj[k], t, b)) =>
            /\ StatusSet(obj[k], t, b) \in Object /\ StatusSet(obj[k], t, b).uid = obj[k].uid
            /\ obj'[k].uid = obj[k].uid
            /\ obj'[k].conds[t] = [status |-> b, gen |-> Generation(obj[k].uid)]
            /\ \A x \in Types \ {t} : obj'[k].conds[x] = obj[k].conds[x]
      BY <1>1, StatusWritten
    <2> QED
      BY <2>1, <2>2, Zenon
  <1> HIDE DEF o
  <1>7. CASE /\ WriteResource(w, o) /\ Goto(w, "return")
             /\ UNCHANGED <<wqVars, specs, cache, sharedVars>>
    <2>1. pc'[w] = "return"
      BY <1>7 DEF Goto, IInv, TypeOK
    <2>2. /\ o \in Object /\ o.uid = obj[k].uid /\ obj'[k].uid = obj[k].uid
          /\ obj'[k].conds[t] = [status |-> TRUE, gen |-> Generation(obj[k].uid)]
          /\ \A x \in Types \ {t} : obj'[k].conds[x] = obj[k].conds[x]
      BY <1>6, <1>7
    <2>3. Progress(w, k) => Progress(w, k)'
      BY <1>2, <1>4, <1>7, <2>1, <2>2, FinalProgress DEF sharedVars
    <2>4. Ahead(w, k) => Ahead(w, k)'
      BY <1>5, <2>1, <2>3 DEF Ahead
    <2> QED
      BY <1>1, <1>7, <2>2, <2>4, WriteEdit
  <1>8. CASE CallFails(w, ~fresh[w])
    BY <1>1, <1>3, <1>5, <1>8, RefusedEdit
  <1> QED
    BY <1>1, <1>2, <1>7, <1>8 DEF FinalUpdate, AnswerLost, o

\* dropStores and build touch the stores of no other resource.
LEMMA BuildersEdit ==
  ASSUME \A v, x \in Workers : v = x,
         IInv, OwnerInv, EditInv, budget' = budget,
         NEW w \in Workers, DropStores(w) \/ BuildStore(w) \/ AppendStore(w)
  PROVE  \A n \in Names : EditName(n)'
  <1>1. PICK k : NameOf(w) = k
    OBVIOUS
  <1>2. pc[w] \in {"drop", "build", "append"} /\ pc[w] # "idle"
    BY DEF DropStores, BuildStore, AppendStore
  <1>3. k \in Names /\ obj[k] # Absent /\ EventOf(w) # "deleteEvent"
    BY <1>1, <1>2, HandledEdit
  <1>4. UNCHANGED <<wqVars, specs, obj, stream, cache>>
    BY DEF DropStores, BuildStore, AppendStore
  <1>5. \A x \in UIDs \ {res[w].uid} : stores'[x] = stores[x]
    BY DEF DropStores, BuildStore, AppendStore, IInv, TypeOK
  <1>6. \A m \in Names \ {k} : obj[m] # Absent => stores'[obj[m].uid] = stores[obj[m].uid]
    <2>1. \A m \in Names \ {k} : obj[m] # Absent => obj[m].uid \in UIDs /\ obj[m].uid # res[w].uid
      BY <1>1, <1>2, CurrentType DEF OwnerInv, OwnerWorker, IInv
    <2> QED
      BY <1>5, <2>1
  <1>7. Progress(w, k) => Progress(w, k)'
    BY <1>3, DropProgress, BuildProgress, AppendProgress
  <1>8. pc'[w] \in {"build", "append", "doneGet", "failGet"}
    <2>1. CASE DropStores(w)
      <3>1. pc'[w] = AfterDrop(w)
        BY <2>1 DEF DropStores, Goto, IInv, TypeOK
      <3>2. AfterDrop(w) \in {"build", "doneGet", "failGet"}
        BY <1>2, HeldItem DEF AfterDrop, IInv, WorkerInv, TypeOK, Events
      <3> QED
        BY <3>1, <3>2
    <2>2. CASE BuildStore(w)
      BY <2>2 DEF BuildStore, Goto, IInv, TypeOK
    <2>3. CASE AppendStore(w)
      BY <2>3 DEF AppendStore, Goto, IInv, TypeOK
    <2> QED
      BY <2>1, <2>2, <2>3
  <1>9. Ahead(w, k) => Ahead(w, k)'
    BY <1>2, <1>7, <1>8 DEF Ahead
  <1> QED
    BY <1>1, <1>2, <1>3, <1>4, <1>6, <1>9, HandlerEdit

\* Get and Done: the worker starts or ends the handler of k.
LEMMA TurnEdit ==
  ASSUME \A v, x \in Workers : v = x,
         IInv, OwnerInv, EditInv, budget' = budget,
         NEW w \in Workers, NEW k \in Names, obj[k] # Absent,
         UNCHANGED <<specs, obj, stream, cache, sharedVars>>,
         \A n \in Names \ {k} : ~Handles(w, n) /\ ~Handles(w, n)',
         \A n \in Names \ {k} : \A e \in Events : <<n, e>> \in dirty' <=> <<n, e>> \in dirty,
         Undeleted(k)', Attended(k) => Attended(k)'
  PROVE  \A n \in Names : EditName(n)'
  <1>1. /\ stream \in Seq(Delta) /\ Extended
        /\ budget' \in [Disturbances -> Nat] /\ budget'["relist"] <= budget["relist"]
    BY DEF Extended, IInv, TypeOK, Disturbances
  <1>2. \A n \in Names : SameDeltas(n) /\ SameResource(n)
    BY <1>1, DeltasGrow DEF SameResource, sharedVars
  <1>3. ASSUME NEW n \in Names, n # k PROVE EditName(n)'
    <2>1. Same(n)
      BY <1>2, <1>3, HandlerOthers
    <2> QED
      BY <1>1, <1>2, <2>1, EditSame DEF EditInv
  <1>4. EditName(k)'
    <2>1. About(k) => About(k)'
      BY DEF About
    <2> QED
      BY <1>1, <1>2, <2>1, EditKept DEF EditInv
  <1> QED
    BY <1>3, <1>4

LEMMA TakeEdit ==
  ASSUME \A v, x \in Workers : v = x,
         IInv, OwnerInv, EditInv, budget' = budget, NEW w \in Workers, TakeItem(w)
  PROVE  \A n \in Names : EditName(n)'
  <1>1. holding[w] = NoItem /\ queue # <<>> /\ queue \in Seq(Items)
    BY DEF TakeItem, Get, IInv, TypeOK, WQTypeOK
  <1>2. PICK k \in Names, e \in Events : Head(queue) = <<k, e>>
    BY <1>1, ItemsAssumption
  <1>3. <<k, e>> \in dirty
    <2>1. 1 \in 1..Len(queue) /\ Head(queue) = queue[1]
      BY <1>1
    <2> QED
      BY <1>2, <2>1 DEF IInv, WQInv, QueuedOnce
  <1>4. dirty' = dirty \ {<<k, e>>} /\ holding'[w] = <<k, e>>
    BY <1>2 DEF TakeItem, Get, IInv, TypeOK, WQTypeOK
  <1>5. pc'[w] = "metaGet" /\ UNCHANGED <<specs, obj, stream, cache, sharedVars>>
    BY DEF TakeItem, Goto, IInv, TypeOK
  <1>6. <<k, e>> # NoItem
    BY EnqueuedItem, NoItemAssumption
  <1>7. obj[k] # Absent /\ Undeleted(k)
    BY <1>3 DEF EditInv, EditName, Marked
  <1>8. Undeleted(k)'
    BY <1>3, <1>4, <1>7 DEF Undeleted
  <1>9. Attended(k)'
    <2>1. Handles(w, k)' /\ Ahead(w, k)'
      BY <1>4, <1>5, <1>6 DEF Handles, Ahead
    <2> QED
      BY <2>1 DEF Attended
  <1>10. \A n \in Names \ {k} : ~Handles(w, n) /\ ~Handles(w, n)'
    BY <1>1, <1>4 DEF Handles
  <1>11. \A n \in Names \ {k} : \A x \in Events : <<n, x>> \in dirty' <=> <<n, x>> \in dirty
    BY <1>4
  <1> QED
    BY <1>5, <1>7, <1>8, <1>9, <1>10, <1>11, TurnEdit

LEMMA FinishEdit ==
  ASSUME \A v, x \in Workers : v = x,
         IInv, OwnerInv, EditInv, budget' = budget, NEW w \in Workers, FinishItem(w)
  PROVE  \A n \in Names : EditName(n)'
  <1>1. PICK k : NameOf(w) = k
    OBVIOUS
  <1>2. pc[w] = "return" /\ pc[w] # "idle"
    BY DEF FinishItem
  <1>3. k \in Names /\ obj[k] # Absent /\ Handles(w, k)
    BY <1>1, <1>2, HandledEdit
  <1>4. dirty' = dirty /\ holding'[w] = NoItem
    BY DEF FinishItem, Done, IInv, TypeOK, WQTypeOK
  <1>5. UNCHANGED <<specs, obj, stream, cache, sharedVars>>
    BY DEF FinishItem
  <1>6. \A n \in Names \ {k} : ~Handles(w, n) /\ ~Handles(w, n)'
    BY <1>1, <1>4 DEF Handles, NameOf
  <1>7. Undeleted(k)'
    <2>1. \A x \in Workers : holding'[x] # <<k, "deleteEvent">>
      BY <1>3, <1>4, EnqueuedItem, NoItemAssumption DEF Events
    <2> QED
      BY <1>3, <1>4, <2>1 DEF EditInv, EditName, Undeleted
  <1>8. Attended(k) => Attended(k)'
    <2>1. CASE Marked(k)
      BY <1>4, <2>1 DEF Attended, Marked
    <2>2. CASE Ahead(w, k)
      <3>1. Reconciled(k) /\ OutcomeTold(k)
        BY <1>2, <2>2 DEF Ahead, Progress
      <3>2. SameResource(k)
        BY <1>5 DEF SameResource, sharedVars
      <3>3. Reconciled(k)' /\ OutcomeTold(k)'
        BY <1>3, <3>1, <3>2, SameState
      <3>4. \A x \in Workers : ~Handles(x, k)'
        BY <1>4 DEF Handles
      <3> QED
        BY <3>3, <3>4 DEF Attended
    <2> QED
      BY <1>3, <2>1, <2>2 DEF Attended
  <1> QED
    BY <1>3, <1>4, <1>5, <1>6, <1>7, <1>8, TurnEdit
-----------------------------------------------------------------------------
LEMMA EditInit == OnlyEdits /\ Init => EditInv
  <1> SUFFICES ASSUME OnlyEdits, Init PROVE EditInv
    OBVIOUS
  <1>1. /\ dirty = {} /\ stream = <<>> /\ budget = Budget
        /\ \A w \in Workers : holding[w] = NoItem
        /\ \A n \in Names : obj[n] = Absent /\ cache[n] = Nothing
    BY DEF Init, WQInit
  <1>2. BudgetInv
    BY <1>1, BoundAssumption DEF BudgetInv, OnlyEdits, Disturbances
  <1>3. Len(stream) = 0
    BY <1>1
  <1>4. \A n \in Names : ~About(n)
    BY <1>3 DEF About
  <1> QED
    BY <1>1, <1>2, <1>4 DEF EditInv, EditName, Marked, Handles

LEMMA StepEdit ==
  ASSUME \A v, x \in Workers : v = x, EmptyConfig \notin Configs,
         IInv, OwnerInv, EditInv, ~Spend("fault"), NEW w \in Workers, Step(w)
  PROVE  \A n \in Names : EditName(n)'
  <1>1. budget' = budget
    BY DEF Step, TakeItem, MetaGet, MetaUpdate, ReceivedGet, ReceivedUpdate, DropStores,
           BuildStore, AppendStore, DoneGet, DoneUpdate, FailGet, FailUpdate, FinalUpdate,
           FinishItem, GetResource, CallFails, AnswerLost
  <1> QED
    BY <1>1, TakeEdit, GetsEdit, MetaEdit, ReceivedEdit, BuildersEdit, FinalEdit, FinishEdit
       DEF Step

LEMMA NextEdit ==
  ASSUME \A v, x \in Workers : v = x, EmptyConfig \notin Configs,
         IInv, OwnerInv, EditInv, [Next]_vars
  PROVE  EditInv'
  <1>1. /\ BudgetInv' /\ budget' \in [Disturbances -> Nat]
        /\ budget'["relist"] <= budget["relist"]
        /\ \A d \in {"touch", "delete", "fault"} : ~Spend(d)
    BY BudgetNext DEF EditInv
  <1>2. stream' \in Seq(Delta)
    BY NextInv DEF IInv, TypeOK
  <1>3. CASE \E n \in Names, u \in UIDs, c \in Configs : Create(n, u, c)
    BY <1>1, <1>3, CreateEdit DEF EditInv, Create
  <1>4. CASE \E n \in Names, c \in Configs : EditSpec(n, c)
    BY <1>1, <1>4, EditEdit DEF EditInv
  <1>5. CASE \E n \in Names : Touch(n) \/ Delete(n)
    BY <1>1, <1>5 DEF Touch, Delete
  <1>6. CASE Deliver
    BY <1>1, <1>6, DeliverEdit DEF EditInv, Deliver
  <1>7. CASE \E k \in 0..Len(stream) : Relist(k)
    BY <1>1, <1>2, <1>7, RelistEdit DEF EditInv
  <1>8. CASE \E w \in Workers : Step(w)
    BY <1>1, <1>8, StepEdit DEF EditInv
  <1>9. CASE Restart
    BY <1>1, <1>2, <1>9, RestartEdit DEF EditInv
  <1>10. CASE UNCHANGED vars
    <2>1. UNCHANGED <<specs, obj, stream, cache, fresh, workerVars, sharedVars, wqVars>>
      BY <1>10 DEF vars, ctlVars, workerVars, sharedVars
    <2>2. Extended /\ stream \in Seq(Delta)
      BY <2>1 DEF Extended, IInv, TypeOK
    <2>3. ASSUME NEW n \in Names PROVE EditName(n)'
      <3>1. SameInformer(n)
        BY <2>1 DEF SameInformer, About, wqVars
      <3>2. SameResource(n) /\ SameHandlers(n)
        BY <2>1 DEF SameResource, SameHandlers, Handles, workerVars, sharedVars, wqVars
      <3>3. SameDeltas(n)
        BY <2>1, <2>2, DeltasGrow
      <3> QED
        BY <1>1, <2>2, <3>1, <3>2, <3>3, EditSame DEF Same, EditInv
    <2> QED
      BY <1>1, <2>3 DEF EditInv
  <1> QED
    BY <1>3, <1>4, <1>5, <1>6, <1>7, <1>8, <1>9, <1>10 DEF Next

(***************************************************************************)
(* With one worker, and as long as nobody deletes a resource, writes it    *)
(* beside the controller or makes a call fail: what the informer has or is *)
(* about to be handed leads to the version a resource has now, and that    *)
(* version is marked, in the hands of the worker, or served (NewController *)
(* and handleEvent), for any number of edits, broken watches and restarts. *)
(***************************************************************************)
THEOREM CtlEditInvariant ==
  ASSUME \A v, w \in Workers : v = w, OnlyEdits, EmptyConfig \notin Configs
  PROVE  Spec => []EditInv
  <1>1. Init => EditInv
    BY EditInit
  <1>2. IInv /\ OwnerInv /\ EditInv /\ [Next]_vars => EditInv'
    BY NextEdit
  <1>3. Spec => []ServedInv
    BY CtlServedInvariant
  <1>4. ServedInv => IInv /\ OwnerInv
    BY DEF ServedInv
  <1> QED
    BY <1>1, <1>2, <1>3, <1>4, PTL DEF Spec

\* Once nothing is on its way, the version a resource has now is served.
LEMMA QuietEdited ==
  ASSUME IInv, OwnerInv, EditInv, Quiet, NEW n \in Listed, ~Coalesced(n)
  PROVE  Reconciled(n) /\ OutcomeTold(n)
  <1>1. stream = <<>> /\ dirty = {} /\ processing = {}
    BY DEF Quiet
  <1>2. Len(stream) = 0
    BY <1>1
  <1>3. n \in Names /\ obj[n] # Absent
    BY DEF Listed
  <1>4. Informed(n) /\ (cache[n] = Current(n) => Attended(n))
    BY <1>3 DEF EditInv, EditName
  <1>5. ~About(n) /\ ~Marked(n)
    BY <1>1, <1>2 DEF About, Marked
  <1>6. \A w \in Workers : ~Handles(w, n)
    BY <1>1 DEF IInv, WQInv, ProcessingIsHeld, Handles
  <1>7. cache[n] # Nothing /\ cache[n] \in Version
    BY <1>3, <1>4, <1>5 DEF Informed, IInv, TypeOK
  <1>8. Latest(n, cache[n])
    BY <1>2 DEF Latest, Held
  <1>9. cache[n] = Current(n)
    BY <1>4, <1>7, <1>8 DEF Informed
  <1> QED
    BY <1>4, <1>5, <1>6, <1>9 DEF Attended

(***************************************************************************)
(* No edit is lost: with one worker and only edits, broken watches and     *)
(* restarts, a resource ends with exactly the stores of the configuration  *)
(* it has, unless edits may have coalesced (UpdateFunc compares specs, the *)
(* queue marks what it is handed while the worker is busy, and the first   *)
(* status write of handleEvent returns the newest version).  The empty     *)
(* configuration, for which handleEvent returns before dropStores, is left *)
(* out.                                                                    *)
(***************************************************************************)
THEOREM CtlNoLostUpdate ==
  ASSUME \A v, w \in Workers : v = w, OnlyEdits, EmptyConfig \notin Configs
  PROVE  Spec => []NoLostUpdate
  <1>1. ServedInv /\ EditInv => NoLostUpdate
    BY QuietEdited DEF ServedInv, NoLostUpdate
  <1> QED
    BY <1>1, CtlServedInvariant, CtlEditInvariant, PTL

(***************************************************************************)
(* Under the same hypotheses Processed tells the outcome: a resource ends  *)
(* Processed at its generation, or Failed at its generation and not        *)
(* Processed (the two status writes of handleEvent, and their conflicts    *)
(* with edits).                                                            *)
(***************************************************************************)
THEOREM CtlProcessedTellsOutcome ==
  ASSUME \A v, w \in Workers : v = w, OnlyEdits, EmptyConfig \notin Configs
  PROVE  Spec => []ProcessedTellsOutcome
  <1>1. ServedInv /\ EditInv => ProcessedTellsOutcome
    BY QuietEdited DEF ServedInv, ProcessedTellsOutcome
  <1> QED
    BY <1>1, CtlServedInvariant, CtlEditInvariant, PTL

-----------------------------------------------------------------------------
(* What a Failed condition says, with any number of workers.               *)

\* One of the first g configurations of a history could not be processed.
UnusableUpTo(h, g) ==
  \E i \in 1..Len(h) : i <= g /\ h[i] \in BadConfigs \union {EmptyConfig}

Failing == {"failGet", "failUpdate"}

\* A worker that reports a failure does so on the resource whose configuration
\* it could not process.
FailWorker(w) ==
  /\ pc[w] \in Failing \union {"drop"} => obj[NameOf(w)] # Absent
  /\ pc[w] = "drop" => res[w].uid = obj[NameOf(w)].uid
  /\ pc[w] \in Failing =>
       UnusableUpTo(specs[obj[NameOf(w)].uid], Len(specs[obj[NameOf(w)].uid]))

FailName(n) ==
  obj[n] # Absent /\ obj[n].conds["Failed"] # Nothing =>
    UnusableUpTo(specs[obj[n].uid], obj[n].conds["Failed"].gen)

FailInv ==
  /\ budget["delete"] = 0
  /\ \A n \in Names : FailName(n)
  /\ \A w \in Workers : FailWorker(w)

\* What was unusable stays so as the history of a resource grows.
LEMMA UnusableStays ==
  ASSUME IInv, Extended, NEW u \in UIDs
  PROVE  /\ \A g : UnusableUpTo(specs[u], g) => UnusableUpTo(specs'[u], g)
         /\ UnusableUpTo(specs[u], Len(specs[u])) => UnusableUpTo(specs'[u], Len(specs'[u]))
  <1>1. specs[u] \in Seq(Configs) /\ specs'[u] \in Seq(Configs)
    BY DEF Extended, IInv, TypeOK
  <1>2. /\ Len(specs[u]) \in Nat /\ Len(specs'[u]) \in Nat /\ Len(specs[u]) <= Len(specs'[u])
        /\ \A i \in 1..Len(specs[u]) : specs'[u][i] = specs[u][i]
    BY <1>1 DEF Extended
  <1>3. \A i \in 1..Len(specs[u]) : i \in 1..Len(specs'[u]) /\ i <= Len(specs'[u])
    BY <1>2
  <1> QED
    BY <1>2, <1>3 DEF UnusableUpTo

\* No resource is deleted, and none becomes another.
Lasting == \A n \in Names : obj[n] # Absent => obj'[n] # Absent /\ obj'[n].uid = obj[n].uid

\* Resources last, and every Failed condition and every worker is as it was or
\* as it should be.
LEMMA FailFrame ==
  ASSUME IInv, FailInv, Extended, Lasting, budget'["delete"] = 0,
         \A n \in Names :
           \/ FailName(n)'
           \/ obj[n] # Absent /\ obj'[n].conds["Failed"] = obj[n].conds["Failed"],
         \A w \in Workers :
           \/ FailWorker(w)'
           \/ pc'[w] = pc[w] /\ res'[w] = res[w] /\ holding'[w] = holding[w]
  PROVE  FailInv'
  <1>1. \A n \in Names : obj[n] # Absent => obj[n].uid \in UIDs
    BY CurrentType DEF IInv
  <1>2. ASSUME NEW n \in Names PROVE FailName(n)'
    <2>1. CASE obj[n] # Absent /\ obj'[n].conds["Failed"] = obj[n].conds["Failed"]
      BY <1>1, <2>1, UnusableStays DEF FailInv, FailName, Lasting
    <2> QED
      BY <2>1
  <1>3. ASSUME NEW w \in Workers PROVE FailWorker(w)'
    <2>1. CASE /\ pc'[w] = pc[w] /\ res'[w] = res[w] /\ holding'[w] = holding[w]
               /\ pc[w] \in Failing \union {"drop"}
      <3>1. holding[w] # NoItem
        BY <2>1 DEF Failing, IInv, WorkerInv
      <3>2. NameOf(w) \in Names /\ NameOf(w)' = NameOf(w)
        BY <2>1, <3>1, HeldItem DEF NameOf, IInv, TypeOK
      <3>3. /\ obj[NameOf(w)] # Absent /\ obj'[NameOf(w)] # Absent
            /\ obj'[NameOf(w)].uid = obj[NameOf(w)].uid
            /\ obj[NameOf(w)].uid \in UIDs
        BY <1>1, <2>1, <3>2 DEF FailInv, FailWorker, Lasting
      <3> QED
        BY <2>1, <3>2, <3>3, UnusableStays DEF FailInv, FailWorker
    <2>2. CASE pc'[w] \notin Failing \union {"drop"}
      BY <2>2 DEF FailWorker, Failing
    <2> QED
      BY <2>1, <2>2
  <1> QED
    BY <1>2, <1>3 DEF FailInv

\* Nobody deletes.
LEMMA FailBudget ==
  ASSUME IInv, budget["delete"] = 0, [Next]_vars
  PROVE  budget'["delete"] = 0 /\ ~Spend("delete")
  <1>1. ~Spend("delete")
    BY DEF Spend
  <1>2. budget' = budget \/ \E d \in {"edit", "touch", "fault", "crash", "relist"} : Spend(d)
    <2>1. CASE \E w \in Workers : Step(w)
      BY <2>1, ZenonT(30)
         DEF Step, TakeItem, MetaGet, MetaUpdate, ReceivedGet, ReceivedUpdate, DropStores,
             BuildStore, AppendStore, DoneGet, DoneUpdate, FailGet, FailUpdate, FinalUpdate,
             FinishItem, GetResource, CallFails, AnswerLost
    <2>2. CASE \E n \in Names : Touch(n) \/ Delete(n)
      BY <1>1, <2>2 DEF Touch, Delete
    <2>3. CASE \/ \E n \in Names, u \in UIDs, c \in Configs : Create(n, u, c)
               \/ \E n \in Names, c \in Configs : EditSpec(n, c)
               \/ Deliver
               \/ \E k \in 0..Len(stream) : Relist(k)
               \/ Restart
               \/ UNCHANGED vars
      BY <2>3 DEF Create, EditSpec, Deliver, Relist, Restart, vars, ctlVars
    <2> QED
      BY <2>1, <2>2, <2>3 DEF Next
  <1>3. budget \in [Disturbances -> Nat]
    BY DEF IInv, TypeOK
  <1>4. ASSUME NEW d \in {"edit", "touch", "fault", "crash", "relist"}, Spend(d)
        PROVE  budget'["delete"] = budget["delete"]
    BY <1>3, <1>4 DEF Spend, Disturbances
  <1> QED
    BY <1>1, <1>2, <1>4

\* A step of a handler, to step s, that writes no Failed condition.
LEMMA FailMove ==
  ASSUME IInv, FailInv, budget'["delete"] = 0,
         NEW w \in Workers, NEW s, Goto(w, s), specs' = specs, Lasting,
         \A v \in Workers \ {w} : res'[v] = res[v] /\ holding'[v] = holding[v],
         \A n \in Names : obj'[n] # Absent =>
           obj[n] # Absent /\ obj'[n].conds["Failed"] = obj[n].conds["Failed"],
         s \in Failing \union {"drop"} => FailWorker(w)'
  PROVE  FailInv'
  <1>1. Extended
    BY DEF Extended, IInv, TypeOK
  <1>2. pc'[w] = s /\ \A v \in Workers \ {w} : pc'[v] = pc[v]
    BY DEF Goto, IInv, TypeOK
  <1>3. FailWorker(w)'
    BY <1>2 DEF FailWorker, Failing
  <1>4. \A n \in Names : FailName(n)'
            \/ (obj[n] # Absent /\ obj'[n].conds["Failed"] = obj[n].conds["Failed"])
    BY DEF FailName
  <1> QED
    BY <1>1, <1>2, <1>3, <1>4, FailFrame

\* What a worker writes on n, and the Failed condition it leaves.
LEMMA WriteFailed ==
  ASSUME IInv, NEW w \in Workers, NEW o \in Object, WriteResource(w, o),
         o.uid = obj[NameOf(w)].uid
  PROVE  /\ NameOf(w) \in Names /\ obj[NameOf(w)] \in Object /\ obj[NameOf(w)] # Absent
         /\ obj'[NameOf(w)] = o /\ \A n \in Names \ {NameOf(w)} : obj'[n] = obj[n]
         /\ Lasting
  <1>1. NameOf(w) \in Names /\ obj[NameOf(w)] \in Object /\ obj[NameOf(w)] # Absent
    BY FreshObject, SentinelAssumption DEF WriteResource
  <1>2. obj'[NameOf(w)] = o /\ \A n \in Names \ {NameOf(w)} : obj'[n] = obj[n]
    BY <1>1 DEF WriteResource, IInv, TypeOK
  <1>3. o # Absent
    BY SentinelAssumption
  <1> QED
    BY <1>1, <1>2, <1>3 DEF Lasting

\* A handler ends after a call that failed.
LEMMA RefusedFail ==
  ASSUME IInv, FailInv, budget'["delete"] = 0, NEW w \in Workers, NEW r, CallFails(w, r)
  PROVE  FailInv'
  <1>1. Lasting
    BY DEF CallFails, Lasting
  <1> QED
    BY <1>1, FailMove DEF CallFails, wqVars, Failing

\* The calls of a handler that read, and the labels it writes.
LEMMA GetsFail ==
  ASSUME IInv, FailInv, budget'["delete"] = 0, NEW w \in Workers,
         MetaGet(w) \/ ReceivedGet(w) \/ DoneGet(w) \/ FailGet(w)
  PROVE  FailInv'
  <1>1. CASE \E r : CallFails(w, r)
    BY <1>1, RefusedFail
  <1>2. ASSUME NEW s, Goto(w, s), s # "drop", s \in Failing => pc[w] = "failGet",
               UNCHANGED <<wqVars, specs, obj, res>>
        PROVE  FailInv'
    <2>1. Lasting
      BY <1>2 DEF Lasting
    <2>2. holding' = holding
      BY <1>2 DEF wqVars
    <2>3. s \in Failing => FailWorker(w)'
      BY <1>2, <2>2 DEF FailInv, FailWorker, Failing, NameOf, Goto, IInv, TypeOK
    <2> QED
      BY <1>2, <2>1, <2>2, <2>3, FailMove
  <1> QED
    BY <1>1, <1>2 DEF MetaGet, ReceivedGet, DoneGet, FailGet, GetResource, Failing

\* A write that leaves the Failed condition alone, on the way to step s.
LEMMA WriteKeepsFailed ==
  ASSUME IInv, FailInv, budget'["delete"] = 0, NEW w \in Workers, NEW o \in Object,
         WriteResource(w, o), o.uid = obj[NameOf(w)].uid,
         o.conds["Failed"] = obj[NameOf(w)].conds["Failed"],
         NEW s, Goto(w, s), UNCHANGED <<wqVars, specs>>,
         \A v \in Workers \ {w} : res'[v] = res[v],
         s \in Failing \union {"drop"} => FailWorker(w)'
  PROVE  FailInv'
  <1>1. \A n \in Names : obj'[n] # Absent =>
          obj[n] # Absent /\ obj'[n].conds["Failed"] = obj[n].conds["Failed"]
    BY WriteFailed
  <1>2. Lasting /\ holding' = holding
    BY WriteFailed DEF wqVars
  <1> QED
    BY <1>1, <1>2, FailMove

LEMMA MetaFail ==
  ASSUME IInv, FailInv, budget'["delete"] = 0, NEW w \in Workers, MetaUpdate(w)
  PROVE  FailInv'
  <1> DEFINE o == [obj[NameOf(w)] EXCEPT !.labelled = TRUE]
  <1>1. fresh[w] => /\ o \in Object /\ o.uid = obj[NameOf(w)].uid
                    /\ o.conds["Failed"] = obj[NameOf(w)].conds["Failed"]
    BY FreshObject DEF Object
  <1> HIDE DEF o
  <1>2. CASE CallFails(w, ~fresh[w])
    BY <1>2, RefusedFail
  <1>3. ASSUME fresh[w], WriteResource(w, o), NEW s \in {"recvGet", "return"}, Goto(w, s),
               UNCHANGED <<wqVars, specs, res>>
        PROVE  FailInv'
    BY <1>1, <1>3, WriteKeepsFailed DEF Failing
  <1>4. ASSUME Goto(w, "recvGet"), UNCHANGED <<wqVars, specs, obj, res>> PROVE FailInv'
    <2>1. Lasting /\ holding' = holding
      BY <1>4 DEF Lasting, wqVars
    <2> QED
      BY <1>4, <2>1, FailMove DEF Failing
  <1> QED
    BY <1>2, <1>3, <1>4 DEF MetaUpdate, AnswerLost, o

\* A status write as an object that replaces the one there is.
LEMMA StatusObject ==
  ASSUME IInv, NEW w \in Workers, NEW k, NameOf(w) = k, NEW t \in Types, NEW b \in BOOLEAN,
         NEW o, o = StatusSet(obj[k], t, b), WriteResource(w, o)
  PROVE  /\ k \in Names /\ obj[k] # Absent /\ o \in Object /\ o # Absent /\ o.uid = obj[k].uid
         /\ obj'[k] = o /\ (\A n \in Names \ {k} : obj'[n] = obj[n]) /\ Lasting
         /\ t # "Failed" => o.conds["Failed"] = obj[k].conds["Failed"]
         /\ t = "Failed" => o.conds["Failed"].gen = Len(specs[obj[k].uid])
  <1>1. /\ k \in Names /\ obj[k] # Absent /\ o \in Object /\ o.uid = obj[k].uid
        /\ obj'[k].conds[t] = [status |-> b, gen |-> Generation(obj[k].uid)]
        /\ \A x \in Types \ {t} : obj'[k].conds[x] = obj[k].conds[x]
    BY StatusWritten
  <1>2. obj'[k] = o /\ (\A n \in Names \ {k} : obj'[n] = obj[n]) /\ Lasting /\ o # Absent
    BY <1>1, WriteFailed, SentinelAssumption
  <1> QED
    BY <1>1, <1>2 DEF Generation, Types

\* The first status write: it returns the configuration that is then found empty
\* or handled.
LEMMA ReceivedFail ==
  ASSUME IInv, OwnerInv, FailInv, budget'["delete"] = 0, NEW w \in Workers, ReceivedUpdate(w)
  PROVE  FailInv'
  <1>1. PICK k : NameOf(w) = k
    OBVIOUS
  <1>2. PICK o : o = StatusSet(obj[k], "Processed", FALSE)
    OBVIOUS
  <1>3. ASSUME WriteResource(w, o)
        PROVE  /\ k \in Names /\ obj[k] # Absent /\ o \in Object /\ o # Absent
               /\ o.uid = obj[k].uid /\ obj'[k] = o
               /\ o.conds["Failed"] = obj[k].conds["Failed"]
    <2>1. \A b \in BOOLEAN, t \in Types : t = "Processed" /\ o = StatusSet(obj[k], t, b) =>
            /\ k \in Names /\ obj[k] # Absent /\ o \in Object /\ o # Absent
            /\ o.uid = obj[k].uid /\ obj'[k] = o
            /\ o.conds["Failed"] = obj[k].conds["Failed"]
      BY <1>1, <1>3, StatusObject
    <2>2. "Processed" \in Types /\ FALSE \in BOOLEAN
      BY DEF Types
    <2> QED
      BY <1>2, <2>1, <2>2, Zenon
  <1>4. CASE CallFails(w, ~fresh[w])
    BY <1>4, RefusedFail
  <1>5. CASE AnswerLost(w, o)
    BY <1>1, <1>3, <1>5, WriteKeepsFailed DEF AnswerLost, Failing
  <1>6. ASSUME WriteResource(w, o), res' = [res EXCEPT ![w] = Current(k)],
               UNCHANGED <<wqVars, specs>>,
               NEW s, Goto(w, s),
               s = IF Configuration(Current(k)) = EmptyConfig THEN "failGet" ELSE "drop"
        PROVE  FailInv'
    <2>1. /\ pc'[w] = s /\ NameOf(w)' = k /\ res'[w] = Current(k)
          /\ \A v \in Workers \ {w} : res'[v] = res[v]
      BY <1>1, <1>6 DEF Goto, NameOf, wqVars, IInv, TypeOK
    <2>2. ASSUME s = "failGet" PROVE UnusableUpTo(specs[obj[k].uid], Len(specs[obj[k].uid]))
      <3>1. specs[obj[k].uid][Len(specs[obj[k].uid])] = EmptyConfig
        BY <1>6, <2>2 DEF Configuration, Current, Generation
      <3>2. obj[k].uid \in UIDs /\ Len(specs[obj[k].uid]) >= 1
        BY <1>3, <1>6, CurrentType DEF OwnerInv, Generation, IInv
      <3>3. Len(specs[obj[k].uid]) \in Nat
        BY <3>2 DEF IInv, TypeOK
      <3> QED
        BY <3>1, <3>2, <3>3 DEF UnusableUpTo
    <2>3. res'[w].uid = obj'[k].uid
      BY <1>3, <1>6, <2>1 DEF Current
    <2>4. FailWorker(w)'
      BY <1>3, <1>6, <2>1, <2>2, <2>3 DEF FailWorker, Failing
    <2> QED
      BY <1>1, <1>3, <1>6, <2>1, <2>4, WriteKeepsFailed
  <1> QED
    BY <1>1, <1>2, <1>4, <1>5, <1>6 DEF ReceivedUpdate

\* The last status write.
LEMMA FinalFail ==
  ASSUME IInv, FailInv, budget'["delete"] = 0, NEW w \in Workers,
         DoneUpdate(w) \/ FailUpdate(w)
  PROVE  FailInv'
  <1>1. PICK k : NameOf(w) = k
    OBVIOUS
  <1>2. CASE CallFails(w, ~fresh[w])
    BY <1>2, RefusedFail
  <1>3. ASSUME NEW t \in Types, NEW b \in BOOLEAN, NEW o, o = StatusSet(obj[k], t, b),
               WriteResource(w, o), t = "Failed" => pc[w] = "failUpdate",
               Goto(w, "return"), UNCHANGED <<wqVars, specs, res>>
        PROVE  FailInv'
    <2>1. /\ k \in Names /\ obj[k] # Absent /\ o \in Object /\ o # Absent /\ o.uid = obj[k].uid
          /\ obj'[k] = o /\ (\A n \in Names \ {k} : obj'[n] = obj[n]) /\ Lasting
          /\ t # "Failed" => o.conds["Failed"] = obj[k].conds["Failed"]
          /\ t = "Failed" => o.conds["Failed"].gen = Len(specs[obj[k].uid])
      BY <1>1, <1>3, StatusObject
    <2>2. CASE t # "Failed"
      BY <1>1, <1>3, <2>1, <2>2, WriteKeepsFailed DEF Failing
    <2>3. CASE t = "Failed"
      <3>1. UnusableUpTo(specs[obj[k].uid], Len(specs[obj[k].uid]))
        BY <1>1, <1>3, <2>3 DEF FailInv, FailWorker, Failing
      <3>2. FailName(k)'
        BY <1>3, <2>1, <2>3, <3>1 DEF FailName
      <3>3. \A n \in Names \ {k} : FailName(n)'
        BY <1>3, <2>1 DEF FailInv, FailName
      <3>4. \A n \in Names : FailName(n)'
        BY <3>2, <3>3
      <3>5. pc'[w] = "return" /\ \A v \in Workers \ {w} : pc'[v] = pc[v]
        BY <1>3 DEF Goto, IInv, TypeOK
      <3>6. FailWorker(w)' /\ holding' = holding /\ Extended
        BY <1>3, <3>5 DEF FailWorker, Failing, wqVars, Extended, IInv, TypeOK
      <3> QED
        BY <1>3, <2>1, <3>4, <3>5, <3>6, FailFrame DEF FailInv
    <2> QED
      BY <2>2, <2>3
  <1>4. ASSUME NEW t \in Types, t = "Failed" => pc[w] = "failUpdate",
               WriteResource(w, StatusSet(obj[k], t, TRUE)), Goto(w, "return"),
               UNCHANGED <<wqVars, specs, res>>
        PROVE  FailInv'
    <2>1. PICK o : o = StatusSet(obj[k], t, TRUE)
      OBVIOUS
    <2>2. WriteResource(w, o) /\ TRUE \in BOOLEAN
      BY <1>4, <2>1
    <2>3. \A b \in BOOLEAN : o = StatusSet(obj[k], t, b) => FailInv'
      BY <1>3, <1>4, <2>2
    <2> QED
      BY <2>1, <2>2, <2>3, Zenon
  <1> QED
    BY <1>1, <1>2, <1>4 DEF DoneUpdate, FailUpdate, FinalUpdate, AnswerLost, Types

\* dropStores, and the failure to parse after it.
LEMMA DropFail ==
  ASSUME IInv, OwnerInv, FailInv, budget'["delete"] = 0, NEW w \in Workers, DropStores(w)
  PROVE  FailInv'
  <1> DEFINE k == NameOf(w)
             s == AfterDrop(w)
  <1>1. Goto(w, s) /\ UNCHANGED <<specs, obj, res, holding>> /\ Lasting /\ pc[w] = "drop"
    BY DEF DropStores, wqVars, Lasting
  <1>2. pc'[w] = s /\ NameOf(w)' = k
    BY <1>1 DEF Goto, NameOf, IInv, TypeOK
  <1>3. s \in {"doneGet", "build", "failGet"} /\ (s = "failGet" => Configuration(res[w]) \in BadConfigs)
    BY DEF AfterDrop
  <1>4. obj[k] # Absent /\ res[w].uid = obj[k].uid
    BY <1>1 DEF FailInv, FailWorker, Failing
  <1>5. res[w].gen \in 1..Len(specs[res[w].uid])
    <2>1. res[w].gen \in 0..Generation(res[w].uid) /\ res[w].gen >= 1
      BY <1>1, BuiltResource DEF OwnerInv, OwnerWorker
    <2> QED
      BY <2>1 DEF Generation
  <1>6. s = "failGet" => UnusableUpTo(specs[obj[k].uid], Len(specs[obj[k].uid]))
    BY <1>3, <1>4, <1>5 DEF Configuration, UnusableUpTo
  <1> HIDE DEF s
  <1>7. FailWorker(w)'
    BY <1>1, <1>2, <1>3, <1>4, <1>6 DEF FailWorker, Failing
  <1> QED
    BY <1>1, <1>7, FailMove

\* The other steps of a worker.
LEMMA TurnFail ==
  ASSUME IInv, FailInv, budget'["delete"] = 0, NEW w \in Workers,
         TakeItem(w) \/ BuildStore(w) \/ AppendStore(w) \/ FinishItem(w)
  PROVE  FailInv'
  <1>1. specs' = specs /\ obj' = obj /\ Lasting
    BY DEF TakeItem, BuildStore, AppendStore, FinishItem, Lasting
  <1>2. PICK s : Goto(w, s) /\ s \notin Failing \union {"drop"}
    BY DEF TakeItem, BuildStore, AppendStore, FinishItem, Failing
  <1>3. \A v \in Workers \ {w} : res'[v] = res[v]
    BY DEF TakeItem, BuildStore, AppendStore, FinishItem, IInv, TypeOK
  <1>4. \A v \in Workers \ {w} : holding'[v] = holding[v]
    BY DEF TakeItem, BuildStore, AppendStore, FinishItem, Get, Done, wqVars, IInv, TypeOK, WQTypeOK
  <1> QED
    BY <1>1, <1>2, <1>3, <1>4, FailMove

\* A resource is created without conditions.
LEMMA CreateFail ==
  ASSUME IInv, OwnerInv, FailInv, budget'["delete"] = 0,
         NEW n \in Names, NEW u \in UIDs, NEW c \in Configs, Create(n, u, c)
  PROVE  FailInv'
  <1>1. Extended
    BY FirstConfiguration, ExtendedBy
  <1>2. /\ obj'[n] = [uid |-> u, labelled |-> FALSE, conds |-> [t \in Types |-> Nothing]]
        /\ \A m \in Names \ {n} : obj'[m] = obj[m]
    BY DEF Create, IInv, TypeOK
  <1>3. obj[n] = Absent /\ UNCHANGED <<pc, res, holding>>
    BY DEF Create, wqVars, workerVars
  <1>4. Lasting
    BY <1>2, <1>3 DEF Lasting
  <1>5. obj'[n].conds["Failed"] = Nothing
    BY <1>2 DEF Types
  <1>6. FailName(n)'
    BY <1>5 DEF FailName
  <1>7. ASSUME NEW m \in Names \ {n}
        PROVE  FailName(m)' \/ (obj[m] # Absent /\ obj'[m].conds["Failed"] = obj[m].conds["Failed"])
    BY <1>2 DEF FailName
  <1> QED
    BY <1>1, <1>3, <1>4, <1>6, <1>7, FailFrame

\* A step that leaves the resources and the workers alone, but for a new
\* configuration.
LEMMA OutsideFail ==
  ASSUME IInv, FailInv, budget'["delete"] = 0, Extended, UNCHANGED <<obj, pc, res, holding>>
  PROVE  FailInv'
  <1>1. Lasting
    BY DEF Lasting
  <1>2. \A n \in Names : FailName(n)'
          \/ (obj[n] # Absent /\ obj'[n].conds["Failed"] = obj[n].conds["Failed"])
    BY DEF FailName
  <1> QED
    BY <1>1, <1>2, FailFrame

LEMMA NextFail ==
  ASSUME IInv, OwnerInv, FailInv, [Next]_vars
  PROVE  FailInv'
  <1>1. budget'["delete"] = 0 /\ ~Spend("delete")
    BY FailBudget DEF FailInv
  <1>2. ASSUME specs' = specs PROVE Extended
    BY <1>2 DEF Extended, IInv, TypeOK
  <1>3. CASE \E n \in Names, u \in UIDs, c \in Configs : Create(n, u, c)
    BY <1>1, <1>3, CreateFail
  <1>4. ASSUME NEW n \in Names, NEW c \in Configs, EditSpec(n, c) PROVE FailInv'
    <2>1. Extended
      BY <1>4, CurrentType, ExtendedBy DEF EditSpec, IInv
    <2> QED
      BY <1>1, <1>4, <2>1, OutsideFail DEF EditSpec, workerVars, wqVars
  <1>5. CASE \E n \in Names : Touch(n) \/ Delete(n)
    BY <1>1, <1>2, <1>5, OutsideFail DEF Touch, Delete, workerVars, wqVars
  <1>6. CASE Deliver
    <2>1. holding' = holding
      BY <1>6 DEF Deliver, OnChange, OnDelete, enqueueCRDMetrics, Add, wqVars
    <2> QED
      BY <1>1, <1>2, <1>6, <2>1, OutsideFail DEF Deliver, workerVars
  <1>7. CASE \E k \in 0..Len(stream) : Relist(k)
    BY <1>1, <1>2, <1>7, OutsideFail DEF Relist, workerVars, wqVars
  <1>8. CASE \E w \in Workers : Step(w)
    BY <1>1, <1>8, GetsFail, MetaFail, ReceivedFail, FinalFail, DropFail, TurnFail DEF Step
  <1>9. CASE Restart
    <2>1. obj' = obj /\ specs' = specs /\ Lasting /\ \A w \in Workers : pc'[w] = "idle"
      BY <1>9 DEF Restart, Lasting
    <2>2. \A w \in Workers : FailWorker(w)'
      BY <2>1 DEF FailWorker, Failing
    <2>3. \A n \in Names : FailName(n)'
      BY <2>1 DEF FailInv, FailName
    <2> QED
      BY <1>1, <2>2, <2>3 DEF FailInv
  <1>10. CASE UNCHANGED vars
    BY <1>1, <1>2, <1>10, OutsideFail DEF vars, ctlVars, wqVars
  <1> QED
    BY <1>3, <1>4, <1>5, <1>6, <1>7, <1>8, <1>9, <1>10 DEF Next

(***************************************************************************)
(* A Failed condition is the trace of a configuration that could not be    *)
(* processed, for any number of workers, resources, edits, foreign writes, *)
(* failing calls, broken watches and restarts, as long as nothing is       *)
(* deleted: emitFailureOnResource reads the resource by name, so after a   *)
(* deletion it may find one of that name with another history.             *)
(***************************************************************************)
THEOREM CtlFailedExplained ==
  ASSUME Budget["delete"] = 0
  PROVE  Spec => []FailedExplained
  <1>1. Init => FailInv
    BY DEF Init, FailInv, FailName, FailWorker, Failing
  <1>2. IInv /\ OwnerInv /\ FailInv /\ [Next]_vars => FailInv'
    BY NextFail
  <1>3. ServedInv => IInv /\ OwnerInv
    BY DEF ServedInv
  <1>4. FailInv => FailedExplained
    BY DEF FailInv, FailName, FailedExplained, UnusableUpTo, Listed, Generation
  <1> QED
    BY <1>1, <1>2, <1>3, <1>4, CtlServedInvariant, PTL DEF Spec
=============================================================================
