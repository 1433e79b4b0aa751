---------------------------- MODULE ServedProofs ----------------------------
(***************************************************************************)
(* A resource that nobody disturbs ends up served, for every number of     *)
(* workers, every set of resources and configurations and any number of    *)
(* disturbances of the other resources, of the watch and of the process.   *)
(***************************************************************************)
EXTENDS ControllerProofs

(***************************************************************************)
(* Of all resources and workers: a UID belongs to one resource for good, a *)
(* worker builds for the resource its item names, and nothing was built of *)
(* a UID that was never given away.                                        *)
(***************************************************************************)
OwnerWorker(w) ==
  /\ pc[w] \in {"idle", "metaGet", "metaUpdate", "recvGet", "recvUpdate", "drop"} => built[w] = 0
  /\ pc[w] \in {"drop", "build", "append"} =>
       /\ res[w].gen >= 1
       /\ \A n \in Names : obj[n] # Absent /\ obj[n].uid = res[w].uid => NameOf(w) = n

OwnerInv ==
  /\ ~shuttingDown
  /\ \A n \in Names : obj[n] # Absent => Generation(obj[n].uid) >= 1
  /\ \A n, k \in Names :
       obj[n] # Absent /\ obj[k] # Absent /\ obj[n].uid = obj[k].uid => n = k
  /\ \A u \in UIDs : Generation(u) = 0 => stores[u] = <<>>
  /\ \A w \in Workers : OwnerWorker(w)

Unusable(n) == Configuration(Current(n)) \in BadConfigs \union {EmptyConfig}
About(n) == \E i \in 1..Len(stream) : stream[i].name = n
Marked(n) == \E e \in Events : <<n, e>> \in dirty
NoStoresOf(n) == stores[obj[n].uid] = <<>>
BeingProcessed(n) == obj[n].conds["Processed"] = [status |-> FALSE, gen |-> Generation(obj[n].uid)]

\* What worker w, in the handler of n, has done so far.
Progress(w, n) ==
  /\ pc[w] \in {"metaGet", "metaUpdate", "recvGet", "recvUpdate"} => NoStoresOf(n)
  /\ pc[w] \in {"metaUpdate", "recvUpdate", "doneUpdate", "failUpdate"} => fresh[w]
  /\ pc[w] \in {"drop", "build", "append"} =>
       res[w] = Current(n) /\ Configuration(Current(n)) # EmptyConfig
  /\ pc[w] \in {"drop", "failGet", "failUpdate"} => BeingProcessed(n)
  /\ pc[w] \in {"build", "append"} =>
       /\ ~Unusable(n)
       /\ BuiltUpTo(obj[n].uid, Generation(obj[n].uid), built[w])
       /\ built[w] < StoreCount[Configuration(Current(n))]
  /\ pc[w] = "append" => old[w] = stores[obj[n].uid]
  /\ pc[w] \in {"doneGet", "doneUpdate"} => ~Unusable(n) /\ Reconciled(n)
  /\ pc[w] \in {"failGet", "failUpdate"} => Unusable(n) /\ Reconciled(n)
  /\ pc[w] = "return" => Reconciled(n) /\ OutcomeTold(n)

\* The informer and the queue have n once: one add event, handled by one worker.
CalmOnce(n) ==
  /\ \A i \in 1..Len(stream) :
       stream[i].name = n => stream[i] = [type |-> "Changed", name |-> n, ver |-> Current(n)]
  /\ cache[n] = Nothing \/ cache[n] = Current(n)
  /\ \A e \in Events : <<n, e>> \in dirty => e = "addEvent"
  /\ Marked(n) => cache[n] # Nothing /\ NoStoresOf(n)
  /\ \A w \in Workers : Handles(w, n) =>
       ~Marked(n) /\ cache[n] # Nothing /\ holding[w] = <<n, "addEvent">> /\ Progress(w, n)

\* While no worker has n, it waits for its add event or is served.
CalmRest(n) ==
  IF cache[n] = Nothing
  THEN About(n) /\ NoStoresOf(n)
  ELSE Marked(n) \/ (Reconciled(n) /\ OutcomeTold(n))

CalmName(n) ==
  IF obj[n] = Absent
  THEN cache[n] = Nothing /\ ~About(n) /\ ~Marked(n) /\ \A w \in Workers : ~Handles(w, n)
  ELSE CalmOnce(n) /\ ((\A w \in Workers : ~Handles(w, n)) => CalmRest(n))

\* Before the first disturbance, only what exists is served.
DeadInv == calm = Names => \A u \in UIDs \ Live : stores[u] = <<>>

CalmInv == (\A n \in calm : CalmName(n)) /\ DeadInv

ServedInv == IInv /\ OwnerInv /\ CalmInv

-----------------------------------------------------------------------------
(* Steps that leave a resource alone.                                      *)

SameResource(n) ==
  /\ obj'[n] = obj[n]
  /\ obj[n] # Absent => /\ specs'[obj[n].uid] = specs[obj[n].uid]
                        /\ stores'[obj[n].uid] = stores[obj[n].uid]

\* What comes new in the stream about n is its version now.
SameInformer(n) ==
  /\ cache'[n] = cache[n]
  /\ \A i \in 1..Len(stream') : stream'[i].name = n =>
       \/ \E j \in 1..Len(stream) : stream[j] = stream'[i]
       \/ obj[n] # Absent /\ stream'[i] = [type |-> "Changed", name |-> n, ver |-> Current(n)]
  /\ cache[n] = Nothing /\ About(n) => About(n)'
  /\ \A e \in Events : <<n, e>> \in dirty' <=> <<n, e>> \in dirty

SameHandlers(n) ==
  \A w \in Workers :
    /\ Handles(w, n)' <=> Handles(w, n)
    /\ Handles(w, n) =>
         /\ holding'[w] = holding[w] /\ pc'[w] = pc[w]
         /\ fresh'[w] <=> fresh[w]
         /\ res'[w] = res[w] /\ built'[w] = built[w] /\ old'[w] = old[w]

Same(n) == SameResource(n) /\ SameInformer(n) /\ SameHandlers(n)

\* What is said of a resource alone.
LEMMA SameState ==
  ASSUME NEW n \in Names, obj[n] # Absent, SameResource(n)
  PROVE  /\ Current(n)' = Current(n)
         /\ Generation(obj[n].uid)' = Generation(obj[n].uid)
         /\ Configuration(Current(n))' = Configuration(Current(n))
         /\ Unusable(n)' <=> Unusable(n)
         /\ NoStoresOf(n)' <=> NoStoresOf(n)
         /\ BeingProcessed(n)' <=> BeingProcessed(n)
         /\ Reconciled(n)' <=> Reconciled(n)
         /\ OutcomeTold(n)' <=> OutcomeTold(n)
         /\ \A g, m : BuiltUpTo(obj[n].uid, g, m)' <=> BuiltUpTo(obj[n].uid, g, m)
  <1>1. obj'[n] = obj[n] /\ specs'[obj[n].uid] = specs[obj[n].uid] /\ stores'[obj[n].uid] = stores[obj[n].uid]
    BY DEF SameResource
  <1>2. Current(n)' = Current(n) /\ Generation(obj[n].uid)' = Generation(obj[n].uid)
    BY <1>1 DEF Current, Generation
  <1>3. Current(n).uid = obj[n].uid
    BY DEF Current
  <1>4. Configuration(Current(n))' = Configuration(Current(n))
    BY <1>1, <1>2, <1>3 DEF Configuration
  <1>5. Unusable(n)' <=> Unusable(n)
    BY <1>4 DEF Unusable
  <1>6. (NoStoresOf(n)' <=> NoStoresOf(n)) /\ (BeingProcessed(n)' <=> BeingProcessed(n))
    BY <1>1, <1>2 DEF NoStoresOf, BeingProcessed
  <1>7. Reconciled(n)' <=> Reconciled(n)
    BY <1>1, <1>4 DEF Reconciled
  <1>8. OutcomeTold(n)' <=> OutcomeTold(n)
    BY <1>1, <1>2, <1>4 DEF OutcomeTold
  <1>9. \A g, m : BuiltUpTo(obj[n].uid, g, m)' <=> BuiltUpTo(obj[n].uid, g, m)
    BY <1>1 DEF BuiltUpTo
  <1> QED
    BY <1>2, <1>4, <1>5, <1>6, <1>7, <1>8, <1>9

LEMMA SameMarks ==
  ASSUME NEW n \in Names, \A e \in Events : <<n, e>> \in dirty' <=> <<n, e>> \in dirty
  PROVE  Marked(n)' <=> Marked(n)
  BY DEF Marked

\* The version that a worker of n builds from.
LEMMA SameProgress ==
  ASSUME NEW n \in Names, NEW w \in Workers, obj[n] # Absent,
         SameResource(n), SameHandlers(n), Handles(w, n), Progress(w, n)
  PROVE  Progress(w, n)'
  <1>1. /\ pc'[w] = pc[w] /\ (fresh'[w] <=> fresh[w])
        /\ res'[w] = res[w] /\ built'[w] = built[w] /\ old'[w] = old[w]
    BY DEF SameHandlers
  <1>2. obj'[n] = obj[n] /\ stores'[obj[n].uid] = stores[obj[n].uid]
    BY DEF SameResource
  <1>3. /\ Current(n)' = Current(n)
        /\ Generation(obj[n].uid)' = Generation(obj[n].uid)
        /\ Configuration(Current(n))' = Configuration(Current(n))
        /\ Unusable(n)' <=> Unusable(n)
        /\ NoStoresOf(n)' <=> NoStoresOf(n)
        /\ BeingProcessed(n)' <=> BeingProcessed(n)
        /\ Reconciled(n)' <=> Reconciled(n)
        /\ OutcomeTold(n)' <=> OutcomeTold(n)
        /\ BuiltUpTo(obj[n].uid, Generation(obj[n].uid), built[w])'
             <=> BuiltUpTo(obj[n].uid, Generation(obj[n].uid), built[w])
    <2>1. \A g, m : BuiltUpTo(obj[n].uid, g, m)' <=> BuiltUpTo(obj[n].uid, g, m)
      BY SameState
    <2>2. Generation(obj[n].uid)' = Generation(obj[n].uid)
      BY SameState
    <2>3. BuiltUpTo(obj[n].uid, Generation(obj[n].uid), built[w])'
             <=> BuiltUpTo(obj[n].uid, Generation(obj[n].uid), built[w])
      BY <1>1, <1>2, <2>2 DEF BuiltUpTo
    <2> QED
      BY <2>3, SameState
  <1> QED
    BY <1>1, <1>2, <1>3, Zenon DEF Progress

\* A resource that a step leaves alone stays served.
LEMMA Untouched ==
  ASSUME NEW n \in Names, CalmName(n), Same(n)
  PROVE  CalmName(n)'
  <1>1. Marked(n)' <=> Marked(n)
    BY SameMarks DEF Same, SameInformer
  <1>2. /\ obj'[n] = obj[n] /\ cache'[n] = cache[n]
        /\ \A w \in Workers : Handles(w, n)' <=> Handles(w, n)
        /\ cache[n] = Nothing /\ About(n) => About(n)'
    BY DEF Same, SameResource, SameInformer, SameHandlers
  <1>3. CASE obj[n] = Absent
    <2>1. cache[n] = Nothing /\ ~About(n) /\ ~Marked(n) /\ \A w \in Workers : ~Handles(w, n)
      BY <1>3 DEF CalmName
    <2>2. ~About(n)'
      BY <1>3, <2>1 DEF About, Same, SameInformer
    <2> QED
      BY <1>1, <1>2, <1>3, <2>1, <2>2 DEF CalmName
  <1>4. CASE obj[n] # Absent
    <2> USE <1>4
    <2>1. CalmOnce(n) /\ ((\A w \in Workers : ~Handles(w, n)) => CalmRest(n))
      BY DEF CalmName
    <2>2. /\ Current(n)' = Current(n)
          /\ NoStoresOf(n)' <=> NoStoresOf(n)
          /\ Reconciled(n)' <=> Reconciled(n)
          /\ OutcomeTold(n)' <=> OutcomeTold(n)
      BY SameState DEF Same
    <2>3. CalmRest(n) => CalmRest(n)'
      BY <1>1, <1>2, <2>2 DEF CalmRest
    <2>4. \A i \in 1..Len(stream') : stream'[i].name = n =>
             stream'[i] = [type |-> "Changed", name |-> n, ver |-> Current(n)']
      BY <2>1, <2>2 DEF CalmOnce, Same, SameInformer
    <2>5. \A w \in Workers : Handles(w, n)' =>
             /\ ~Marked(n)' /\ cache'[n] # Nothing
             /\ holding'[w] = <<n, "addEvent">> /\ Progress(w, n)'
      BY <1>1, <1>2, <2>1, SameProgress DEF CalmOnce, Same, SameHandlers
    <2>6. \A e \in Events : <<n, e>> \in dirty' => e = "addEvent"
      BY <2>1 DEF CalmOnce, Same, SameInformer
    <2>7. CalmOnce(n)'
      BY <1>1, <1>2, <2>1, <2>2, <2>4, <2>5, <2>6 DEF CalmOnce
    <2> QED
      BY <1>2, <2>1, <2>3, <2>7 DEF CalmName
  <1> QED
    BY <1>3, <1>4

\* The informer and the queue keep what they have of n while the stream grows.
LEMMA StreamGrows ==
  ASSUME stream \in Seq(Delta), NEW n \in Names,
         cache'[n] = cache[n],
         \A e \in Events : <<n, e>> \in dirty' <=> <<n, e>> \in dirty,
         \/ stream' = stream
         \/ \E d : /\ stream' = Append(stream, d)
                   /\ \/ d.name # n
                      \/ obj[n] # Absent /\ d = [type |-> "Changed", name |-> n, ver |-> Current(n)]
  PROVE  SameInformer(n)
  <1>1. CASE stream' = stream
    BY <1>1 DEF SameInformer, About
  <1>2. ASSUME NEW d, stream' = Append(stream, d),
               \/ d.name # n
               \/ obj[n] # Absent /\ d = [type |-> "Changed", name |-> n, ver |-> Current(n)]
        PROVE  SameInformer(n)
    <2>1. /\ Len(stream') = Len(stream) + 1 /\ Len(stream) \in Nat
          /\ \A i \in 1..Len(stream) : stream'[i] = stream[i]
          /\ stream'[Len(stream) + 1] = d
      BY <1>2
    <2>2. \A i \in 1..Len(stream') : i \in 1..Len(stream) \/ i = Len(stream) + 1
      BY <2>1
    <2>3. \A i \in 1..Len(stream) : i \in 1..Len(stream')
      BY <2>1
    <2>4. About(n) => About(n)'
      BY <2>1, <2>3 DEF About
    <2>5. \A i \in 1..Len(stream') : stream'[i].name = n =>
            \/ \E j \in 1..Len(stream) : stream[j] = stream'[i]
            \/ obj[n] # Absent /\ stream'[i] = [type |-> "Changed", name |-> n, ver |-> Current(n)]
      BY <1>2, <2>1, <2>2
    <2> QED
      BY <2>4, <2>5 DEF SameInformer
  <1> QED
    BY <1>1, <1>2

\* A write of another resource outdates none of the workers of n.
LEMMA OutdateOthers ==
  ASSUME fresh \in [Workers -> BOOLEAN], NEW n, NEW k, n # k, Outdate(k),
         NEW w \in Workers, Handles(w, n)
  PROVE  fresh'[w] <=> fresh[w]
  <1>1. ~Handles(w, k)
    BY DEF Handles
  <1>2. fresh'[w] = (fresh[w] /\ ~Handles(w, k))
    BY Zenon DEF Outdate
  <1> QED
    BY <1>1, <1>2, Zenon

\* A user's write of k leaves the other resources alone.
LEMMA UserWrite ==
  ASSUME IInv, NEW n \in Names, NEW k \in Names, n # k,
         SameResource(n), Outdate(k), NEW t, NEW v, Emit(t, k, v),
         UNCHANGED <<wqVars, cache, workerVars>>
  PROVE  Same(n)
  <1>1. SameInformer(n)
    <2>1. stream' = Append(stream, [type |-> t, name |-> k, ver |-> v])
      BY DEF Emit
    <2>2. [type |-> t, name |-> k, ver |-> v].name # n
      OBVIOUS
    <2>3. cache' = cache /\ dirty' = dirty
      BY DEF wqVars
    <2> QED
      BY <2>1, <2>2, <2>3, StreamGrows DEF IInv, TypeOK
  <1>2. SameHandlers(n)
    <2>1. UNCHANGED <<holding, pc, res, built, old>>
      BY DEF wqVars, workerVars
    <2>2. \A w \in Workers : Handles(w, n)' <=> Handles(w, n)
      BY <2>1 DEF Handles
    <2>3. \A w \in Workers : Handles(w, n) => (fresh'[w] <=> fresh[w])
      BY OutdateOthers DEF IInv, TypeOK
    <2> QED
      BY <2>1, <2>2, <2>3, Zenon DEF SameHandlers
  <1> QED
    BY <1>1, <1>2 DEF Same
-----------------------------------------------------------------------------
(* The steps of the API server's users.                                    *)

\* Nothing dies in a step that only adds resources.
LEMMA DeadFrame ==
  ASSUME DeadInv, stores' = stores, calm' = calm,
         \A m \in Names : obj[m] # Absent => obj'[m] # Absent /\ obj'[m].uid = obj[m].uid
  PROVE  DeadInv'
  <1>1. \A u \in Live : u \in Live'
    BY DEF Live, Listed
  <1> QED
    BY <1>1 DEF DeadInv

\* A resource was disturbed: nothing is said of what does not exist.
LEMMA DisturbedDead ==
  ASSUME NEW k \in Names, calm' = calm \ {k}
  PROVE  DeadInv' /\ \A n \in calm' : n \in calm /\ n # k
  BY DEF DeadInv

\* A UID that is given away was nobody's.
LEMMA FreshUID ==
  ASSUME IInv, OwnerInv, NEW u \in UIDs, specs[u] = <<>>
  PROVE  /\ Generation(u) = 0 /\ stores[u] = <<>>
         /\ \A m \in Names : obj[m] # Absent => obj[m].uid # u
         /\ \A w \in Workers : pc[w] \in {"drop", "build", "append"} => res[w].uid # u
  <1>1. Generation(u) = 0
    BY DEF Generation
  <1>2. stores[u] = <<>> /\ \A m \in Names : obj[m] # Absent => obj[m].uid # u
    BY <1>1 DEF OwnerInv
  <1>3. ASSUME NEW w \in Workers, pc[w] \in {"drop", "build", "append"} PROVE res[w].uid # u
    <2>1. res[w].gen >= 1 /\ res[w].gen \in 0..Generation(res[w].uid)
      BY <1>3, BuiltResource DEF OwnerInv, OwnerWorker
    <2> QED
      BY <1>1, <2>1
  <1> QED
    BY <1>1, <1>2, <1>3

LEMMA CreateOwner ==
  ASSUME IInv, OwnerInv, NEW n \in Names, NEW u \in UIDs, NEW c \in Configs, Create(n, u, c)
  PROVE  OwnerInv'
  <1>1. specs[u] = <<>> /\ obj[n] = Absent
    BY DEF Create
  <1>2. /\ Generation(u) = 0 /\ stores[u] = <<>>
        /\ \A m \in Names : obj[m] # Absent => obj[m].uid # u
        /\ \A w \in Workers : pc[w] \in {"drop", "build", "append"} => res[w].uid # u
    BY <1>1, FreshUID
  <1>3. /\ specs'[u] = <<c>>
        /\ \A x \in UIDs \ {u} : specs'[x] = specs[x]
        /\ obj'[n].uid = u
        /\ \A m \in Names \ {n} : obj'[m] = obj[m]
        /\ UNCHANGED <<wqVars, workerVars, sharedVars>>
    BY DEF Create, IInv, TypeOK
  <1>4. Generation(u)' = 1 /\ \A x \in UIDs \ {u} : Generation(x)' = Generation(x)
    BY <1>3 DEF Generation
  <1>5. \A m \in Names : obj'[m] # Absent =>
          \/ m = n /\ obj'[m].uid = u
          \/ m # n /\ obj[m] # Absent /\ obj'[m].uid = obj[m].uid /\ obj[m].uid \in UIDs \ {u}
    BY <1>2, <1>3, CurrentType DEF IInv
  <1>6. ASSUME NEW m \in Names, obj'[m] # Absent PROVE Len(specs'[obj'[m].uid]) >= 1
    <2>1. CASE m = n
      <3>1. Len(specs'[u]) = 1 /\ obj'[m].uid = u
        BY <1>3, <1>4, <2>1 DEF Generation
      <3>2. Len(specs'[obj'[m].uid]) = 1
        BY <3>1, Zenon
      <3> QED
        BY <3>2
    <2>2. CASE m # n
      BY <1>3, <1>5, <1>6, <2>2 DEF OwnerInv, Generation
    <2> QED
      BY <2>1, <2>2
  <1>7. \A m, k \in Names : obj'[m] # Absent /\ obj'[k] # Absent /\ obj'[m].uid = obj'[k].uid => m = k
    BY <1>5 DEF OwnerInv
  <1>8. \A x \in UIDs : Generation(x)' = 0 => stores'[x] = <<>>
    BY <1>2, <1>3, <1>4 DEF OwnerInv, sharedVars
  <1>9. ASSUME NEW w \in Workers PROVE OwnerWorker(w)'
    <2>1. OwnerWorker(w) /\ UNCHANGED <<pc, res, built, holding>>
      BY <1>3 DEF OwnerInv, workerVars, wqVars
    <2>2. pc[w] \in {"drop", "build", "append"} =>
            \A m \in Names : obj'[m] # Absent /\ obj'[m].uid = res[w].uid => NameOf(w) = m
      BY <1>2, <1>5, <2>1 DEF OwnerWorker
    <2> QED
      BY <2>1, <2>2 DEF OwnerWorker, NameOf
  <1> QED
    BY <1>3, <1>6, <1>7, <1>8, <1>9 DEF OwnerInv, wqVars, Generation

LEMMA CreateCalm ==
  ASSUME IInv, OwnerInv, CalmInv,
         NEW n \in Names, NEW u \in UIDs, NEW c \in Configs, Create(n, u, c)
  PROVE  CalmInv'
  <1>1. specs[u] = <<>> /\ obj[n] = Absent /\ calm' = calm
    BY DEF Create
  <1>2. stores[u] = <<>> /\ \A m \in Names : obj[m] # Absent => obj[m].uid # u
    BY <1>1, FreshUID
  <1>3. /\ specs'[u] = <<c>>
        /\ \A x \in UIDs \ {u} : specs'[x] = specs[x]
        /\ obj'[n].uid = u /\ obj'[n] # Absent
        /\ \A m \in Names \ {n} : obj'[m] = obj[m]
        /\ UNCHANGED <<wqVars, workerVars, sharedVars, cache>>
    <2>1. [uid |-> u, labelled |-> FALSE, conds |-> [t \in Types |-> Nothing]] \in Object
      BY DEF Object
    <2> QED
      BY <2>1, SentinelAssumption DEF Create, IInv, TypeOK
  <1>4. DeadInv'
    BY <1>1, <1>3, DeadFrame DEF CalmInv, sharedVars
  <1>5. ASSUME NEW m \in calm, m # n PROVE CalmName(m)'
    <2>1. m \in Names /\ CalmName(m)
      BY DEF CalmInv, IInv, TypeOK
    <2>2. SameResource(m)
      BY <1>2, <1>3, <1>5, <2>1, CurrentType DEF SameResource, sharedVars, IInv
    <2>3. Same(m)
      BY <1>3, <1>5, <2>1, <2>2, UserWrite DEF Create
    <2> QED
      BY <2>1, <2>3, Untouched
  <1>6. ASSUME n \in calm PROVE CalmName(n)'
    <2>1. cache[n] = Nothing /\ ~About(n) /\ ~Marked(n) /\ \A w \in Workers : ~Handles(w, n)
      BY <1>1, <1>6 DEF CalmInv, CalmName
    <2>2. Current(n)' = [uid |-> u, gen |-> 1]
      BY <1>3 DEF Current, Generation
    <2> DEFINE d == [type |-> "Changed", name |-> n, ver |-> [uid |-> u, gen |-> 1]]
    <2>3. stream' = Append(stream, d) /\ stream \in Seq(Delta)
      BY DEF Create, Emit, IInv, TypeOK
    <2>4. d.name = n
      OBVIOUS
    <2> HIDE DEF d
    <2>5. /\ Len(stream') = Len(stream) + 1 /\ Len(stream) \in Nat
          /\ \A i \in 1..Len(stream) : stream'[i] = stream[i]
          /\ stream'[Len(stream) + 1] = d
      BY <2>3
    <2>6. \A i \in 1..Len(stream') : stream'[i].name = n => stream'[i] = d
      BY <2>1, <2>5 DEF About
    <2>7. About(n)'
      <3>1. Len(stream) + 1 \in 1..Len(stream') /\ stream'[Len(stream) + 1].name = n
        BY <2>4, <2>5
      <3> QED
        BY <3>1 DEF About
    <2>8. ~Marked(n)' /\ (\A w \in Workers : ~Handles(w, n)') /\ cache'[n] = Nothing
      BY <1>3, <2>1 DEF Marked, Handles, wqVars
    <2>9. NoStoresOf(n)'
      BY <1>2, <1>3 DEF NoStoresOf, sharedVars
    <2>10. CalmOnce(n)'
      BY <2>2, <2>6, <2>8 DEF CalmOnce, Marked, d
    <2>11. CalmRest(n)'
      BY <2>7, <2>8, <2>9 DEF CalmRest
    <2> QED
      BY <1>3, <2>10, <2>11 DEF CalmName
  <1> QED
    BY <1>1, <1>4, <1>5, <1>6 DEF CalmInv

\* Resources keep their UIDs, and every worker is where it was or moves well.
LEMMA OwnerFrame ==
  ASSUME IInv, OwnerInv, Extended, SameIdentity, shuttingDown' = shuttingDown,
         \A u \in UIDs : Generation(u) = 0 => stores'[u] = <<>>,
         \A w \in Workers :
           \/ OwnerWorker(w)'
           \/ /\ pc'[w] = pc[w] /\ res'[w] = res[w] /\ built'[w] = built[w]
              /\ holding'[w] = holding[w]
  PROVE  OwnerInv'
  <1>1. ASSUME NEW m \in Names, obj'[m] # Absent PROVE Len(specs'[obj'[m].uid]) >= 1
    <2>1. obj[m] # Absent /\ obj'[m].uid = obj[m].uid
      BY <1>1 DEF SameIdentity
    <2>2. obj[m].uid \in UIDs /\ Len(specs[obj[m].uid]) >= 1
      BY <2>1, CurrentType DEF OwnerInv, Generation, IInv
    <2>3. Len(specs[obj[m].uid]) \in Nat /\ Len(specs'[obj[m].uid]) \in Nat
      BY <2>2 DEF Extended, IInv, TypeOK
    <2>4. Len(specs'[obj[m].uid]) >= 1
      BY <2>2, <2>3 DEF Extended
    <2> QED
      BY <2>1, <2>4
  <1>2. \A m, k \in Names : obj'[m] # Absent /\ obj'[k] # Absent /\ obj'[m].uid = obj'[k].uid => m = k
    BY DEF SameIdentity, OwnerInv
  <1>3. ASSUME NEW u \in UIDs, Len(specs'[u]) = 0 PROVE stores'[u] = <<>>
    <2>1. Len(specs[u]) \in Nat /\ Len(specs[u]) <= Len(specs'[u])
      BY DEF Extended, IInv, TypeOK
    <2> QED
      BY <1>3, <2>1 DEF Generation
  <1>4. ASSUME NEW w \in Workers PROVE OwnerWorker(w)'
    <2>1. CASE /\ pc'[w] = pc[w] /\ res'[w] = res[w] /\ built'[w] = built[w]
               /\ holding'[w] = holding[w]
      BY <2>1 DEF OwnerInv, OwnerWorker, NameOf, SameIdentity
    <2> QED
      BY <2>1
  <1> QED
    BY <1>1, <1>2, <1>3, <1>4 DEF OwnerInv, Generation

\* A user edits, touches or deletes a resource.
LEMMA UserServed ==
  ASSUME IInv, OwnerInv, CalmInv, NEW k \in Names,
         calm' = calm \ {k}, Extended, SameIdentity,
         \A m \in Names \ {k} : SameResource(m),
         Outdate(k), NEW t, NEW v, Emit(t, k, v),
         UNCHANGED <<wqVars, cache, workerVars, sharedVars>>
  PROVE  OwnerInv' /\ CalmInv'
  <1>1. OwnerInv'
    BY OwnerFrame DEF OwnerInv, wqVars, workerVars, sharedVars
  <1>2. ASSUME NEW m \in calm' PROVE CalmName(m)'
    <2>1. m \in Names /\ m # k /\ CalmName(m)
      BY <1>2, DisturbedDead DEF CalmInv, IInv, TypeOK
    <2>2. Same(m)
      BY <2>1, UserWrite
    <2> QED
      BY <2>1, <2>2, Untouched
  <1> QED
    BY <1>1, <1>2, DisturbedDead DEF CalmInv

LEMMA EditServed ==
  ASSUME IInv, OwnerInv, CalmInv, NEW k \in Names, NEW c \in Configs, EditSpec(k, c)
  PROVE  OwnerInv' /\ CalmInv'
  <1>1. obj[k] # Absent /\ obj[k].uid \in UIDs
    BY CurrentType DEF EditSpec, IInv
  <1>2. Extended
    BY <1>1, ExtendedBy DEF EditSpec
  <1>3. obj' = obj /\ UNCHANGED <<wqVars, cache, workerVars, sharedVars>>
    BY DEF EditSpec
  <1>4. ASSUME NEW m \in Names \ {k} PROVE SameResource(m)
    <2>1. obj[m] # Absent => obj[m].uid # obj[k].uid /\ obj[m].uid \in UIDs
      BY <1>1, CurrentType DEF OwnerInv, IInv
    <2> QED
      BY <1>1, <1>3, <2>1 DEF SameResource, EditSpec, IInv, TypeOK, sharedVars
  <1>5. SameIdentity
    BY <1>3 DEF SameIdentity
  <1>6. Outdate(k) /\ calm' = calm \ {k}
        /\ Emit("Changed", k, [uid |-> obj[k].uid, gen |-> Generation(obj[k].uid) + 1])
    BY DEF EditSpec
  <1> QED
    BY <1>2, <1>3, <1>4, <1>5, <1>6, UserServed

LEMMA TouchDeleteServed ==
  ASSUME IInv, OwnerInv, CalmInv, NEW k \in Names, Touch(k) \/ Delete(k)
  PROVE  OwnerInv' /\ CalmInv'
  <1>1. Extended
    BY DEF Extended, Touch, Delete, IInv, TypeOK
  <1>2. SameIdentity
    BY DEF SameIdentity, Touch, Delete, IInv, TypeOK
  <1>3. \A m \in Names \ {k} : SameResource(m)
    BY DEF SameResource, Touch, Delete, IInv, TypeOK, sharedVars
  <1>4. \E t, v : Emit(t, k, v)
    BY DEF Touch, Delete
  <1>5. calm' = calm \ {k} /\ Outdate(k) /\ UNCHANGED <<wqVars, cache, workerVars, sharedVars>>
    BY DEF Touch, Delete
  <1> QED
    BY <1>1, <1>2, <1>3, <1>4, <1>5, UserServed
-----------------------------------------------------------------------------
(* The informer's steps.                                                   *)

\* The first delta is taken off the stream.
LEMMA StreamShrinks ==
  ASSUME stream \in Seq(Delta), stream # <<>>, stream' = Tail(stream)
  PROVE  /\ \A i \in 1..Len(stream') : \E j \in 1..Len(stream) : stream[j] = stream'[i]
         /\ \A n : About(n) => About(n)' \/ Head(stream).name = n
         /\ About(Head(stream).name)
  <1>1. /\ Len(stream') = Len(stream) - 1 /\ Len(stream) \in Nat /\ Len(stream) >= 1
        /\ \A i \in 1..Len(stream') : stream'[i] = stream[i + 1]
    BY HeadTailProperties
  <1>2. Head(stream) = stream[1]
    OBVIOUS
  <1>3. \A i \in 1..Len(stream') : i + 1 \in 1..Len(stream)
    BY <1>1
  <1>4. ASSUME NEW n, NEW i \in 1..Len(stream), stream[i].name = n, Head(stream).name # n
        PROVE  About(n)'
    <2>1. i - 1 \in 1..Len(stream') /\ stream'[i - 1] = stream[i]
      BY <1>1, <1>2, <1>4
    <2> QED
      BY <1>4, <2>1 DEF About
  <1>5. 1 \in 1..Len(stream)
    BY <1>1
  <1> QED
    BY <1>1, <1>2, <1>3, <1>4, <1>5 DEF About

\* The handlers mark nothing but the delta's resource.
LEMMA DeliverOthers ==
  ASSUME IInv, Deliver, NEW n \in Names, Head(stream).name # n
  PROVE  Same(n)
  <1> DEFINE d == Head(stream)
  <1>1. d \in Delta /\ d.name \in Names
    BY DEF IInv, TypeOK, Deliver, Delta
  <1> HIDE DEF d
  <1>2. cache'[n] = cache[n]
    BY <1>1 DEF Deliver, OnChange, OnDelete, IInv, TypeOK, d
  <1>3. ASSUME NEW e \in Events PROVE <<n, e>> \in dirty' <=> <<n, e>> \in dirty
    BY DEF Deliver, OnChange, OnDelete, enqueueCRDMetrics, Add, wqVars, d
  <1>4. SameInformer(n)
    <2>1. stream \in Seq(Delta) /\ stream # <<>> /\ stream' = Tail(stream)
      BY DEF Deliver, IInv, TypeOK
    <2> QED
      BY <1>2, <1>3, <2>1, StreamShrinks DEF SameInformer
  <1>5. SameResource(n)
    BY DEF SameResource, Deliver, sharedVars
  <1>6. SameHandlers(n)
    <2>1. holding' = holding
      BY DeliverQueue
    <2>2. UNCHANGED <<pc, fresh, res, built, old>>
      BY DEF Deliver, workerVars
    <2> QED
      BY <2>1, <2>2 DEF SameHandlers, Handles
  <1> QED
    BY <1>4, <1>5, <1>6 DEF Same

\* A calm resource is added to the cache once, and comes back unchanged.
LEMMA DeliverOwn ==
  ASSUME IInv, OwnerInv, Deliver, NEW n \in Names, Head(stream).name = n, CalmName(n)
  PROVE  CalmName(n)'
  <1>1. stream \in Seq(Delta) /\ stream # <<>> /\ stream' = Tail(stream)
    BY DEF Deliver, IInv, TypeOK
  <1>2. /\ \A i \in 1..Len(stream') : \E j \in 1..Len(stream) : stream[j] = stream'[i]
        /\ About(n)
    BY <1>1, StreamShrinks
  <1>3. obj[n] # Absent /\ CalmOnce(n) /\ ((\A w \in Workers : ~Handles(w, n)) => CalmRest(n))
    BY <1>2 DEF CalmName
  <1>4. Head(stream) = [type |-> "Changed", name |-> n, ver |-> Current(n)]
    <2>1. 1 \in 1..Len(stream) /\ Head(stream) = stream[1]
      BY <1>1
    <2> QED
      BY <1>3, <2>1 DEF CalmOnce
  <1>5. OnChange(n, Current(n))
    BY <1>4 DEF Deliver
  <1>6. Current(n) # Nothing
    BY <1>3, CurrentType, SentinelAssumption DEF IInv
  <1>7. cache'[n] = Current(n)
    BY <1>5 DEF OnChange, IInv, TypeOK
  <1>8. UNCHANGED <<specs, obj, stores, pc, fresh, res, built, old>> /\ holding' = holding
    BY DeliverQueue DEF Deliver, workerVars, sharedVars
  <1>9. SameResource(n) /\ SameHandlers(n)
    BY <1>8 DEF SameResource, SameHandlers, Handles
  <1>10. CASE cache[n] # Nothing
    <2>1. UNCHANGED wqVars /\ cache'[n] = cache[n]
      BY <1>3, <1>5, <1>7, <1>10 DEF CalmOnce, OnChange
    <2>2. SameInformer(n)
      BY <1>2, <1>10, <2>1 DEF SameInformer, wqVars
    <2> QED
      BY <1>9, <2>2, Untouched DEF Same
  <1>11. CASE cache[n] = Nothing
    <2>1. \A w \in Workers : ~Handles(w, n)
      BY <1>3, <1>11 DEF CalmOnce
    <2>2. NoStoresOf(n) /\ ~Marked(n)
      BY <1>3, <1>11, <2>1 DEF CalmRest, CalmOnce
    <2>3. dirty' = dirty \union {<<n, "addEvent">>}
      BY <1>5, <1>11 DEF OnChange, enqueueCRDMetrics, Add, OwnerInv
    <2>4. Marked(n)' /\ \A e \in Events : <<n, e>> \in dirty' => e = "addEvent"
      BY <2>2, <2>3 DEF Marked, Events
    <2>5. Current(n)' = Current(n) /\ (NoStoresOf(n)' <=> NoStoresOf(n)) /\ obj' = obj
      BY <1>3, <1>8, <1>9, SameState
    <2>6. \A w \in Workers : ~Handles(w, n)'
      BY <1>8, <2>1 DEF Handles
    <2>7. \A i \in 1..Len(stream') : stream'[i].name = n =>
             stream'[i] = [type |-> "Changed", name |-> n, ver |-> Current(n)']
      BY <1>2, <1>3, <2>5 DEF CalmOnce
    <2>8. CalmOnce(n)'
      BY <1>6, <1>7, <2>2, <2>4, <2>5, <2>6, <2>7 DEF CalmOnce
    <2>9. CalmRest(n)'
      BY <1>6, <1>7, <2>4 DEF CalmRest
    <2> QED
      BY <1>3, <2>5, <2>8, <2>9 DEF CalmName
  <1> QED
    BY <1>10, <1>11

LEMMA DeliverServed ==
  ASSUME IInv, OwnerInv, CalmInv, Deliver PROVE OwnerInv' /\ CalmInv'
  <1>1. /\ UNCHANGED <<specs, obj, stores, calm, workerVars>>
        /\ holding' = holding /\ shuttingDown' = shuttingDown
    BY DeliverQueue
       DEF Deliver, sharedVars, OnChange, OnDelete, enqueueCRDMetrics, Add, wqVars
  <1>2. Extended /\ SameIdentity
    BY <1>1 DEF Extended, SameIdentity, IInv, TypeOK
  <1>3. OwnerInv'
    BY <1>1, <1>2, OwnerFrame DEF OwnerInv, workerVars
  <1>4. DeadInv'
    BY <1>1, DeadFrame DEF CalmInv
  <1>5. ASSUME NEW n \in calm PROVE CalmName(n)'
    BY DeliverOthers, DeliverOwn, Untouched DEF CalmInv, IInv, TypeOK
  <1> QED
    BY <1>1, <1>3, <1>4, <1>5 DEF CalmInv

\* An order of a set of names lists all of them.
LEMMA OrdersAll ==
  ASSUME NEW S \in SUBSET Names, NEW q \in Orders(S), NEW n \in S
  PROVE  \E i \in 1..Len(q) : q[i] = n
  <1>1. IsFiniteSet(S) /\ Cardinality(S) \in Nat
    BY ItemsAssumption, FS_Subset, FS_CardinalityType
  <1>2. q \in [1..Cardinality(S) -> S] /\ \A i, j \in 1..Cardinality(S) : q[i] = q[j] => i = j
    BY DEF Orders
  <1>3. q \in Injection(1..Cardinality(S), S)
    BY <1>2 DEF Injection, IsInjective
  <1>4. Cardinality(1..Cardinality(S)) = Cardinality(S)
    BY <1>1, FS_Interval
  <1>5. q \in Surjection(1..Cardinality(S), S)
    BY <1>1, <1>3, <1>4, FS_Injection
  <1>6. \E i \in 1..Cardinality(S) : q[i] = n
    BY <1>5 DEF Surjection
  <1>7. Len(q) = Cardinality(S)
    BY <1>1, <1>2
  <1> QED
    BY <1>6, <1>7

\* A list has every resource there is, as it is.
LEMMA ListedDeltas ==
  ASSUME IInv, NEW q \in Orders(Listed)
  PROVE  /\ \A i \in 1..Len(ListDeltas(q)) :
              \E m \in Listed :
                 ListDeltas(q)[i] = [type |-> "Changed", name |-> m, ver |-> Current(m)]
         /\ \A m \in Listed : \E i \in 1..Len(ListDeltas(q)) : ListDeltas(q)[i].name = m
  <1>1. q \in Seq(Listed) /\ Listed \in SUBSET Names
    BY OrdersType DEF Listed
  <1>2. Len(ListDeltas(q)) = Len(q) /\ Len(q) \in Nat
    BY <1>1 DEF ListDeltas
  <1>3. \A i \in 1..Len(q) :
          ListDeltas(q)[i] = [type |-> "Changed", name |-> q[i], ver |-> Current(q[i])]
    BY DEF ListDeltas
  <1>4. \A i \in 1..Len(q) : q[i] \in Listed
    BY <1>1
  <1>5. \A m \in Listed : \E i \in 1..Len(q) : q[i] = m
    BY <1>1, OrdersAll
  <1>6. \A i \in 1..Len(q) : ListDeltas(q)[i].name = q[i]
    BY DEF ListDeltas
  <1>7. \A i \in 1..Len(q) : \E m \in Listed :
          ListDeltas(q)[i] = [type |-> "Changed", name |-> m, ver |-> Current(m)]
    BY <1>3, <1>4
  <1>8. \A m \in Listed : \E i \in 1..Len(q) : ListDeltas(q)[i].name = m
    BY <1>5, <1>6
  <1> QED
    BY <1>2, <1>7, <1>8, Zenon

\* The elements of a concatenation are those of its parts.
LEMMA BothParts ==
  ASSUME NEW a \in Seq(Delta), NEW b \in Seq(Delta)
  PROVE  /\ a \o b \in Seq(Delta)
         /\ \A i \in 1..Len(a \o b) : \/ \E j \in 1..Len(a) : (a \o b)[i] = a[j]
                                      \/ \E j \in 1..Len(b) : (a \o b)[i] = b[j]
         /\ \A j \in 1..Len(a) : \E i \in 1..Len(a \o b) : (a \o b)[i] = a[j]
         /\ \A j \in 1..Len(b) : \E i \in 1..Len(a \o b) : (a \o b)[i] = b[j]
  <1> DEFINE s == a \o b
  <1>1. /\ s \in Seq(Delta) /\ Len(s) = Len(a) + Len(b)
        /\ Len(a) \in Nat /\ Len(b) \in Nat
        /\ \A i \in 1..Len(a) + Len(b) : s[i] = IF i <= Len(a) THEN a[i] ELSE b[i - Len(a)]
    BY ConcatProperties
  <1> HIDE DEF s
  <1>2. \A j \in 1..Len(a) : j \in 1..Len(s) /\ s[j] = a[j]
    BY <1>1
  <1>3. ASSUME NEW j \in 1..Len(b)
        PROVE  Len(a) + j \in 1..Len(s) /\ s[Len(a) + j] = b[j]
    <2>1. Len(a) + j \in 1..Len(a) + Len(b) /\ ~(Len(a) + j <= Len(a)) /\ (Len(a) + j) - Len(a) = j
      BY <1>1
    <2>2. s[Len(a) + j] = b[(Len(a) + j) - Len(a)]
      BY <1>1, <2>1
    <2> QED
      BY <1>1, <2>1, <2>2
  <1>4. ASSUME NEW i \in 1..Len(s)
        PROVE  (\E j \in 1..Len(a) : s[i] = a[j]) \/ (\E j \in 1..Len(b) : s[i] = b[j])
    <2>1. CASE i <= Len(a)
      BY <1>1, <2>1
    <2>2. CASE i > Len(a)
      <3>1. i - Len(a) \in 1..Len(b) /\ s[i] = b[i - Len(a)]
        BY <1>1, <2>2
      <3> QED
        BY <3>1
    <2> QED
      BY <1>1, <2>1, <2>2
  <1>5. /\ \A i \in 1..Len(s) : (\E j \in 1..Len(a) : s[i] = a[j]) \/ (\E j \in 1..Len(b) : s[i] = b[j])
        /\ \A j \in 1..Len(a) : \E i \in 1..Len(s) : s[i] = a[j]
        /\ \A j \in 1..Len(b) : \E i \in 1..Len(s) : s[i] = b[j]
    BY <1>2, <1>3, <1>4
  <1> QED
    BY <1>1, <1>5 DEF s

\* A list repeats what is known of a resource.
LEMMA RelistSame ==
  ASSUME IInv, NEW k \in 0..Len(stream), Relist(k), NEW n \in Names,
         obj[n] = Absent => cache[n] = Nothing /\ ~About(n)
  PROVE  Same(n)
  <1> DEFINE kept == SubSeq(stream, 1, k)
             gone == {m \in Names \ Listed : Known(m, kept)}
             tomb(r) == [i \in 1..Len(r) |->
                           [type |-> "Tombstone", name |-> r[i], ver |-> Nothing]]
  <1>1. PICK q \in Orders(Listed), r \in Orders(gone) :
           stream' = kept \o ListDeltas(q) \o tomb(r)
    BY DEF Relist
  <1>2. kept \in Seq(Delta) /\ Len(kept) = k /\ k \in Nat
        /\ \A i \in 1..Len(kept) : i \in 1..Len(stream) /\ kept[i] = stream[i]
    BY SubSeqProperties DEF IInv, TypeOK
  <1>3. ListDeltas(q) \in Seq(Delta)
    BY ListDeltasType DEF IInv
  <1>4. /\ Len(tomb(r)) = Len(r) /\ Len(r) \in Nat /\ tomb(r) \in Seq(Delta)
        /\ \A i \in 1..Len(r) : r[i] \in gone /\ tomb(r)[i].name = r[i]
    <2>1. r \in Seq(gone)
      BY OrdersType
    <2>2. Len(r) \in Nat /\ \A i \in 1..Len(r) : r[i] \in gone /\ r[i] \in Names
      BY <2>1
    <2>3. \A i \in 1..Len(r) : [type |-> "Tombstone", name |-> r[i], ver |-> Nothing] \in Delta
      BY <2>2 DEF Delta
    <2> QED
      BY <2>2, <2>3
  <1>5. n \notin gone
    <2>1. CASE obj[n] = Absent
      <3>1. cache[n] = Nothing /\ ~About(n)
        BY <2>1
      <3>2. {i \in 1..Len(kept) : kept[i].name = n} = {}
        BY <1>2, <3>1 DEF About
      <3>3. ~Known(n, kept)
        BY <3>1, <3>2 DEF Known
      <3> QED
        BY <3>3
    <2>2. CASE obj[n] # Absent
      BY <2>2 DEF Listed
    <2> QED
      BY <2>1, <2>2
  <1> DEFINE front == kept \o ListDeltas(q)
  <1> HIDE DEF kept, gone, tomb
  <1>6. /\ \A i \in 1..Len(stream') : \/ \E j \in 1..Len(kept) : stream'[i] = kept[j]
                                      \/ \E j \in 1..Len(ListDeltas(q)) : stream'[i] = ListDeltas(q)[j]
                                      \/ \E j \in 1..Len(tomb(r)) : stream'[i] = tomb(r)[j]
        /\ \A j \in 1..Len(ListDeltas(q)) : \E i \in 1..Len(stream') : stream'[i] = ListDeltas(q)[j]
    <2>1. /\ front \in Seq(Delta)
          /\ \A i \in 1..Len(front) : \/ \E j \in 1..Len(kept) : front[i] = kept[j]
                                      \/ \E j \in 1..Len(ListDeltas(q)) : front[i] = ListDeltas(q)[j]
          /\ \A j \in 1..Len(ListDeltas(q)) : \E i \in 1..Len(front) : front[i] = ListDeltas(q)[j]
      BY <1>2, <1>3, BothParts
    <2>2. stream' = front \o tomb(r)
      BY <1>1
    <2> HIDE DEF front
    <2>3. /\ \A i \in 1..Len(stream') : \/ \E j \in 1..Len(front) : stream'[i] = front[j]
                                        \/ \E j \in 1..Len(tomb(r)) : stream'[i] = tomb(r)[j]
          /\ \A j \in 1..Len(front) : \E i \in 1..Len(stream') : stream'[i] = front[j]
      <3>1. /\ \A i \in 1..Len(front \o tomb(r)) :
                 \/ \E j \in 1..Len(front) : (front \o tomb(r))[i] = front[j]
                 \/ \E j \in 1..Len(tomb(r)) : (front \o tomb(r))[i] = tomb(r)[j]
            /\ \A j \in 1..Len(front) : \E i \in 1..Len(front \o tomb(r)) : (front \o tomb(r))[i] = front[j]
        BY <1>4, <2>1, BothParts
      <3> QED
        BY <2>2, <3>1, Zenon
    <2>4. ASSUME NEW i \in 1..Len(stream')
          PROVE  \/ \E j \in 1..Len(kept) : stream'[i] = kept[j]
                 \/ \E j \in 1..Len(ListDeltas(q)) : stream'[i] = ListDeltas(q)[j]
                 \/ \E j \in 1..Len(tomb(r)) : stream'[i] = tomb(r)[j]
      <3>1. CASE \E j \in 1..Len(tomb(r)) : stream'[i] = tomb(r)[j]
        BY <3>1
      <3>2. ASSUME NEW j \in 1..Len(front), stream'[i] = front[j]
            PROVE  \/ \E x \in 1..Len(kept) : stream'[i] = kept[x]
                   \/ \E x \in 1..Len(ListDeltas(q)) : stream'[i] = ListDeltas(q)[x]
        BY <2>1, <3>2
      <3> QED
        BY <2>3, <3>1, <3>2
    <2>5. ASSUME NEW j \in 1..Len(ListDeltas(q))
          PROVE  \E i \in 1..Len(stream') : stream'[i] = ListDeltas(q)[j]
      <3>1. PICK x \in 1..Len(front) : front[x] = ListDeltas(q)[j]
        BY <2>1
      <3>2. PICK i \in 1..Len(stream') : stream'[i] = front[x]
        BY <2>3
      <3> QED
        BY <3>1, <3>2
    <2> QED
      BY <2>4, <2>5
  <1>7. ASSUME NEW i \in 1..Len(stream'), stream'[i].name = n
        PROVE  \/ \E j \in 1..Len(stream) : stream[j] = stream'[i]
               \/ obj[n] # Absent /\ stream'[i] = [type |-> "Changed", name |-> n, ver |-> Current(n)]
    <2>1. CASE \E j \in 1..Len(kept) : stream'[i] = kept[j]
      BY <1>2, <2>1
    <2>2. CASE \E j \in 1..Len(ListDeltas(q)) : stream'[i] = ListDeltas(q)[j]
      <3>1. PICK m \in Listed : stream'[i] = [type |-> "Changed", name |-> m, ver |-> Current(m)]
        BY <2>2, ListedDeltas
      <3>2. m = n /\ obj[m] # Absent
        BY <1>7, <3>1 DEF Listed
      <3> QED
        BY <3>1, <3>2
    <2>3. CASE \E j \in 1..Len(tomb(r)) : stream'[i] = tomb(r)[j]
      BY <1>4, <1>5, <1>7, <2>3
    <2> QED
      BY <1>6, <2>1, <2>2, <2>3
  <1>8. cache[n] = Nothing /\ About(n) => About(n)'
    <2> SUFFICES ASSUME About(n) PROVE About(n)'
      OBVIOUS
    <2>1. n \in Listed
      BY DEF Listed
    <2>2. PICK j \in 1..Len(ListDeltas(q)) : ListDeltas(q)[j].name = n
      BY <2>1, ListedDeltas
    <2> QED
      BY <1>6, <2>2 DEF About
  <1>9. SameInformer(n)
    <2>1. cache' = cache /\ dirty' = dirty
      BY DEF Relist, wqVars
    <2> QED
      BY <1>7, <1>8, <2>1 DEF SameInformer
  <1>10. SameResource(n) /\ SameHandlers(n)
    BY DEF SameResource, SameHandlers, Relist, sharedVars, workerVars, wqVars, Handles
  <1> QED
    BY <1>9, <1>10 DEF Same

LEMMA RelistServed ==
  ASSUME IInv, OwnerInv, CalmInv, NEW k \in 0..Len(stream), Relist(k)
  PROVE  OwnerInv' /\ CalmInv'
  <1>1. UNCHANGED <<specs, obj, stores, calm, workerVars, wqVars>>
    BY DEF Relist, sharedVars
  <1>2. Extended /\ SameIdentity
    BY <1>1 DEF Extended, SameIdentity, IInv, TypeOK
  <1>3. OwnerInv'
    BY <1>1, <1>2, OwnerFrame DEF OwnerInv, workerVars, wqVars
  <1>4. DeadInv'
    BY <1>1, DeadFrame DEF CalmInv
  <1>5. ASSUME NEW n \in calm PROVE CalmName(n)'
    BY RelistSame, Untouched DEF CalmInv, CalmName, IInv, TypeOK
  <1> QED
    BY <1>1, <1>3, <1>4, <1>5 DEF CalmInv

\* After a restart every resource waits for its add event.
LEMMA RestartServed ==
  ASSUME IInv, OwnerInv, Restart PROVE OwnerInv' /\ CalmInv'
  <1>1. /\ UNCHANGED <<specs, obj>> /\ shuttingDown' = FALSE /\ dirty' = {}
        /\ \A w \in Workers : holding'[w] = NoItem /\ pc'[w] = "idle" /\ built'[w] = 0
        /\ \A u \in UIDs : stores'[u] = <<>>
        /\ \A n \in Names : cache'[n] = Nothing
        /\ calm' = Names
    BY DEF Restart
  <1>2. Extended /\ SameIdentity
    BY <1>1 DEF Extended, SameIdentity, IInv, TypeOK
  <1>3. OwnerInv'
    <2>1. \A w \in Workers : OwnerWorker(w)'
      BY <1>1 DEF OwnerWorker
    <2>2. shuttingDown' = shuttingDown
      BY <1>1 DEF OwnerInv, IInv, TypeOK, WQTypeOK
    <2> QED
      BY <1>1, <1>2, <2>1, <2>2, OwnerFrame
  <1>4. DeadInv'
    BY <1>1 DEF DeadInv
  <1>5. PICK q \in Orders(Listed) : stream' = ListDeltas(q)
    BY DEF Restart
  <1>6. ASSUME NEW n \in Names PROVE CalmName(n)'
    <2>1. \A i \in 1..Len(stream') : stream'[i].name = n =>
            obj[n] # Absent /\ stream'[i] = [type |-> "Changed", name |-> n, ver |-> Current(n)]
      <3> SUFFICES ASSUME NEW i \in 1..Len(stream'), stream'[i].name = n
                   PROVE  obj[n] # Absent
                          /\ stream'[i] = [type |-> "Changed", name |-> n, ver |-> Current(n)]
        OBVIOUS
      <3>1. PICK m \in Listed : stream'[i] = [type |-> "Changed", name |-> m, ver |-> Current(m)]
        BY <1>5, ListedDeltas
      <3>2. m = n /\ obj[m] # Absent
        BY <3>1 DEF Listed
      <3> QED
        BY <3>1, <3>2
    <2>2. obj[n] # Absent => About(n)'
      BY <1>5, ListedDeltas DEF About, Listed
    <2>3. obj[n] = Absent => ~About(n)'
      BY <2>1 DEF About
    <2>4. ~Marked(n)' /\ (\A w \in Workers : ~Handles(w, n)') /\ cache'[n] = Nothing
      BY <1>1 DEF Marked, Handles
    <2>5. obj[n] # Absent => NoStoresOf(n)' /\ Current(n)' = Current(n)
      BY <1>1, CurrentType DEF NoStoresOf, Current, Generation, IInv
    <2>6. obj[n] # Absent => CalmOnce(n)' /\ CalmRest(n)'
      BY <1>1, <2>1, <2>2, <2>4, <2>5 DEF CalmOnce, CalmRest
    <2> QED
      BY <1>1, <2>3, <2>4, <2>6 DEF CalmName
  <1> QED
    BY <1>1, <1>3, <1>4, <1>6 DEF CalmInv
-----------------------------------------------------------------------------
(* The workers' steps.                                                     *)

\* What is known when a worker is in the handler of a calm resource.
LEMMA HandledCalm ==
  ASSUME IInv, CalmInv, NEW w \in Workers, pc[w] # "idle", NEW k \in calm, NameOf(w) = k
  PROVE  /\ k \in Names /\ obj[k] # Absent /\ Handles(w, k)
         /\ CalmOnce(k) /\ Progress(w, k)
         /\ ~Marked(k) /\ cache[k] # Nothing
         /\ holding[w] = <<k, "addEvent">>
         /\ \A v \in Workers : Handles(v, k) => v = w
  <1>1. holding[w] # NoItem
    BY DEF IInv, WorkerInv
  <1>2. Handles(w, k) /\ k \in Names
    BY <1>1, HeldItem DEF Handles, NameOf, IInv, TypeOK
  <1>3. CalmName(k)
    BY DEF CalmInv
  <1>4. obj[k] # Absent /\ CalmOnce(k)
    BY <1>2, <1>3 DEF CalmName
  <1>5. /\ ~Marked(k) /\ cache[k] # Nothing /\ Progress(w, k)
        /\ \A v \in Workers : Handles(v, k) => holding[v] = <<k, "addEvent">>
    BY <1>2, <1>4 DEF CalmOnce
  <1>6. \A v \in Workers : Handles(v, k) => v = w
    BY <1>1, <1>2, <1>5 DEF IInv, WQInv, ItemExclusive
  <1> QED
    BY <1>2, <1>4, <1>5, <1>6

\* The workers on other resources do not notice a step of w on k.
LEMMA HandlerOthers ==
  ASSUME IInv, NEW w \in Workers, NEW n \in Names, NEW k \in Names, k # n,
         ~Handles(w, n), ~Handles(w, n)',
         SameResource(n), cache' = cache,
         \A e \in Events : <<n, e>> \in dirty' <=> <<n, e>> \in dirty,
         \/ stream' = stream
         \/ Emit("Changed", k, Current(k)),
         \A v \in Workers \ {w} :
           /\ holding'[v] = holding[v] /\ pc'[v] = pc[v]
           /\ res'[v] = res[v] /\ built'[v] = built[v] /\ old'[v] = old[v]
           /\ ~Handles(v, k) => (fresh'[v] <=> fresh[v])
  PROVE  Same(n)
  <1>1. SameInformer(n)
    <2>1. stream \in Seq(Delta)
      BY DEF IInv, TypeOK
    <2>2. \/ stream' = stream
          \/ \E d : stream' = Append(stream, d) /\ d.name # n
      <3>1. [type |-> "Changed", name |-> k, ver |-> Current(k)].name # n
        OBVIOUS
      <3> QED
        BY <3>1, Zenon DEF Emit
    <2> QED
      BY <2>1, <2>2, StreamGrows
  <1>2. ASSUME NEW v \in Workers
        PROVE  /\ Handles(v, n)' <=> Handles(v, n)
               /\ Handles(v, n) =>
                    /\ holding'[v] = holding[v] /\ pc'[v] = pc[v]
                    /\ fresh'[v] <=> fresh[v]
                    /\ res'[v] = res[v] /\ built'[v] = built[v] /\ old'[v] = old[v]
    <2>1. CASE v = w
      BY <2>1
    <2>2. CASE v # w
      <3>1. Handles(v, n)' <=> Handles(v, n)
        BY <2>2 DEF Handles
      <3>2. Handles(v, n) => ~Handles(v, k)
        BY DEF Handles
      <3> QED
        BY <2>2, <3>1, <3>2, Zenon
    <2> QED
      BY <2>1, <2>2
  <1> QED
    BY <1>1, <1>2 DEF Same, SameHandlers

\* A worker's step in the handler of a calm resource, that it still has.
LEMMA HandlerOwn ==
  ASSUME IInv, CalmInv, NEW w \in Workers, pc[w] # "idle", NEW k \in calm, NameOf(w) = k,
         UNCHANGED <<wqVars, cache, specs>>,
         obj'[k] # Absent, obj'[k].uid = obj[k].uid,
         stream' = stream \/ Emit("Changed", k, Current(k)),
         Progress(w, k)'
  PROVE  CalmName(k)'
  <1>1. /\ k \in Names /\ obj[k] # Absent /\ CalmOnce(k)
        /\ ~Marked(k) /\ cache[k] # Nothing /\ Handles(w, k)
        /\ holding[w] = <<k, "addEvent">>
        /\ \A v \in Workers : Handles(v, k) => v = w
    BY HandledCalm
  <1>2. holding' = holding /\ dirty' = dirty /\ cache' = cache /\ Current(k)' = Current(k)
    BY DEF wqVars, Current, Generation
  <1>3. Handles(w, k)'
    BY <1>1, <1>2 DEF Handles
  <1>4. /\ ~Marked(k)' /\ (\A e \in Events : <<k, e>> \notin dirty')
        /\ \A v \in Workers : Handles(v, k)' => v = w
    BY <1>1, <1>2 DEF Marked, Handles
  <1> DEFINE d == [type |-> "Changed", name |-> k, ver |-> Current(k)]
  <1>5. \A i \in 1..Len(stream') : stream'[i].name = k => stream'[i] = d
    <2>1. stream' = stream \/ stream' = Append(stream, d)
      BY DEF Emit
    <2>2. \A i \in 1..Len(stream) : stream[i].name = k => stream[i] = d
      BY <1>1 DEF CalmOnce
    <2>3. stream \in Seq(Delta)
      BY DEF IInv, TypeOK
    <2> HIDE DEF d
    <2>4. ASSUME stream' = Append(stream, d)
          PROVE  \A i \in 1..Len(stream') : stream'[i].name = k => stream'[i] = d
      <3>1. /\ Len(stream') = Len(stream) + 1 /\ Len(stream) \in Nat
            /\ \A i \in 1..Len(stream) : stream'[i] = stream[i]
            /\ stream'[Len(stream) + 1] = d
        BY <2>3, <2>4
      <3> QED
        BY <2>2, <3>1
    <2> QED
      BY <2>1, <2>2, <2>4
  <1>6. cache'[k] = Current(k)
    BY <1>1, <1>2 DEF CalmOnce
  <1>7. CalmOnce(k)'
    BY <1>1, <1>2, <1>4, <1>5, <1>6 DEF CalmOnce
  <1> QED
    BY <1>3, <1>7 DEF CalmName

\* A worker's step in a handler.
LEMMA HandlerServed ==
  ASSUME IInv, OwnerInv, CalmInv, NEW w \in Workers, pc[w] # "idle", NEW s, Goto(w, s),
         NEW k, NameOf(w) = k,
         UNCHANGED <<wqVars, cache, specs>>,
         calm' = calm \/ calm' = calm \ {k},
         \A m \in Names \ {k} : obj'[m] = obj[m],
         obj[k] # Absent <=> obj'[k] # Absent,
         obj[k] # Absent => obj'[k].uid = obj[k].uid,
         stream' = stream \/ Emit("Changed", k, Current(k)),
         \A m \in Names \ {k} : obj[m] # Absent => stores'[obj[m].uid] = stores[obj[m].uid],
         \A u \in UIDs : Generation(u) = 0 => stores'[u] = <<>>,
         \A v \in Workers \ {w} :
           /\ res'[v] = res[v] /\ built'[v] = built[v] /\ old'[v] = old[v]
           /\ ~Handles(v, k) => (fresh'[v] <=> fresh[v]),
         OwnerWorker(w)',
         calm' = calm => DeadInv',
         k \in calm' => Progress(w, k)'
  PROVE  OwnerInv' /\ CalmInv'
  <1>1. holding[w] # NoItem /\ holding' = holding /\ shuttingDown' = shuttingDown /\ dirty' = dirty
    BY DEF IInv, WorkerInv, wqVars
  <1>2. k \in Names
    BY <1>1, HeldItem DEF IInv, TypeOK
  <1>3. Extended
    BY DEF Extended, IInv, TypeOK
  <1>4. SameIdentity
    BY <1>2, Zenon DEF SameIdentity
  <1>5. \A v \in Workers \ {w} : pc'[v] = pc[v]
    BY DEF Goto, IInv, TypeOK
  <1>6. OwnerInv'
    <2>1. \A v \in Workers :
           \/ OwnerWorker(v)'
           \/ /\ pc'[v] = pc[v] /\ res'[v] = res[v] /\ built'[v] = built[v]
              /\ holding'[v] = holding[v]
      BY <1>1, <1>5
    <2> QED
      BY <1>1, <1>3, <1>4, <2>1, OwnerFrame
  <1>7. DeadInv'
    BY <1>2, DisturbedDead
  <1>8. ASSUME NEW n \in calm', n # k PROVE CalmName(n)'
    <2>1. n \in Names /\ CalmName(n)
      BY <1>8 DEF CalmInv, IInv, TypeOK
    <2>2. SameResource(n)
      BY <1>8, <2>1 DEF SameResource
    <2>3. ~Handles(w, n) /\ ~Handles(w, n)'
      BY <1>1, <1>8 DEF Handles, NameOf
    <2>4. Same(n)
      BY <1>1, <1>2, <1>5, <1>8, <2>1, <2>2, <2>3, HandlerOthers
    <2> QED
      BY <2>1, <2>4, Untouched
  <1>9. ASSUME k \in calm' PROVE CalmName(k)'
    <2>1. k \in calm
      BY <1>9
    <2>2. obj[k] # Absent
      BY <2>1, HandledCalm
    <2> QED
      BY <1>9, <2>1, <2>2, HandlerOwn
  <1>10. \A n \in calm' : CalmName(n)'
    BY <1>8, <1>9
  <1> QED
    BY <1>6, <1>7, <1>10 DEF CalmInv

\* A step of a handler that leaves the map of stores alone.
LEMMA CallServed ==
  ASSUME IInv, OwnerInv, CalmInv, NEW w \in Workers, pc[w] # "idle", NEW s, Goto(w, s),
         NEW k, NameOf(w) = k,
         UNCHANGED <<wqVars, cache, specs, stores, built, old>>,
         calm' = calm \/ calm' = calm \ {k},
         \/ UNCHANGED <<obj, stream>>
         \/ \E o \in Object : /\ obj[k] # Absent /\ o.uid = obj[k].uid
                              /\ obj' = [obj EXCEPT ![k] = o]
                              /\ Emit("Changed", k, Current(k)),
         \A v \in Workers \ {w} :
           /\ res'[v] = res[v]
           /\ ~Handles(v, k) => (fresh'[v] <=> fresh[v]),
         OwnerWorker(w)',
         k \in calm' => Progress(w, k)'
  PROVE  OwnerInv' /\ CalmInv'
  <1>1. holding[w] # NoItem
    BY DEF IInv, WorkerInv
  <1>2. k \in Names
    BY <1>1, HeldItem DEF IInv, TypeOK
  <1>3. /\ \A m \in Names \ {k} : obj'[m] = obj[m]
        /\ obj[k] # Absent <=> obj'[k] # Absent
        /\ obj[k] # Absent => obj'[k].uid = obj[k].uid
    BY <1>2, SentinelAssumption DEF IInv, TypeOK
  <1>4. stream' = stream \/ Emit("Changed", k, Current(k))
    OBVIOUS
  <1>5. \A m \in Names : obj[m] # Absent => obj'[m] # Absent /\ obj'[m].uid = obj[m].uid
    BY <1>3, Zenon
  <1>6. calm' = calm => DeadInv'
    BY <1>5, DeadFrame DEF CalmInv
  <1>7. \A u \in UIDs : Generation(u) = 0 => stores'[u] = <<>>
    BY DEF OwnerInv
  <1>8. \A v \in Workers \ {w} : built'[v] = built[v] /\ old'[v] = old[v]
    OBVIOUS
  <1> QED
    BY <1>3, <1>4, <1>6, <1>7, <1>8, HandlerServed

\* An answer with an error takes the resource out of the calm ones, unless the
\* call was refused.
LEMMA FailServed ==
  ASSUME IInv, OwnerInv, CalmInv, NEW w \in Workers, pc[w] # "idle", NEW k, NameOf(w) = k,
         NEW r, CallFails(w, r), k \in calm => ~r
  PROVE  OwnerInv' /\ CalmInv'
  <1>1. calm' = calm \/ calm' = calm \ {k}
    BY DEF CallFails
  <1>2. k \notin calm'
    BY DEF CallFails
  <1>3. pc'[w] = "return"
    BY DEF CallFails, Goto, IInv, TypeOK
  <1>4. OwnerWorker(w)'
    BY <1>3 DEF OwnerWorker
  <1>5. \A v \in Workers \ {w} : res'[v] = res[v] /\ (fresh'[v] <=> fresh[v])
    <2>1. res' = res /\ fresh' = [fresh EXCEPT ![w] = FALSE] /\ fresh \in [Workers -> BOOLEAN]
      BY DEF CallFails, IInv, TypeOK
    <2> QED
      BY <2>1, Zenon
  <1>6. Goto(w, "return") /\ UNCHANGED <<wqVars, cache, specs, stores, built, old, obj, stream>>
    BY DEF CallFails, sharedVars
  <1> QED
    BY <1>1, <1>2, <1>4, <1>5, <1>6, CallServed

\* An object that exists is read.
LEMMA ReadServed ==
  ASSUME IInv, OwnerInv, CalmInv, NEW w \in Workers, pc[w] # "idle", NEW k, NameOf(w) = k,
         NEW s \in {"metaUpdate", "recvUpdate", "doneUpdate", "failUpdate"}, GetResource(w, s),
         s \in {"metaUpdate", "recvUpdate"} => built[w] = 0,
         k \in calm /\ pc'[w] = s /\ fresh'[w] /\ UNCHANGED <<obj, specs, stores>> => Progress(w, k)'
  PROVE  OwnerInv' /\ CalmInv'
  <1>1. CASE CallFails(w, obj[k] = Absent)
    <2>1. k \in calm => ~(obj[k] = Absent)
      BY HandledCalm
    <2> QED
      BY <1>1, <2>1, FailServed
  <1>2. CASE /\ Goto(w, s)
             /\ fresh' = [fresh EXCEPT ![w] = TRUE]
             /\ UNCHANGED <<wqVars, specs, obj, stream, cache, res, built, old, sharedVars, calm>>
    <2>1. pc'[w] = s
      BY <1>2 DEF Goto, IInv, TypeOK
    <2>2. fresh'[w] /\ \A v \in Workers \ {w} : fresh'[v] <=> fresh[v]
      <3>1. fresh' = [fresh EXCEPT ![w] = TRUE] /\ fresh \in [Workers -> BOOLEAN]
        BY <1>2 DEF IInv, TypeOK
      <3> QED
        BY <3>1, Zenon
    <2>3. OwnerWorker(w)'
      BY <1>2, <2>1 DEF OwnerWorker
    <2>4. UNCHANGED <<obj, specs, stores>>
      BY <1>2 DEF sharedVars
    <2>5. k \in calm' => Progress(w, k)'
      BY <1>2, <2>1, <2>2, <2>4
    <2> QED
      BY <1>2, <2>2, <2>3, <2>4, <2>5, CallServed
  <1> QED
    BY <1>1, <1>2 DEF GetResource

\* The object is written.
LEMMA WriteServed ==
  ASSUME IInv, OwnerInv, CalmInv, NEW w \in Workers, NEW k, NameOf(w) = k,
         NEW o \in Object, o.uid = obj[k].uid, WriteResource(w, o),
         NEW s, Goto(w, s), UNCHANGED <<wqVars, specs, cache, built, old, sharedVars>>,
         \A v \in Workers \ {w} : res'[v] = res[v],
         calm' = calm \/ calm' = calm \ {k},
         OwnerWorker(w)',
         k \in calm' => Progress(w, k)'
  PROVE  OwnerInv' /\ CalmInv'
  <1>1. k \in Names /\ obj[k] \in Object /\ pc[w] # "idle"
    BY FreshObject DEF WriteResource
  <1>2. /\ obj[k] # Absent
        /\ obj' = [obj EXCEPT ![k] = o]
        /\ Emit("Changed", k, Current(k))
    BY <1>1, SentinelAssumption DEF WriteResource
  <1>3. \A v \in Workers : ~Handles(v, k) => (fresh'[v] <=> fresh[v])
    <2>1. fresh' = [v \in Workers |-> fresh[v] /\ ~Handles(v, k)] /\ fresh \in [Workers -> BOOLEAN]
      BY DEF WriteResource, Outdate, IInv, TypeOK
    <2> QED
      BY <2>1, Zenon
  <1>4. UNCHANGED <<wqVars, cache, specs, stores, built, old>>
    BY DEF sharedVars
  <1> QED
    BY <1>1, <1>2, <1>3, <1>4, CallServed

LEMMA LostServed ==
  ASSUME IInv, OwnerInv, CalmInv, NEW w \in Workers, NEW k, NameOf(w) = k,
         NEW o \in Object, o.uid = obj[k].uid, AnswerLost(w, o)
  PROVE  OwnerInv' /\ CalmInv'
  <1>1. pc'[w] = "return"
    BY DEF AnswerLost, Goto, IInv, TypeOK
  <1>2. OwnerWorker(w)'
    BY <1>1 DEF OwnerWorker
  <1>3. /\ WriteResource(w, o) /\ Goto(w, "return") /\ calm' = calm \ {k}
        /\ UNCHANGED <<wqVars, specs, cache, res, built, old, sharedVars>>
    BY DEF AnswerLost
  <1>4. k \notin calm'
    BY <1>3
  <1> QED
    BY <1>2, <1>3, <1>4, WriteServed

LEMMA GetsServed ==
  ASSUME IInv, OwnerInv, CalmInv, NEW w \in Workers,
         MetaGet(w) \/ ReceivedGet(w) \/ DoneGet(w) \/ FailGet(w)
  PROVE  OwnerInv' /\ CalmInv'
  <1>1. PICK k : NameOf(w) = k
    OBVIOUS
  <1>2. OwnerWorker(w) /\ pc[w] # "idle"
    BY DEF OwnerInv, MetaGet, ReceivedGet, DoneGet, FailGet
  <1>3. ASSUME k \in calm, UNCHANGED <<obj, specs, stores>>
        PROVE  /\ Progress(w, k)
               /\ NoStoresOf(k)' <=> NoStoresOf(k)
               /\ BeingProcessed(k)' <=> BeingProcessed(k)
               /\ Unusable(k)' <=> Unusable(k)
               /\ Reconciled(k)' <=> Reconciled(k)
    <2>1. k \in Names /\ obj[k] # Absent /\ Progress(w, k)
      BY <1>1, <1>2, <1>3, HandledCalm
    <2>2. SameResource(k)
      BY <1>3 DEF SameResource
    <2> QED
      BY <2>1, <2>2, SameState
  <1>4. CASE MetaGet(w)
    <2>1. GetResource(w, "metaUpdate") /\ built[w] = 0 /\ pc[w] = "metaGet"
      BY <1>2, <1>4 DEF MetaGet, OwnerWorker
    <2>2. ASSUME k \in calm, pc'[w] = "metaUpdate", fresh'[w], UNCHANGED <<obj, specs, stores>>
          PROVE  Progress(w, k)'
      <3>1. NoStoresOf(k)'
        BY <1>3, <2>1, <2>2 DEF Progress
      <3> QED
        BY <2>2, <3>1 DEF Progress
    <2> QED
      BY <1>1, <1>2, <2>1, <2>2, ReadServed
  <1>5. CASE ReceivedGet(w)
    <2>1. GetResource(w, "recvUpdate") /\ built[w] = 0 /\ pc[w] = "recvGet"
      BY <1>2, <1>5 DEF ReceivedGet, OwnerWorker
    <2>2. ASSUME k \in calm, pc'[w] = "recvUpdate", fresh'[w], UNCHANGED <<obj, specs, stores>>
          PROVE  Progress(w, k)'
      <3>1. NoStoresOf(k)'
        BY <1>3, <2>1, <2>2 DEF Progress
      <3> QED
        BY <2>2, <3>1 DEF Progress
    <2> QED
      BY <1>1, <1>2, <2>1, <2>2, ReadServed
  <1>6. CASE DoneGet(w)
    <2>1. GetResource(w, "doneUpdate") /\ pc[w] = "doneGet"
      BY <1>6 DEF DoneGet
    <2>2. ASSUME k \in calm, pc'[w] = "doneUpdate", fresh'[w], UNCHANGED <<obj, specs, stores>>
          PROVE  Progress(w, k)'
      <3>1. ~Unusable(k)' /\ Reconciled(k)'
        BY <1>3, <2>1, <2>2 DEF Progress
      <3> QED
        BY <2>2, <3>1 DEF Progress
    <2> QED
      BY <1>1, <1>2, <2>1, <2>2, ReadServed
  <1>7. CASE FailGet(w)
    <2>1. GetResource(w, "failUpdate") /\ pc[w] = "failGet"
      BY <1>7 DEF FailGet
    <2>2. ASSUME k \in calm, pc'[w] = "failUpdate", fresh'[w], UNCHANGED <<obj, specs, stores>>
          PROVE  Progress(w, k)'
      <3>1. Unusable(k)' /\ Reconciled(k)' /\ BeingProcessed(k)'
        BY <1>3, <2>1, <2>2 DEF Progress
      <3> QED
        BY <2>2, <3>1 DEF Progress
    <2> QED
      BY <1>1, <1>2, <2>1, <2>2, ReadServed
  <1> QED
    BY <1>4, <1>5, <1>6, <1>7

\* What a write of an object with the same UID leaves of a resource.
LEMMA WrittenState ==
  ASSUME NEW k \in Names, obj'[k].uid = obj[k].uid, UNCHANGED <<specs, stores>>
  PROVE  /\ Current(k)' = Current(k)
         /\ Generation(obj[k].uid)' = Generation(obj[k].uid)
         /\ Configuration(Current(k))' = Configuration(Current(k))
         /\ Unusable(k)' <=> Unusable(k)
         /\ NoStoresOf(k)' <=> NoStoresOf(k)
         /\ Reconciled(k)' <=> Reconciled(k)
  <1>1. Current(k)' = Current(k) /\ Generation(obj[k].uid)' = Generation(obj[k].uid)
    BY DEF Current, Generation
  <1>2. Configuration(Current(k))' = Configuration(Current(k))
    BY <1>1 DEF Configuration
  <1> QED
    BY <1>1, <1>2 DEF Unusable, NoStoresOf, Reconciled

LEMMA MetaServed ==
  ASSUME IInv, OwnerInv, CalmInv, NEW w \in Workers, MetaUpdate(w)
  PROVE  OwnerInv' /\ CalmInv'
  <1>1. PICK k : NameOf(w) = k
    OBVIOUS
  <1>2. OwnerWorker(w) /\ pc[w] = "metaUpdate" /\ built[w] = 0
    BY DEF OwnerInv, MetaUpdate, OwnerWorker
  <1>3. k \in calm => k \in Names /\ obj[k] # Absent /\ NoStoresOf(k) /\ fresh[w]
    BY <1>1, <1>2, HandledCalm DEF Progress
  <1> DEFINE o == [obj[k] EXCEPT !.labelled = TRUE]
  <1>4. fresh[w] => o \in Object /\ o.uid = obj[k].uid /\ k \in Names
    BY <1>1, FreshObject DEF Object
  <1>5. ASSUME Goto(w, "recvGet"), built' = built PROVE OwnerWorker(w)' /\ pc'[w] = "recvGet"
    BY <1>2, <1>5 DEF OwnerWorker, Goto, IInv, TypeOK
  <1>6. ASSUME k \in calm, pc'[w] = "recvGet", obj'[k].uid = obj[k].uid, UNCHANGED <<specs, stores>>
        PROVE  Progress(w, k)'
    <2>1. NoStoresOf(k)'
      BY <1>3, <1>6, WrittenState
    <2> QED
      BY <1>6, <2>1 DEF Progress
  <1> HIDE DEF o
  <1>7. CASE /\ fresh[w] /\ WriteResource(w, o) /\ Goto(w, "recvGet")
             /\ UNCHANGED <<wqVars, specs, cache, res, built, old, sharedVars, calm>>
    <2>1. OwnerWorker(w)' /\ pc'[w] = "recvGet"
      BY <1>5, <1>7
    <2>2. obj'[k].uid = obj[k].uid
      BY <1>1, <1>4, <1>7 DEF WriteResource, IInv, TypeOK
    <2>3. k \in calm' => Progress(w, k)'
      BY <1>6, <1>7, <2>1, <2>2 DEF sharedVars
    <2> QED
      BY <1>1, <1>4, <1>7, <2>1, <2>3, WriteServed
  <1>8. CASE fresh[w] /\ AnswerLost(w, o)
    BY <1>1, <1>4, <1>8, LostServed
  <1>9. CASE /\ fresh' = [fresh EXCEPT ![w] = FALSE] /\ Goto(w, "recvGet")
             /\ UNCHANGED <<wqVars, specs, obj, stream, cache, res, built, old, sharedVars, calm>>
    <2>1. OwnerWorker(w)' /\ pc'[w] = "recvGet"
      BY <1>5, <1>9
    <2>2. k \in calm' => Progress(w, k)'
      BY <1>6, <1>9, <2>1 DEF sharedVars
    <2>3. \A v \in Workers \ {w} : fresh'[v] <=> fresh[v]
      <3>1. fresh' = [fresh EXCEPT ![w] = FALSE] /\ fresh \in [Workers -> BOOLEAN]
        BY <1>9 DEF IInv, TypeOK
      <3> QED
        BY <3>1, Zenon
    <2> QED
      BY <1>1, <1>2, <1>9, <2>1, <2>2, <2>3, CallServed DEF sharedVars
  <1>10. CASE CallFails(w, ~fresh[w])
    BY <1>1, <1>2, <1>3, <1>10, FailServed
  <1> QED
    BY <1>1, <1>7, <1>8, <1>9, <1>10 DEF MetaUpdate, o

\* The condition that a status write sets.
LEMMA StatusWritten ==
  ASSUME IInv, NEW w \in Workers, NEW k, NameOf(w) = k, NEW t \in Types, NEW b \in BOOLEAN,
         WriteResource(w, StatusSet(obj[k], t, b))
  PROVE  /\ k \in Names /\ obj[k] # Absent /\ obj[k] \in Object
         /\ StatusSet(obj[k], t, b) \in Object /\ StatusSet(obj[k], t, b).uid = obj[k].uid
         /\ obj'[k].uid = obj[k].uid
         /\ obj'[k].conds[t] = [status |-> b, gen |-> Generation(obj[k].uid)]
         /\ \A x \in Types \ {t} : obj'[k].conds[x] = obj[k].conds[x]
  <1>1. k \in Names /\ obj[k] \in Object
    BY FreshObject DEF WriteResource
  <1>2. obj'[k] = StatusSet(obj[k], t, b) /\ obj[k] # Absent
    BY <1>1, SentinelAssumption DEF WriteResource, IInv, TypeOK
  <1>3. StatusSet(obj[k], t, b) \in Object /\ StatusSet(obj[k], t, b).uid = obj[k].uid
    BY <1>1, StatusSetType DEF IInv
  <1>4. /\ StatusSet(obj[k], t, b).conds[t] = [status |-> b, gen |-> Generation(obj[k].uid)]
        /\ \A x \in Types \ {t} : StatusSet(obj[k], t, b).conds[x] = obj[k].conds[x]
    BY <1>1 DEF StatusSet, Object
  <1> QED
    BY <1>1, <1>2, <1>3, <1>4

LEMMA ReceivedServed ==
  ASSUME IInv, OwnerInv, CalmInv, NEW w \in Workers, ReceivedUpdate(w)
  PROVE  OwnerInv' /\ CalmInv'
  <1>1. PICK k : NameOf(w) = k
    OBVIOUS
  <1>2. OwnerWorker(w) /\ pc[w] = "recvUpdate" /\ built[w] = 0
    BY DEF OwnerInv, ReceivedUpdate, OwnerWorker
  <1>3. k \in calm => k \in Names /\ obj[k] # Absent /\ NoStoresOf(k) /\ fresh[w]
    BY <1>1, <1>2, HandledCalm DEF Progress
  <1> DEFINE o == StatusSet(obj[k], "Processed", FALSE)
             s == IF Configuration(Current(k)) = EmptyConfig THEN "failGet" ELSE "drop"
  <1>4. ASSUME WriteResource(w, o)
        PROVE  /\ k \in Names /\ obj[k] # Absent
               /\ o \in Object /\ o.uid = obj[k].uid /\ obj'[k].uid = obj[k].uid
               /\ obj'[k].conds["Processed"] = [status |-> FALSE, gen |-> Generation(obj[k].uid)]
               /\ SameIdentity
    <2>1. o.uid = obj[k].uid
      BY <1>1, <1>4, StatusWritten DEF Types
    <2>2. SameIdentity
      BY <1>1, <1>4, <2>1, WriteIdentity
    <2> QED
      BY <1>1, <1>4, <2>2, StatusWritten DEF Types
  <1> HIDE DEF o
  <1>5. CASE /\ WriteResource(w, o) /\ res' = [res EXCEPT ![w] = Current(k)] /\ Goto(w, s)
             /\ UNCHANGED <<wqVars, specs, cache, built, old, sharedVars, calm>>
    <2>1. pc'[w] = s /\ res'[w] = Current(k) /\ \A v \in Workers \ {w} : res'[v] = res[v]
      BY <1>5 DEF Goto, IInv, TypeOK
    <2>2. /\ k \in Names /\ obj[k] # Absent
          /\ o \in Object /\ o.uid = obj[k].uid /\ obj'[k].uid = obj[k].uid
          /\ obj'[k].conds["Processed"] = [status |-> FALSE, gen |-> Generation(obj[k].uid)]
          /\ SameIdentity
      BY <1>4, <1>5
    <2>3. /\ Current(k)' = Current(k)
          /\ Generation(obj[k].uid)' = Generation(obj[k].uid)
          /\ Configuration(Current(k))' = Configuration(Current(k))
          /\ Unusable(k)' <=> Unusable(k)
          /\ Reconciled(k)' <=> Reconciled(k)
      BY <1>5, <2>2, WrittenState DEF sharedVars
    <2>4. BeingProcessed(k)'
      BY <1>5, <2>2 DEF BeingProcessed, Generation
    <2>5. OwnerWorker(w)'
      <3>1. NameOf(w)' = k /\ built'[w] = 0
        BY <1>1, <1>2, <1>5 DEF NameOf, wqVars
      <3>2. res'[w].uid = obj[k].uid /\ res'[w].gen >= 1
        BY <2>1, <2>2, CurrentType DEF IInv, OwnerInv
      <3>3. \A n \in Names : obj'[n] # Absent /\ obj'[n].uid = res'[w].uid => k = n
        BY <2>2, <3>2 DEF SameIdentity, OwnerInv
      <3> QED
        BY <3>1, <3>2, <3>3 DEF OwnerWorker
    <2>6. ASSUME k \in calm' PROVE Progress(w, k)'
      <3>1. NoStoresOf(k)
        BY <1>3, <1>5, <2>6
      <3>2. CASE Configuration(Current(k)) = EmptyConfig
        <4>1. pc'[w] = "failGet"
          BY <2>1, <3>2
        <4>2. Unusable(k)
          BY <3>2 DEF Unusable
        <4>3. Reconciled(k)
          BY <3>1, <4>2 DEF Reconciled, Unusable, NoStoresOf
        <4> QED
          BY <2>3, <2>4, <4>1, <4>2, <4>3 DEF Progress
      <3>3. CASE Configuration(Current(k)) # EmptyConfig
        <4>1. pc'[w] = "drop"
          BY <2>1, <3>3
        <4> QED
          BY <2>1, <2>3, <2>4, <3>3, <4>1 DEF Progress
      <3> QED
        BY <3>2, <3>3
    <2> QED
      BY <1>1, <1>5, <2>1, <2>2, <2>5, <2>6, WriteServed
  <1>6. CASE AnswerLost(w, o)
    BY <1>1, <1>4, <1>6, LostServed DEF AnswerLost
  <1>7. CASE CallFails(w, ~fresh[w])
    BY <1>1, <1>2, <1>3, <1>7, FailServed
  <1> QED
    BY <1>1, <1>5, <1>6, <1>7 DEF ReceivedUpdate, o

\* The last status write tells what came of the configuration.
LEMMA FinalProgress ==
  ASSUME NEW w \in Workers, NEW k \in Names, NEW t \in Types, Progress(w, k),
         (t = "Processed" /\ pc[w] = "doneUpdate") \/ (t = "Failed" /\ pc[w] = "failUpdate"),
         pc'[w] = "return", UNCHANGED <<specs, stores>>,
         obj'[k].uid = obj[k].uid,
         obj'[k].conds[t] = [status |-> TRUE, gen |-> Generation(obj[k].uid)],
         \A x \in Types \ {t} : obj'[k].conds[x] = obj[k].conds[x]
  PROVE  Progress(w, k)'
  <1>1. /\ Configuration(Current(k))' = Configuration(Current(k))
        /\ Generation(obj[k].uid)' = Generation(obj[k].uid)
        /\ Unusable(k)' <=> Unusable(k)
        /\ Reconciled(k)' <=> Reconciled(k)
    BY WrittenState
  <1>2. CASE t = "Processed"
    <2>1. ~Unusable(k) /\ Reconciled(k)
      BY <1>2 DEF Progress
    <2>2. OutcomeTold(k)'
      BY <1>1, <1>2, <2>1 DEF OutcomeTold, Unusable
    <2> QED
      BY <1>1, <2>1, <2>2 DEF Progress
  <1>3. CASE t = "Failed"
    <2>1. Unusable(k) /\ Reconciled(k) /\ BeingProcessed(k)
      BY <1>3 DEF Progress
    <2>2. /\ obj'[k].conds["Failed"] = [status |-> TRUE, gen |-> Generation(obj[k].uid)]
          /\ obj'[k].conds["Processed"] = [status |-> FALSE, gen |-> Generation(obj[k].uid)]
      BY <1>3, <2>1 DEF BeingProcessed, Types
    <2>3. OutcomeTold(k)'
      BY <1>1, <2>1, <2>2 DEF OutcomeTold, Unusable
    <2> QED
      BY <1>1, <2>1, <2>3 DEF Progress
  <1> QED
    BY <1>2, <1>3 DEF Types

LEMMA FinalServed ==
  ASSUME IInv, OwnerInv, CalmInv, NEW w \in Workers, DoneUpdate(w) \/ FailUpdate(w)
  PROVE  OwnerInv' /\ CalmInv'
  <1>1. PICK k : NameOf(w) = k
    OBVIOUS
  <1>2. PICK t \in Types : /\ (t = "Processed" /\ pc[w] = "doneUpdate")
                              \/ (t = "Failed" /\ pc[w] = "failUpdate")
                           /\ FinalUpdate(w, pc[w], t)
    BY DEF DoneUpdate, FailUpdate, FinalUpdate, Types
  <1>3. k \in calm => k \in Names /\ obj[k] # Absent /\ fresh[w] /\ Progress(w, k)
    BY <1>1, <1>2, HandledCalm DEF Progress
  <1> DEFINE o == StatusSet(obj[k], t, TRUE)
  <1>4. ASSUME WriteResource(w, o)
        PROVE  /\ k \in Names /\ o \in Object /\ o.uid = obj[k].uid /\ obj'[k].uid = obj[k].uid
               /\ obj'[k].conds[t] = [status |-> TRUE, gen |-> Generation(obj[k].uid)]
               /\ \A x \in Types \ {t} : obj'[k].conds[x] = obj[k].conds[x]
    <2>1. WriteResource(w, StatusSet(obj[k], t, TRUE)) /\ TRUE \in BOOLEAN
      BY <1>4
    <2>2. \A b \in BOOLEAN : WriteResource(w, StatusSet(obj[k], t, b)) =>
            /\ k \in Names
            /\ StatusSet(obj[k], t, b) \in Object /\ StatusSet(obj[k], t, b).uid = obj[k].uid
            /\ obj'[k].uid = obj[k].uid
            /\ obj'[k].conds[t] = [status |-> b, gen |-> Generation(obj[k].uid)]
            /\ \A x \in Types \ {t} : obj'[k].conds[x] = obj[k].conds[x]
      BY <1>1, StatusWritten
    <2> QED
      BY <2>1, <2>2, Zenon
  <1> HIDE DEF o
  <1>5. CASE /\ WriteResource(w, o) /\ Goto(w, "return")
             /\ UNCHANGED <<wqVars, specs, cache, res, built, old, sharedVars, calm>>
    <2>1. pc'[w] = "return"
      BY <1>5 DEF Goto, IInv, TypeOK
    <2>2. /\ k \in Names /\ o \in Object /\ o.uid = obj[k].uid /\ obj'[k].uid = obj[k].uid
          /\ obj'[k].conds[t] = [status |-> TRUE, gen |-> Generation(obj[k].uid)]
          /\ \A x \in Types \ {t} : obj'[k].conds[x] = obj[k].conds[x]
      BY <1>4, <1>5
    <2>4. OwnerWorker(w)'
      BY <2>1 DEF OwnerWorker
    <2>5. k \in calm' => Progress(w, k)'
      BY <1>2, <1>3, <1>5, <2>1, <2>2, FinalProgress DEF sharedVars
    <2> QED
      BY <1>1, <1>5, <2>2, <2>4, <2>5, WriteServed
  <1>6. CASE AnswerLost(w, o)
    BY <1>1, <1>4, <1>6, LostServed DEF AnswerLost
  <1>7. CASE CallFails(w, ~fresh[w])
    BY <1>1, <1>2, <1>3, <1>7, FailServed
  <1> QED
    BY <1>1, <1>2, <1>5, <1>6, <1>7 DEF FinalUpdate, o

\* What a worker that builds for a resource has in hand.
LEMMA BuilderOf ==
  ASSUME IInv, OwnerInv, NEW w \in Workers, pc[w] \in {"drop", "build", "append"},
         NEW k \in Names, obj[k] # Absent, Progress(w, k)
  PROVE  /\ obj[k].uid \in UIDs
         /\ res[w] = Current(k) /\ res[w].uid = obj[k].uid /\ res[w].gen = Generation(obj[k].uid)
         /\ Configuration(Current(k)) # EmptyConfig
         /\ Configuration(Current(k)) \in Configs
         /\ StoreCount[Configuration(Current(k))] \in Nat
  <1>1. res[w] = Current(k) /\ Configuration(Current(k)) # EmptyConfig
    BY DEF Progress
  <1>2. obj[k].uid \in UIDs /\ Current(k).uid = obj[k].uid /\ Current(k).gen = Generation(obj[k].uid)
    BY CurrentType DEF IInv
  <1>3. Generation(obj[k].uid) \in 1..Len(specs[obj[k].uid])
    BY <1>2 DEF OwnerInv, Generation, IInv, TypeOK
  <1>4. Configuration(Current(k)) \in Configs
    BY <1>2, <1>3 DEF Configuration, IInv, TypeOK
  <1> QED
    BY <1>1, <1>2, <1>4, ConfigAssumption

LEMMA BuilderCalm ==
  ASSUME IInv, OwnerInv, CalmInv, NEW w \in Workers, pc[w] \in {"drop", "build", "append"},
         NEW k \in calm, NameOf(w) = k
  PROVE  /\ k \in Names /\ obj[k] # Absent /\ Progress(w, k)
         /\ EventOf(w) # "deleteEvent" /\ res[w].uid = obj[k].uid
  <1>1. k \in Names /\ obj[k] # Absent /\ Progress(w, k) /\ holding[w] = <<k, "addEvent">>
    BY HandledCalm
  <1> QED
    BY <1>1, BuilderOf DEF EventOf

\* A step of dropStores or build.
LEMMA BuilderServed ==
  ASSUME IInv, OwnerInv, CalmInv, NEW w \in Workers, pc[w] \in {"drop", "build", "append"},
         NEW k, NameOf(w) = k, NEW s \in Steps, Goto(w, s),
         s \in {"build", "append", "doneGet", "failGet"},
         UNCHANGED <<wqVars, specs, obj, stream, cache, fresh, res, calm>>,
         NEW q, stores' = [stores EXCEPT ![res[w].uid] = q],
         \A v \in Workers \ {w} : built'[v] = built[v] /\ old'[v] = old[v],
         k \in calm => Progress(w, k)'
  PROVE  OwnerInv' /\ CalmInv'
  <1>1. res[w].uid \in UIDs /\ res[w].gen \in 0..Generation(res[w].uid) /\ OwnerWorker(w)
    BY BuiltResource DEF OwnerInv
  <1>2. \A x \in UIDs \ {res[w].uid} : stores'[x] = stores[x]
    BY DEF IInv, TypeOK
  <1>3. \A m \in Names \ {k} : obj[m] # Absent => stores'[obj[m].uid] = stores[obj[m].uid]
    <2>1. \A m \in Names \ {k} : obj[m] # Absent => obj[m].uid \in UIDs /\ obj[m].uid # res[w].uid
      BY <1>1, CurrentType DEF OwnerWorker, IInv
    <2> QED
      BY <1>2, <2>1
  <1>4. \A u \in UIDs : Generation(u) = 0 => stores'[u] = <<>>
    <2>1. Generation(res[w].uid) # 0
      BY <1>1 DEF OwnerWorker
    <2> QED
      BY <1>2, <2>1 DEF OwnerInv
  <1>5. pc'[w] = s
    BY DEF Goto, IInv, TypeOK
  <1>6. OwnerWorker(w)'
    <2>1. res'[w] = res[w] /\ obj' = obj /\ NameOf(w)' = NameOf(w)
      BY DEF NameOf, wqVars
    <2> QED
      BY <1>1, <1>5, <2>1 DEF OwnerWorker
  <1>7. calm' = calm => DeadInv'
    <2> SUFFICES ASSUME calm = Names, NEW u \in UIDs, u \notin Live PROVE stores'[u] = <<>>
      BY DEF DeadInv, Live, Listed
    <2>1. holding[w] # NoItem
      BY DEF IInv, WorkerInv
    <2>2. k \in Names
      BY <2>1, HeldItem DEF IInv, TypeOK
    <2>3. obj[k] # Absent /\ res[w].uid = obj[k].uid
      BY <2>2, BuilderCalm
    <2>4. u # res[w].uid
      BY <2>2, <2>3 DEF Live, Listed
    <2> QED
      BY <1>2, <2>4 DEF CalmInv, DeadInv
  <1>8. /\ \A m \in Names \ {k} : obj'[m] = obj[m]
        /\ obj[k] # Absent <=> obj'[k] # Absent
        /\ obj[k] # Absent => obj'[k].uid = obj[k].uid
        /\ \A v \in Workers \ {w} : /\ res'[v] = res[v] /\ built'[v] = built[v] /\ old'[v] = old[v]
                                    /\ fresh'[v] <=> fresh[v]
        /\ UNCHANGED <<wqVars, cache, specs>> /\ stream' = stream /\ calm' = calm
    OBVIOUS
  <1>9. pc[w] # "idle"
    OBVIOUS
  <1> QED
    BY <1>3, <1>4, <1>6, <1>7, <1>8, <1>9, HandlerServed

\* What the map then says of the resource that w builds for.
LEMMA BuilderState ==
  ASSUME NEW k \in Names, UNCHANGED <<specs, obj>>
  PROVE  /\ Current(k)' = Current(k)
         /\ Generation(obj[k].uid)' = Generation(obj[k].uid)
         /\ Configuration(Current(k))' = Configuration(Current(k))
         /\ Unusable(k)' <=> Unusable(k)
         /\ BeingProcessed(k)' <=> BeingProcessed(k)
  BY DEF Current, Generation, Configuration, Unusable, BeingProcessed

\* What dropStores and build do for the resource.
LEMMA DropProgress ==
  ASSUME IInv, OwnerInv, NEW w \in Workers, DropStores(w),
         NEW k \in Names, obj[k] # Absent, Progress(w, k), EventOf(w) # "deleteEvent"
  PROVE  Progress(w, k)'
  <1>1. pc[w] = "drop" /\ built[w] = 0 /\ pc'[w] = AfterDrop(w)
    BY DEF DropStores, OwnerInv, OwnerWorker, Goto, IInv, TypeOK
  <1>2. /\ UNCHANGED <<specs, obj, res, built>>
         /\ stores' = [stores EXCEPT ![res[w].uid] = <<>>]
    BY DEF DropStores
  <1> DEFINE c == Configuration(Current(k))
  <1>3. /\ k \in Names /\ obj[k].uid \in UIDs
        /\ res[w] = Current(k) /\ res[w].uid = obj[k].uid
        /\ EventOf(w) # "deleteEvent" /\ c # EmptyConfig /\ StoreCount[c] \in Nat
        /\ Progress(w, k)
    BY <1>1, BuilderOf
  <1>4. /\ Current(k)' = Current(k)
        /\ c' = c
        /\ Unusable(k)' <=> Unusable(k)
        /\ BeingProcessed(k)' <=> BeingProcessed(k)
    BY <1>2, <1>3, BuilderState
  <1>5. stores'[obj'[k].uid] = <<>> /\ obj' = obj
    BY <1>2, <1>3 DEF IInv, TypeOK
  <1>6. BeingProcessed(k)'
    BY <1>1, <1>3, <1>4 DEF Progress
  <1>7. AfterDrop(w) = IF c \in BadConfigs THEN "failGet"
                       ELSE IF StoreCount[c] = 0 THEN "doneGet" ELSE "build"
    BY <1>3 DEF AfterDrop
  <1>8. Unusable(k) <=> c \in BadConfigs
    BY <1>3 DEF Unusable
  <1> HIDE DEF c
  <1>9. CASE c \in BadConfigs
    <2>1. pc'[w] = "failGet"
      BY <1>1, <1>7, <1>9
    <2>2. Reconciled(k)'
      BY <1>4, <1>5, <1>9 DEF Reconciled, c
    <2> QED
      BY <1>4, <1>6, <1>8, <1>9, <2>1, <2>2 DEF Progress
  <1>10. CASE c \notin BadConfigs /\ StoreCount[c] = 0
    <2>1. pc'[w] = "doneGet"
      BY <1>1, <1>7, <1>10
    <2>2. Len(stores'[obj'[k].uid]) = 0
      BY <1>5
    <2>3. Reconciled(k)'
      BY <1>3, <1>4, <1>10, <2>2 DEF Reconciled, c
    <2> QED
      BY <1>4, <1>8, <1>10, <2>1, <2>3 DEF Progress
  <1>11. CASE c \notin BadConfigs /\ StoreCount[c] # 0
    <2>1. pc'[w] = "build"
      BY <1>1, <1>7, <1>11
    <2>2. Len(stores'[obj'[k].uid]) = 0
      BY <1>5
    <2>3. BuiltUpTo(obj[k].uid, Generation(obj[k].uid), built[w])'
      BY <1>1, <1>2, <2>2 DEF BuiltUpTo
    <2>4. (built[w] < StoreCount[c])'
      BY <1>1, <1>2, <1>3, <1>4, <1>11
    <2>5. res'[w] = Current(k)' /\ c' # EmptyConfig
      BY <1>2, <1>3, <1>4
    <2> QED
      BY <1>4, <1>8, <1>11, <2>1, <2>3, <2>4, <2>5 DEF Progress, c
  <1> QED
    BY <1>9, <1>10, <1>11

LEMMA BuildProgress ==
  ASSUME IInv, OwnerInv, NEW w \in Workers, BuildStore(w),
         NEW k \in Names, obj[k] # Absent, Progress(w, k)
  PROVE  Progress(w, k)'
  <1>1. pc[w] = "build" /\ pc'[w] = "append"
    BY DEF BuildStore, Goto, IInv, TypeOK
  <1>2. /\ UNCHANGED <<specs, obj, res, built, stores>>
         /\ old'[w] = stores[res[w].uid]
    BY DEF BuildStore, IInv, TypeOK
  <1>3. /\ k \in Names /\ res[w] = Current(k) /\ res[w].uid = obj[k].uid
        /\ Configuration(Current(k)) # EmptyConfig /\ Progress(w, k)
    BY <1>1, BuilderOf
  <1>4. /\ Current(k)' = Current(k)
        /\ Generation(obj[k].uid)' = Generation(obj[k].uid)
        /\ Configuration(Current(k))' = Configuration(Current(k))
        /\ Unusable(k)' <=> Unusable(k)
    BY <1>2, <1>3, BuilderState
  <1>5. /\ ~Unusable(k)
        /\ BuiltUpTo(obj[k].uid, Generation(obj[k].uid), built[w])
        /\ built[w] < StoreCount[Configuration(Current(k))]
    BY <1>1, <1>3 DEF Progress
  <1>6. BuiltUpTo(obj[k].uid, Generation(obj[k].uid), built[w])'
    BY <1>2, <1>4, <1>5 DEF BuiltUpTo, Generation
  <1>7. old'[w] = stores'[obj'[k].uid] /\ res'[w] = Current(k)' /\ built' = built
    BY <1>2, <1>3, <1>4
  <1> QED
    BY <1>1, <1>3, <1>4, <1>5, <1>6, <1>7 DEF Progress

LEMMA AppendProgress ==
  ASSUME IInv, OwnerInv, NEW w \in Workers, AppendStore(w),
         NEW k \in Names, obj[k] # Absent, Progress(w, k)
  PROVE  Progress(w, k)'
  <1> DEFINE next == [gen |-> res[w].gen, idx |-> built[w] + 1]
             s == IF built[w] + 1 = StoreCount[Configuration(res[w])] THEN "doneGet" ELSE "build"
  <1>1. pc[w] = "append" /\ pc'[w] = s
    BY DEF AppendStore, Goto, IInv, TypeOK
  <1>2. /\ UNCHANGED <<specs, obj, res>>
         /\ stores' = [stores EXCEPT ![res[w].uid] = Append(old[w], next)]
         /\ built'[w] = built[w] + 1
    BY DEF AppendStore, IInv, TypeOK
  <1> DEFINE c == Configuration(Current(k))
             u == obj[k].uid
             g == Generation(u)
  <1>3. /\ k \in Names /\ u \in UIDs
        /\ res[w] = Current(k) /\ res[w].uid = u /\ res[w].gen = g
        /\ c # EmptyConfig /\ StoreCount[c] \in Nat
        /\ Progress(w, k)
    BY <1>1, BuilderOf
  <1>4. Current(k)' = Current(k) /\ c' = c /\ g' = g /\ u' = u /\ (Unusable(k)' <=> Unusable(k))
    BY <1>2, <1>3, BuilderState
  <1>5. ~Unusable(k) /\ BuiltUpTo(u, g, built[w]) /\ built[w] < StoreCount[c] /\ old[w] = stores[u]
    BY <1>1, <1>3 DEF Progress
  <1>6. built[w] \in Nat /\ stores[u] \in Seq(Store) /\ next = [gen |-> g, idx |-> built[w] + 1]
    BY <1>3 DEF IInv, TypeOK
  <1>7. stores'[u] = Append(stores[u], next)
    BY <1>2, <1>3, <1>5 DEF IInv, TypeOK
  <1> HIDE DEF next
  <1>8. /\ Len(stores'[u]) = built[w] + 1
        /\ \A i \in 1..built[w] + 1 : stores'[u][i] = [gen |-> g, idx |-> i]
    <2>1. Len(stores[u]) = built[w] /\ \A i \in 1..built[w] : stores[u][i] = [gen |-> g, idx |-> i]
      BY <1>5 DEF BuiltUpTo
    <2>2. /\ Len(stores'[u]) = Len(stores[u]) + 1
          /\ \A i \in 1..Len(stores[u]) : stores'[u][i] = stores[u][i]
          /\ stores'[u][Len(stores[u]) + 1] = next
      BY <1>6, <1>7
    <2>3. \A i \in 1..built[w] + 1 : i \in 1..built[w] \/ i = built[w] + 1
      BY <1>6
    <2> QED
      BY <1>6, <2>1, <2>2, <2>3
  <1>9. CASE built[w] + 1 = StoreCount[c]
    <2>1. pc'[w] = "doneGet"
      BY <1>1, <1>3, <1>9
    <2>2. specs'[u'][g] = c
      BY <1>2, <1>3, <1>4 DEF Configuration, Current
    <2>3. \A i \in 1..Len(stores'[u']) :
            stores'[u'][i].idx = i /\ specs'[u'][stores'[u'][i].gen] = c'
      <3> SUFFICES ASSUME NEW i \in 1..Len(stores'[u'])
                   PROVE  stores'[u'][i].idx = i /\ specs'[u'][stores'[u'][i].gen] = c'
        OBVIOUS
      <3>1. stores'[u'][i] = [gen |-> g, idx |-> i]
        BY <1>4, <1>8
      <3>2. stores'[u'][i].idx = i /\ stores'[u'][i].gen = g
        BY <3>1
      <3> HIDE DEF u, g, c
      <3> QED
        BY <1>4, <2>2, <3>2
    <2>4. Reconciled(k)'
      BY <1>4, <1>5, <1>8, <1>9, <2>3 DEF Reconciled, Unusable
    <2> QED
      BY <1>4, <1>5, <2>1, <2>4 DEF Progress
  <1>10. CASE built[w] + 1 # StoreCount[c]
    <2>1. pc'[w] = "build"
      BY <1>1, <1>3, <1>10
    <2>2. BuiltUpTo(u, g, built[w])'
      BY <1>2, <1>4, <1>8 DEF BuiltUpTo
    <2>3. built'[w] < StoreCount[c']
      BY <1>2, <1>3, <1>4, <1>5, <1>6, <1>10
    <2>4. res'[w] = Current(k)'
      BY <1>2, <1>3, <1>4
    <2> QED
      BY <1>3, <1>4, <1>5, <2>1, <2>2, <2>3, <2>4 DEF Progress
  <1> QED
    BY <1>9, <1>10

LEMMA DropServed ==
  ASSUME IInv, OwnerInv, CalmInv, NEW w \in Workers, DropStores(w)
  PROVE  OwnerInv' /\ CalmInv'
  <1>1. PICK k : NameOf(w) = k
    OBVIOUS
  <1>2. pc[w] = "drop" /\ built[w] = 0 /\ Goto(w, AfterDrop(w)) /\ pc'[w] = AfterDrop(w)
    BY DEF DropStores, OwnerInv, OwnerWorker, Goto, IInv, TypeOK
  <1>3. /\ UNCHANGED <<wqVars, specs, obj, stream, cache, fresh, res, calm, built, old>>
        /\ stores' = [stores EXCEPT ![res[w].uid] = <<>>]
    BY DEF DropStores
  <1>4. AfterDrop(w) \in {"build", "doneGet", "failGet"}
    BY <1>2, HeldItem DEF AfterDrop, IInv, WorkerInv, TypeOK, Events
  <1>5. k \in calm => Progress(w, k)'
    BY <1>1, <1>2, BuilderCalm, DropProgress
  <1> QED
    BY <1>1, <1>2, <1>3, <1>4, <1>5, BuilderServed DEF Steps

LEMMA BuildServed ==
  ASSUME IInv, OwnerInv, CalmInv, NEW w \in Workers, BuildStore(w)
  PROVE  OwnerInv' /\ CalmInv'
  <1>1. PICK k : NameOf(w) = k
    OBVIOUS
  <1>2. pc[w] = "build" /\ Goto(w, "append") /\ pc'[w] = "append"
    BY DEF BuildStore, Goto, IInv, TypeOK
  <1>3. /\ UNCHANGED <<wqVars, specs, obj, stream, cache, fresh, res, calm, built, stores>>
        /\ old'[w] = stores[res[w].uid]
        /\ \A v \in Workers \ {w} : old'[v] = old[v]
    BY DEF BuildStore, IInv, TypeOK
  <1>4. stores' = [stores EXCEPT ![res[w].uid] = stores[res[w].uid]]
    BY <1>3 DEF IInv, TypeOK
  <1>5. k \in calm => Progress(w, k)'
    BY <1>1, <1>2, BuilderCalm, BuildProgress
  <1> QED
    BY <1>1, <1>2, <1>3, <1>4, <1>5, BuilderServed DEF Steps

LEMMA AppendServed ==
  ASSUME IInv, OwnerInv, CalmInv, NEW w \in Workers, AppendStore(w)
  PROVE  OwnerInv' /\ CalmInv'
  <1> DEFINE next == [gen |-> res[w].gen, idx |-> built[w] + 1]
             s == IF built[w] + 1 = StoreCount[Configuration(res[w])] THEN "doneGet" ELSE "build"
  <1>1. PICK k : NameOf(w) = k
    OBVIOUS
  <1>2. pc[w] = "append" /\ Goto(w, s) /\ pc'[w] = s
    BY DEF AppendStore, Goto, IInv, TypeOK
  <1>3. /\ UNCHANGED <<wqVars, specs, obj, stream, cache, fresh, res, calm>>
        /\ stores' = [stores EXCEPT ![res[w].uid] = Append(old[w], next)]
        /\ built'[w] = built[w] + 1
        /\ \A v \in Workers \ {w} : built'[v] = built[v] /\ old'[v] = old[v]
    BY DEF AppendStore, IInv, TypeOK
  <1>4. k \in calm => Progress(w, k)'
    BY <1>1, <1>2, BuilderCalm, AppendProgress
  <1> HIDE DEF next
  <1>5. s \in {"build", "append", "doneGet", "failGet"} /\ s \in Steps
    BY DEF Steps
  <1> QED
    BY <1>1, <1>2, <1>3, <1>4, <1>5, BuilderServed

\* Get and Done: the worker starts or ends the handler of k.
LEMMA TurnServed ==
  ASSUME IInv, OwnerInv, CalmInv, NEW w \in Workers, NEW k \in Names,
         shuttingDown' = shuttingDown,
         \A n \in Names \ {k} : ~Handles(w, n) /\ ~Handles(w, n)',
         \A n \in Names \ {k} : \A e \in Events : <<n, e>> \in dirty' <=> <<n, e>> \in dirty,
         UNCHANGED <<specs, obj, stream, cache, fresh, old, sharedVars, calm>>,
         \A v \in Workers \ {w} :
           /\ holding'[v] = holding[v] /\ pc'[v] = pc[v]
           /\ res'[v] = res[v] /\ built'[v] = built[v],
         OwnerWorker(w)',
         k \in calm => CalmName(k)'
  PROVE  OwnerInv' /\ CalmInv'
  <1>1. Extended /\ SameIdentity
    BY DEF Extended, SameIdentity, IInv, TypeOK
  <1>2. OwnerInv'
    BY <1>1, OwnerFrame DEF OwnerInv, sharedVars
  <1>3. DeadInv'
    BY DeadFrame DEF CalmInv, sharedVars
  <1>4. ASSUME NEW n \in calm, n # k PROVE CalmName(n)'
    <2>1. n \in Names /\ CalmName(n)
      BY DEF CalmInv, IInv, TypeOK
    <2>2. SameResource(n)
      BY DEF SameResource, sharedVars
    <2>3. Same(n)
      BY <1>4, <2>1, <2>2, HandlerOthers
    <2> QED
      BY <2>1, <2>3, Untouched
  <1> QED
    BY <1>2, <1>3, <1>4 DEF CalmInv

LEMMA TakeServed ==
  ASSUME IInv, OwnerInv, CalmInv, NEW w \in Workers, TakeItem(w)
  PROVE  OwnerInv' /\ CalmInv'
  <1>1. pc[w] = "idle" /\ holding[w] = NoItem /\ queue # <<>> /\ queue \in Seq(Items)
    BY DEF TakeItem, Get, IInv, TypeOK, WQTypeOK
  <1>2. PICK k \in Names, e \in Events : Head(queue) = <<k, e>>
    BY <1>1, ItemsAssumption
  <1>3. <<k, e>> \in dirty
    <2>1. 1 \in 1..Len(queue) /\ Head(queue) = queue[1]
      BY <1>1
    <2> QED
      BY <1>2, <2>1 DEF IInv, WQInv, QueuedOnce
  <1>4. /\ dirty' = dirty \ {<<k, e>>}
        /\ holding'[w] = <<k, e>> /\ shuttingDown' = shuttingDown
        /\ \A v \in Workers \ {w} : holding'[v] = holding[v]
    BY <1>2 DEF TakeItem, Get, IInv, TypeOK, WQTypeOK
  <1>5. <<k, e>> # NoItem
    BY EnqueuedItem, NoItemAssumption
  <1>6. /\ pc'[w] = "metaGet" /\ \A v \in Workers \ {w} : pc'[v] = pc[v]
        /\ UNCHANGED <<specs, obj, stream, cache, fresh, res, built, old, sharedVars, calm>>
    BY DEF TakeItem, Goto, IInv, TypeOK
  <1>7. OwnerWorker(w)'
    BY <1>1, <1>6 DEF OwnerInv, OwnerWorker
  <1>8. \A n \in Names \ {k} : ~Handles(w, n) /\ ~Handles(w, n)'
    BY <1>1, <1>4 DEF Handles
  <1>9. \A n \in Names \ {k} : \A x \in Events : <<n, x>> \in dirty' <=> <<n, x>> \in dirty
    BY <1>4
  <1>10. ASSUME k \in calm PROVE CalmName(k)'
    <2>1. CalmName(k) /\ Marked(k)
      BY <1>3, <1>10 DEF CalmInv, Marked
    <2>2. obj[k] # Absent /\ CalmOnce(k)
      BY <2>1 DEF CalmName
    <2>3. /\ cache[k] # Nothing /\ NoStoresOf(k) /\ e = "addEvent"
          /\ \A v \in Workers : ~Handles(v, k)
      BY <1>3, <2>1, <2>2 DEF CalmOnce
    <2>4. ~Marked(k)' /\ \A x \in Events : <<k, x>> \notin dirty'
      BY <1>4, <2>2, <2>3 DEF CalmOnce, Marked
    <2>5. Handles(w, k)' /\ \A v \in Workers \ {w} : ~Handles(v, k)'
      BY <1>4, <1>5, <2>3 DEF Handles
    <2>6. Current(k)' = Current(k) /\ NoStoresOf(k)'
      <3>1. SameResource(k)
        BY <1>6 DEF SameResource, sharedVars
      <3> QED
        BY <2>2, <2>3, <3>1, SameState
    <2>7. Progress(w, k)'
      BY <1>6, <2>6 DEF Progress
    <2>8. CalmOnce(k)'
      BY <1>4, <1>6, <2>2, <2>3, <2>4, <2>5, <2>6, <2>7 DEF CalmOnce
    <2> QED
      BY <1>6, <2>2, <2>5, <2>8 DEF CalmName
  <1> QED
    BY <1>4, <1>6, <1>7, <1>8, <1>9, <1>10, TurnServed

LEMMA FinishServed ==
  ASSUME IInv, OwnerInv, CalmInv, NEW w \in Workers, FinishItem(w)
  PROVE  OwnerInv' /\ CalmInv'
  <1>1. pc[w] = "return" /\ holding[w] # NoItem
    BY DEF FinishItem, Done
  <1>2. PICK k \in Names : NameOf(w) = k
    BY <1>1, HeldItem DEF IInv, TypeOK
  <1>3. /\ dirty' = dirty /\ holding'[w] = NoItem /\ shuttingDown' = shuttingDown
        /\ \A v \in Workers \ {w} : holding'[v] = holding[v]
    BY DEF FinishItem, Done, IInv, TypeOK, WQTypeOK
  <1>4. /\ pc'[w] = "idle" /\ built'[w] = 0
        /\ \A v \in Workers \ {w} : pc'[v] = pc[v] /\ res'[v] = res[v] /\ built'[v] = built[v]
        /\ UNCHANGED <<specs, obj, stream, cache, fresh, old, sharedVars, calm>>
    BY DEF FinishItem, Goto, IInv, TypeOK
  <1>5. OwnerWorker(w)'
    BY <1>4 DEF OwnerWorker
  <1>6. \A n \in Names \ {k} : ~Handles(w, n) /\ ~Handles(w, n)'
    BY <1>2, <1>3 DEF Handles, NameOf
  <1>7. ASSUME k \in calm PROVE CalmName(k)'
    <2>1. /\ obj[k] # Absent /\ CalmOnce(k) /\ Progress(w, k)
          /\ ~Marked(k) /\ cache[k] # Nothing
          /\ \A v \in Workers : Handles(v, k) => v = w
      BY <1>1, <1>2, <1>7, HandledCalm
    <2>2. SameResource(k)
      BY <1>4 DEF SameResource, sharedVars
    <2>3. Current(k)' = Current(k) /\ Reconciled(k)' /\ OutcomeTold(k)'
      BY <1>1, <2>1, <2>2, SameState DEF Progress
    <2>4. \A v \in Workers : ~Handles(v, k)'
      BY <1>3, <2>1 DEF Handles
    <2>5. ~Marked(k)' /\ \A e \in Events : <<k, e>> \notin dirty'
      BY <1>3, <2>1 DEF Marked
    <2>6. CalmOnce(k)'
      BY <1>4, <2>1, <2>3, <2>4, <2>5 DEF CalmOnce
    <2>7. CalmRest(k)'
      BY <1>4, <2>1, <2>3 DEF CalmRest
    <2> QED
      BY <1>4, <2>1, <2>6, <2>7 DEF CalmName
  <1> QED
    BY <1>3, <1>4, <1>5, <1>6, <1>7, TurnServed
-----------------------------------------------------------------------------
LEMMA ServedInit == Init => OwnerInv /\ CalmInv
  <1> SUFFICES ASSUME Init PROVE OwnerInv /\ CalmInv
    OBVIOUS
  <1>1. /\ shuttingDown = FALSE /\ dirty = {} /\ stream = <<>> /\ calm = Names
        /\ \A w \in Workers : holding[w] = NoItem /\ pc[w] = "idle" /\ built[w] = 0
        /\ \A n \in Names : obj[n] = Absent /\ cache[n] = Nothing
        /\ \A u \in UIDs : stores[u] = <<>>
    BY DEF Init, WQInit
  <1>2. OwnerInv
    BY <1>1 DEF OwnerInv, OwnerWorker
  <1>3. \A n \in Names : CalmName(n)
    <2>1. Len(stream) = 0
      BY <1>1
    <2>2. \A n \in Names : ~About(n)
      BY <2>1 DEF About
    <2> QED
      BY <1>1, <2>2 DEF CalmName, Marked, Handles
  <1>4. CalmInv
    BY <1>1, <1>3 DEF CalmInv, DeadInv
  <1> QED
    BY <1>2, <1>4

LEMMA ServedStep ==
  ASSUME IInv, OwnerInv, CalmInv, NEW w \in Workers, Step(w) PROVE OwnerInv' /\ CalmInv'
  BY TakeServed, GetsServed, MetaServed, ReceivedServed, DropServed, BuildServed,
     AppendServed, FinalServed, FinishServed
     DEF Step

LEMMA ServedNext == ServedInv /\ [Next]_vars => ServedInv'
  <1> SUFFICES ASSUME IInv, OwnerInv, CalmInv, [Next]_vars PROVE IInv' /\ OwnerInv' /\ CalmInv'
    BY DEF ServedInv
  <1>1. IInv'
    BY NextInv
  <1>2. CASE \E n \in Names, u \in UIDs, c \in Configs : Create(n, u, c)
    BY <1>1, <1>2, CreateOwner, CreateCalm
  <1>3. CASE \E n \in Names, c \in Configs : EditSpec(n, c)
    BY <1>1, <1>3, EditServed
  <1>4. CASE (\E n \in Names : Touch(n)) \/ (\E n \in Names : Delete(n))
    BY <1>1, <1>4, TouchDeleteServed
  <1>5. CASE Deliver
    BY <1>1, <1>5, DeliverServed
  <1>6. CASE \E k \in 0..Len(stream) : Relist(k)
    BY <1>1, <1>6, RelistServed
  <1>7. CASE \E w \in Workers : Step(w)
    BY <1>1, <1>7, ServedStep
  <1>8. CASE Restart
    BY <1>1, <1>8, RestartServed
  <1>9. CASE UNCHANGED vars
    <2>1. UNCHANGED <<specs, obj, stream, cache, fresh, workerVars, sharedVars, calm, wqVars>>
      BY <1>9 DEF vars, ctlVars, workerVars, sharedVars
    <2>2. Extended /\ SameIdentity
      BY <2>1 DEF Extended, SameIdentity, IInv, TypeOK
    <2>3. OwnerInv'
      BY <2>1, <2>2, OwnerFrame DEF OwnerInv, workerVars, sharedVars, wqVars
    <2>4. DeadInv'
      BY <2>1, DeadFrame DEF CalmInv, sharedVars
    <2>5. ASSUME NEW n \in calm PROVE CalmName(n)'
      <3>1. SameInformer(n)
        BY <2>1 DEF SameInformer, About, wqVars
      <3>2. SameResource(n) /\ SameHandlers(n)
        BY <2>1 DEF SameResource, SameHandlers, Handles, workerVars, sharedVars, wqVars
      <3> QED
        BY <3>1, <3>2, Untouched DEF Same, CalmInv, IInv, TypeOK
    <2> QED
      BY <1>1, <2>1, <2>3, <2>4, <2>5 DEF CalmInv
  <1> QED
    BY <1>1, <1>2, <1>3, <1>4, <1>5, <1>6, <1>7, <1>8, <1>9 DEF Next

(***************************************************************************)
(* The invariant of undisturbed resources holds: the informer adds each of *)
(* them once, one worker handles it, and each step of that handler has     *)
(* done what Progress says (NewController, processNextWorkItem and         *)
(* handleEvent).                                                           *)
(***************************************************************************)
THEOREM CtlServedInvariant == Spec => []ServedInv
  <1>1. Init => ServedInv
    BY ServedInit, InitInv DEF ServedInv
  <1>2. ServedInv /\ [Next]_vars => ServedInv'
    BY ServedNext
  <1> QED
    BY <1>1, <1>2, PTL DEF Spec

(***************************************************************************)
(* A resource that was only created or listed since the start, with no     *)
(* failed call on it, ends with exactly its stores and the right status,   *)
(* whatever happens to the others; and when nothing was disturbed, nothing *)
(* that does not exist is served (handleEvent, dropStores and build, with  *)
(* any number of workers).                                                 *)
(***************************************************************************)
THEOREM CtlUndisturbedServed == Spec => []UndisturbedServed
  <1>1. ServedInv => UndisturbedServed
    <2> SUFFICES ASSUME IInv, CalmInv, Quiet PROVE UndisturbedServed
      BY DEF ServedInv, UndisturbedServed
    <2>1. stream = <<>> /\ dirty = {} /\ processing = {}
      BY DEF Quiet
    <2>2. ASSUME NEW n \in Names PROVE ~About(n) /\ ~Marked(n) /\ \A w \in Workers : ~Handles(w, n)
      <3>1. Len(stream) = 0
        BY <2>1
      <3>2. \A w \in Workers : holding[w] = NoItem
        BY <2>1 DEF IInv, WQInv, ProcessingIsHeld
      <3> QED
        BY <2>1, <3>1, <3>2 DEF About, Marked, Handles
    <2>3. ASSUME NEW n \in Listed, n \in calm PROVE Reconciled(n) /\ OutcomeTold(n)
      <3>1. n \in Names /\ obj[n] # Absent /\ CalmName(n)
        BY <2>3 DEF Listed, CalmInv
      <3>2. CalmRest(n)
        BY <2>2, <3>1 DEF CalmName
      <3> QED
        BY <2>2, <3>1, <3>2 DEF CalmRest
    <2> QED
      BY <2>3 DEF UndisturbedServed, CalmInv, DeadInv
  <1>2. Spec => []ServedInv
    BY CtlServedInvariant
  <1> QED
    BY <1>1, <1>2, PTL
=============================================================================
