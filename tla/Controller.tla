----------------------------- MODULE Controller -----------------------------
(***************************************************************************)
(* The reconciliation path of crdmetrics: CRDMetricsResources at the API   *)
(* server, the informer that watches them, the work queue, the workers     *)
(* that run handleEvent one API call or map access at a time, and the map  *)
(* from resource UID to metric stores that the main server exposes.        *)
(*                                                                         *)
(* A resource's resourceVersion is used for one thing, optimistic          *)
(* concurrency: an update is refused when the object changed since it was  *)
(* read.  fresh[w] says exactly that of the object worker w read last, so  *)
(* no version counter is kept.  A resource's generation is the length of   *)
(* its history of configurations.                                          *)
(***************************************************************************)
EXTENDS WorkQueue, FiniteSets

CONSTANTS
  Names,         \* keys of CRDMetricsResources (they are cluster-scoped)
  UIDs,          \* UIDs the API server may give to created resources
  Configs,       \* values of spec.configuration
  EmptyConfig,   \* the empty string
  BadConfigs,    \* configurations that are not YAML of the expected shape
  StoreCount,    \* number of entries under `stores` of a configuration
  Absent,        \* no resource of that name
  Nothing,       \* an unset condition, cache entry or worker variable
  Budget         \* bound: number of disturbances of each kind

Events == {"addEvent", "updateEvent", "deleteEvent"}

\* What may happen around the controller, besides creating resources: an edit
\* of a spec, a write that leaves the spec alone, a deletion, an API call that
\* fails, a crash of the process, a broken watch of the informer.
Disturbances == {"edit", "touch", "delete", "fault", "crash", "relist"}

ASSUME ItemsAssumption == IsFiniteSet(Names) /\ Items = Names \X Events
ASSUME ConfigAssumption ==
  /\ BadConfigs \subseteq Configs
  /\ StoreCount \in [Configs -> Nat]
ASSUME BoundAssumption == Budget \in [Disturbances -> Nat]

VARIABLES
  \* ---- the API server
  specs,      \* specs[u]: the configurations of resource u, by generation
  obj,        \* obj[n]: the resource of that name, or Absent
  \* ---- the informer
  stream,     \* watch events (deltas) not yet handed to the handlers
  cache,      \* cache[n]: the version of n in the informer's cache
  \* ---- a worker's local state in handleEvent
  pc,         \* the next step
  fresh,      \* the object w read last has not been written since
  res,        \* the resource returned by the first emitSuccessOnResource
  built,      \* stores built so far by configurer.build
  old,        \* the slice read from the map by the append in build
  \* ---- shared state of the controller
  stores,     \* crdmetricsUIDToStores
  reflectors, \* the stores whose reflector goroutine runs
  \* ---- bounds and history
  budget,     \* disturbances left
  calm        \* names with no edit, deletion, touch or failed call since the start

ctlVars == <<specs, obj, stream, cache, pc, fresh, res, built, old, stores,
             reflectors, budget, calm>>
vars == <<wqVars, ctlVars>>

Types == {"Processed", "Failed"}
Condition == [status : BOOLEAN, gen : Nat]
Object == [uid : UIDs, labelled : BOOLEAN,
           conds : [Types -> Condition \union {Nothing}]]
Version == [uid : UIDs, gen : Nat]
Delta == [type : {"Changed"}, name : Names, ver : Version]
         \union [type : {"Deleted", "Tombstone"}, name : Names, ver : {Nothing}]
Store == [gen : Nat, idx : Nat]
Steps == {"idle", "metaGet", "metaUpdate", "recvGet", "recvUpdate", "drop",
          "build", "append", "doneGet", "doneUpdate", "failGet", "failUpdate",
          "return"}

ASSUME SentinelAssumption ==
  Absent \notin Object /\ Nothing \notin Version \union Condition

Generation(u) == Len(specs[u])
Configuration(v) == specs[v.uid][v.gen]
Current(n) == [uid |-> obj[n].uid, gen |-> Generation(obj[n].uid)]
NameOf(w) == holding[w][1]
EventOf(w) == holding[w][2]
Handles(w, n) == holding[w] # NoItem /\ holding[w][1] = n

TypeOK ==
  /\ WQTypeOK
  /\ specs \in [UIDs -> Seq(Configs)]
  /\ obj \in [Names -> Object \union {Absent}]
  /\ stream \in Seq(Delta)
  /\ cache \in [Names -> Version \union {Nothing}]
  /\ pc \in [Workers -> Steps]
  /\ fresh \in [Workers -> BOOLEAN]
  /\ res \in [Workers -> Version \union {Nothing}]
  /\ built \in [Workers -> Nat]
  /\ old \in [Workers -> Seq(Store)]
  /\ stores \in [UIDs -> Seq(Store)]
  /\ reflectors \in SUBSET (UIDs \X Store)
  /\ budget \in [Disturbances -> Nat]
  /\ calm \in SUBSET Names

Init ==
  /\ WQInit
  /\ specs = [u \in UIDs |-> <<>>]
  /\ obj = [n \in Names |-> Absent]
  /\ stream = <<>>
  /\ cache = [n \in Names |-> Nothing]
  /\ pc = [w \in Workers |-> "idle"]
  /\ fresh = [w \in Workers |-> FALSE]
  /\ res = [w \in Workers |-> Nothing]
  /\ built = [w \in Workers |-> 0]
  /\ old = [w \in Workers |-> <<>>]
  /\ stores = [u \in UIDs |-> <<>>]
  /\ reflectors = {}
  /\ budget = Budget
  /\ calm = Names

Spend(d) ==
  /\ budget[d] > 0
  /\ budget' = [budget EXCEPT ![d] = @ - 1]

\* Every write of n makes what any worker has read of n stale.
Outdate(n) == fresh' = [w \in Workers |-> fresh[w] /\ ~Handles(w, n)]

Emit(type, n, v) == stream' = Append(stream, [type |-> type, name |-> n, ver |-> v])

workerVars == <<pc, res, built, old>>
sharedVars == <<stores, reflectors>>

-----------------------------------------------------------------------------
(* The API server and its users (external).                                *)

Create(n, u, c) ==
  /\ obj[n] = Absent
  /\ specs[u] = <<>>
  /\ specs' = [specs EXCEPT ![u] = <<c>>]
  /\ obj' = [obj EXCEPT ![n] = [uid |-> u, labelled |-> FALSE,
                                conds |-> [t \in Types |-> Nothing]]]
  /\ Outdate(n)
  /\ Emit("Changed", n, [uid |-> u, gen |-> 1])
  /\ UNCHANGED <<wqVars, cache, workerVars, sharedVars, budget, calm>>

EditSpec(n, c) ==
  /\ obj[n] # Absent
  /\ LET u == obj[n].uid IN
       /\ c # Configuration(Current(n))
       /\ specs' = [specs EXCEPT ![u] = Append(@, c)]
       /\ Emit("Changed", n, [uid |-> u, gen |-> Generation(u) + 1])
  /\ Spend("edit")
  /\ Outdate(n)
  /\ calm' = calm \ {n}
  /\ UNCHANGED <<wqVars, obj, cache, workerVars, sharedVars>>

\* A write by someone else that leaves the spec alone, e.g. of an annotation.
Touch(n) ==
  /\ obj[n] # Absent
  /\ Spend("touch")
  /\ Emit("Changed", n, Current(n))
  /\ Outdate(n)
  /\ calm' = calm \ {n}
  /\ UNCHANGED <<wqVars, specs, obj, cache, workerVars, sharedVars>>

Delete(n) ==
  /\ obj[n] # Absent
  /\ Spend("delete")
  /\ obj' = [obj EXCEPT ![n] = Absent]
  /\ Emit("Deleted", n, Nothing)
  /\ Outdate(n)
  /\ calm' = calm \ {n}
  /\ UNCHANGED <<wqVars, specs, cache, workerVars, sharedVars>>

-----------------------------------------------------------------------------
(* The informer: NewController's event handlers.                           *)

enqueueCRDMetrics(n, event) == Add(<<n, event>>)

\* Mutant of OnChange: UpdateFunc does not compare the specs.
OnChangeAlways(n, v) ==
  /\ enqueueCRDMetrics(n, IF cache[n] = Nothing THEN "addEvent" ELSE "updateEvent")
  /\ cache' = [cache EXCEPT ![n] = v]

\* Mutant of OnChange: there is no UpdateFunc.
OnChangeAddOnly(n, v) ==
  /\ IF cache[n] = Nothing THEN enqueueCRDMetrics(n, "addEvent") ELSE UNCHANGED wqVars
  /\ cache' = [cache EXCEPT ![n] = v]

\* AddFunc and UpdateFunc: the informer reports a change of an object it has
\* in its cache as an update.  Equal resource versions imply equal specs, so
\* the handler's two conditions are one.
OnChange(n, v) ==
  /\ \/ /\ cache[n] = Nothing
        /\ enqueueCRDMetrics(n, "addEvent")
     \/ /\ cache[n] # Nothing
        /\ Configuration(cache[n]) # Configuration(v)
        /\ enqueueCRDMetrics(n, "updateEvent")
     \/ /\ cache[n] # Nothing
        /\ Configuration(cache[n]) = Configuration(v)
        /\ UNCHANGED wqVars
  /\ cache' = [cache EXCEPT ![n] = v]

\* Mutant of OnDelete: a marker replaces the object instead of removing it.
OnDeleteMarks(n, type) ==
  /\ enqueueCRDMetrics(n, "deleteEvent")
  /\ cache' = [cache EXCEPT ![n] = Absent]

\* DeleteFunc.  For a deletion the informer only learns of from a list, the
\* object is a cache.DeletedFinalStateUnknown, for which MetaNamespaceKeyFunc
\* fails: enqueueCRDMetrics returns without queueing anything.
OnDelete(n, type) ==
  /\ \/ type = "Deleted" /\ enqueueCRDMetrics(n, "deleteEvent")
     \/ type = "Tombstone" /\ UNCHANGED wqVars
  /\ cache' = [cache EXCEPT ![n] = Nothing]

Deliver ==
  /\ stream # <<>>
  /\ LET d == Head(stream) IN
       \/ d.type = "Changed" /\ OnChange(d.name, d.ver)
       \/ d.type # "Changed" /\ OnDelete(d.name, d.type)
  /\ stream' = Tail(stream)
  /\ UNCHANGED <<specs, obj, fresh, workerVars, sharedVars, budget, calm>>

Listed == {n \in Names : obj[n] # Absent}

\* The sequences that contain every element of S once.
Orders(S) ==
  {q \in [1..Cardinality(S) -> S] : \A i, j \in 1..Cardinality(S) : q[i] = q[j] => i = j}

\* A list of the resources, in the order q.
ListDeltas(q) ==
  [i \in 1..Len(q) |-> [type |-> "Changed", name |-> q[i], ver |-> Current(q[i])]]

\* What the informer knows of n once it has handled the deltas s.
Known(n, s) ==
  LET about == {i \in 1..Len(s) : s[i].name = n} IN
  IF about = {}
  THEN cache[n] # Nothing
  ELSE \E i \in about : s[i].type = "Changed" /\ \A j \in about : j <= i

\* The watch breaks and cannot be resumed: the deltas after the k-th are lost
\* and the informer lists.  Objects it knows that are gone become tombstones.
Relist(k) ==
  LET kept == SubSeq(stream, 1, k)
      gone == {n \in Names \ Listed : Known(n, kept)}
  IN
  /\ Spend("relist")
  /\ \E q \in Orders(Listed), r \in Orders(gone) :
       stream' = kept \o ListDeltas(q)
                 \o [i \in 1..Len(r) |-> [type |-> "Tombstone", name |-> r[i], ver |-> Nothing]]
  /\ UNCHANGED <<wqVars, specs, obj, cache, fresh, workerVars, sharedVars, calm>>

-----------------------------------------------------------------------------
(* A worker: processNextWorkItem, syncHandler, handleObject, handleEvent.  *)

Goto(w, step) == pc' = [pc EXCEPT ![w] = step]

(***************************************************************************)
(* processNextWorkItem takes an item and syncHandler resolves its key.     *)
(* The informer's lister fails only with NotFound, for which syncHandler   *)
(* makes up an empty resource with the same name; handleEvent uses nothing *)
(* of the resource but its name, so what the cache holds does not matter,  *)
(* and syncHandler never returns an error (AddRateLimited is never called).*)
(***************************************************************************)
TakeItem(w) ==
  /\ pc[w] = "idle"
  /\ Get(w)
  /\ Goto(w, "metaGet")
  /\ UNCHANGED <<specs, obj, stream, cache, fresh, res, built, old, sharedVars,
                 budget, calm>>

\* An API call is answered with an error: no such object, or a failure of the
\* server or the connection.  Every such error makes handleEvent return nil.
CallFails(w, refused) ==
  /\ \/ refused /\ UNCHANGED <<budget, calm>>
     \/ Spend("fault") /\ calm' = calm \ {NameOf(w)}
  /\ Goto(w, "return")
  /\ fresh' = [fresh EXCEPT ![w] = FALSE]
  /\ UNCHANGED <<wqVars, specs, obj, stream, cache, res, built, old, sharedVars>>

\* Mutant of GetResource: a missing resource is not an error.
GetIgnoresMissing(w, next) ==
  /\ Goto(w, next)
  /\ fresh' = [fresh EXCEPT ![w] = TRUE]
  /\ UNCHANGED <<wqVars, specs, obj, stream, cache, res, built, old, sharedVars,
                 budget, calm>>

\* Get of the resource by name, then on to step next.
GetResource(w, next) ==
  \/ /\ obj[NameOf(w)] # Absent
     /\ Goto(w, next)
     /\ fresh' = [fresh EXCEPT ![w] = TRUE]
     /\ UNCHANGED <<wqVars, specs, obj, stream, cache, res, built, old, sharedVars,
                    budget, calm>>
  \/ CallFails(w, obj[NameOf(w)] = Absent)

\* The object read last is written back as o; refused if it is stale.
WriteResource(w, o) ==
  /\ fresh[w]
  /\ obj' = [obj EXCEPT ![NameOf(w)] = o]
  /\ Emit("Changed", NameOf(w), Current(NameOf(w)))
  /\ Outdate(NameOf(w))

\* The write is made but its answer is lost: an error to the caller.
AnswerLost(w, o) ==
  /\ WriteResource(w, o)
  /\ Spend("fault") /\ calm' = calm \ {NameOf(w)}
  /\ Goto(w, "return")
  /\ UNCHANGED <<wqVars, specs, cache, res, built, old, sharedVars>>

(***************************************************************************)
(* updateMetadata.  The poll's condition runs once, after a second: it     *)
(* answers true or an error, and an error ends the poll.  Writing labels   *)
(* that are already there changes nothing at the API server.               *)
(***************************************************************************)
MetaGet(w) == pc[w] = "metaGet" /\ GetResource(w, "metaUpdate")

MetaUpdate(w) ==
  /\ pc[w] = "metaUpdate"
  /\ \/ /\ fresh[w]
        /\ ~obj[NameOf(w)].labelled
        /\ WriteResource(w, [obj[NameOf(w)] EXCEPT !.labelled = TRUE])
        /\ Goto(w, "recvGet")
        /\ UNCHANGED <<wqVars, specs, cache, res, built, old, sharedVars, budget, calm>>
     \/ /\ fresh[w]
        /\ ~obj[NameOf(w)].labelled
        /\ AnswerLost(w, [obj[NameOf(w)] EXCEPT !.labelled = TRUE])
     \/ /\ fresh[w]
        /\ obj[NameOf(w)].labelled
        /\ fresh' = [fresh EXCEPT ![w] = FALSE]
        /\ Goto(w, "recvGet")
        /\ UNCHANGED <<wqVars, specs, obj, stream, cache, res, built, old, sharedVars,
                       budget, calm>>
     \/ CallFails(w, ~fresh[w])

\* Mutant of StatusSet: a condition that exists is not replaced.
StatusSetOnce(o, type, status) ==
  IF o.conds[type] # Nothing THEN o
  ELSE [o EXCEPT !.conds[type] = [status |-> status, gen |-> Generation(o.uid)]]

\* CRDMetricsResourceStatus.Set: one condition per type, stamped with the
\* generation of the object it is set on.
StatusSet(o, type, status) ==
  [o EXCEPT !.conds[type] = [status |-> status, gen |-> Generation(o.uid)]]

\* emitSuccessOnResource(..., ConditionFalse, "... received event").
ReceivedGet(w) == pc[w] = "recvGet" /\ GetResource(w, "recvUpdate")

\* Mutant of ReceivedUpdate: no early return for the empty configuration.
ReceivedUpdateAnyConfig(w) ==
  /\ pc[w] = "recvUpdate"
  /\ \/ /\ WriteResource(w, StatusSet(obj[NameOf(w)], "Processed", FALSE))
        /\ res' = [res EXCEPT ![w] = Current(NameOf(w))]
        /\ Goto(w, "drop")
        /\ UNCHANGED <<wqVars, specs, cache, built, old, sharedVars, budget, calm>>
     \/ CallFails(w, ~fresh[w])

ReceivedUpdate(w) ==
  /\ pc[w] = "recvUpdate"
  /\ \/ /\ WriteResource(w, StatusSet(obj[NameOf(w)], "Processed", FALSE))
        /\ res' = [res EXCEPT ![w] = Current(NameOf(w))]
        /\ Goto(w, IF Configuration(Current(NameOf(w))) = EmptyConfig
                   THEN "failGet" ELSE "drop")
        /\ UNCHANGED <<wqVars, specs, cache, built, old, sharedVars, budget, calm>>
     \/ AnswerLost(w, StatusSet(obj[NameOf(w)], "Processed", FALSE))
     \/ CallFails(w, ~fresh[w])

(***************************************************************************)
(* The switch of handleEvent: dropStores, then parse and build for add and *)
(* update events, nothing more for delete events.                          *)
(***************************************************************************)
AfterDrop(w) ==
  LET c == Configuration(res[w]) IN
  CASE EventOf(w) = "deleteEvent" -> "doneGet"
    [] EventOf(w) # "deleteEvent" /\ c \in BadConfigs -> "failGet"
    [] EventOf(w) # "deleteEvent" /\ c \notin BadConfigs ->
         IF StoreCount[c] = 0 THEN "doneGet" ELSE "build"

\* Mutant of DropStores: dropStores is not called.
DropNothing(w) ==
  /\ pc[w] = "drop"
  /\ Goto(w, AfterDrop(w))
  /\ UNCHANGED <<wqVars, specs, obj, stream, cache, fresh, res, built, old,
                 sharedVars, budget, calm>>

\* Mutant of DropStores: the reflectors of the dropped stores are stopped.
DropStopsReflectors(w) ==
  /\ pc[w] = "drop"
  /\ stores' = [stores EXCEPT ![res[w].uid] = <<>>]
  /\ reflectors' = {r \in reflectors : r[1] # res[w].uid}
  /\ Goto(w, AfterDrop(w))
  /\ UNCHANGED <<wqVars, specs, obj, stream, cache, fresh, res, built, old,
                 budget, calm>>

DropStores(w) ==
  /\ pc[w] = "drop"
  /\ stores' = [stores EXCEPT ![res[w].uid] = <<>>]
  /\ Goto(w, AfterDrop(w))
  /\ UNCHANGED <<wqVars, specs, obj, stream, cache, fresh, res, built, old,
                 reflectors, budget, calm>>

\* Mutant of BuildStore: the store replaces the slice instead of extending it.
BuildStoreAlone(w) ==
  /\ pc[w] = "build"
  /\ reflectors' = reflectors \union
       {<<res[w].uid, [gen |-> res[w].gen, idx |-> built[w] + 1]>>}
  /\ old' = [old EXCEPT ![w] = <<>>]
  /\ Goto(w, "append")
  /\ UNCHANGED <<wqVars, specs, obj, stream, cache, fresh, res, built, stores,
                 budget, calm>>

(***************************************************************************)
(* One round of configurer.build: buildStore makes a store and starts its  *)
(* reflector, then the store is appended to the map's slice.  The append   *)
(* reads the map and writes it back with no lock held: two steps.          *)
(***************************************************************************)
BuildStore(w) ==
  /\ pc[w] = "build"
  /\ reflectors' = reflectors \union
       {<<res[w].uid, [gen |-> res[w].gen, idx |-> built[w] + 1]>>}
  /\ old' = [old EXCEPT ![w] = stores[res[w].uid]]
  /\ Goto(w, "append")
  /\ UNCHANGED <<wqVars, specs, obj, stream, cache, fresh, res, built, stores,
                 budget, calm>>

AppendStore(w) ==
  /\ pc[w] = "append"
  /\ stores' = [stores EXCEPT ![res[w].uid] =
                  Append(old[w], [gen |-> res[w].gen, idx |-> built[w] + 1])]
  /\ built' = [built EXCEPT ![w] = @ + 1]
  /\ old' = [old EXCEPT ![w] = <<>>]
  /\ Goto(w, IF built[w] + 1 = StoreCount[Configuration(res[w])]
             THEN "doneGet" ELSE "build")
  /\ UNCHANGED <<wqVars, specs, obj, stream, cache, fresh, res, reflectors,
                 budget, calm>>

\* The last status write of handleEvent: emitSuccessOnResource(ConditionTrue)
\* or emitFailureOnResource.  Its errors are logged, nothing more.
DoneGet(w) == pc[w] = "doneGet" /\ GetResource(w, "doneUpdate")
FailGet(w) == pc[w] = "failGet" /\ GetResource(w, "failUpdate")

FinalUpdate(w, step, type) ==
  /\ pc[w] = step
  /\ \/ /\ WriteResource(w, StatusSet(obj[NameOf(w)], type, TRUE))
        /\ Goto(w, "return")
        /\ UNCHANGED <<wqVars, specs, cache, res, built, old, sharedVars, budget, calm>>
     \/ AnswerLost(w, StatusSet(obj[NameOf(w)], type, TRUE))
     \/ CallFails(w, ~fresh[w])

\* Mutant of DoneUpdate: the success is written under the other condition.
DoneUpdateFailed(w) == FinalUpdate(w, "doneUpdate", "Failed")

DoneUpdate(w) == FinalUpdate(w, "doneUpdate", "Processed")
FailUpdate(w) == FinalUpdate(w, "failUpdate", "Failed")

\* Mutant of FinishItem: Done is not called.
FinishWithoutDone(w) ==
  /\ pc[w] = "return"
  /\ holding' = [holding EXCEPT ![w] = NoItem]
  /\ Goto(w, "idle")
  /\ res' = [res EXCEPT ![w] = Nothing]
  /\ built' = [built EXCEPT ![w] = 0]
  /\ UNCHANGED <<queue, dirty, processing, shuttingDown, exited, specs, obj, stream,
                 cache, fresh, old, sharedVars, budget, calm>>

\* handleEvent returned nil: Forget and the deferred Done.
FinishItem(w) ==
  /\ pc[w] = "return"
  /\ Done(w)
  /\ Goto(w, "idle")
  /\ res' = [res EXCEPT ![w] = Nothing]
  /\ built' = [built EXCEPT ![w] = 0]
  /\ UNCHANGED <<specs, obj, stream, cache, fresh, old, sharedVars, budget, calm>>

Step(w) ==
  \/ TakeItem(w)   \/ MetaGet(w)     \/ MetaUpdate(w)
  \/ ReceivedGet(w) \/ ReceivedUpdate(w)
  \/ DropStores(w) \/ BuildStore(w)  \/ AppendStore(w)
  \/ DoneGet(w)    \/ DoneUpdate(w)  \/ FailGet(w)    \/ FailUpdate(w)
  \/ FinishItem(w)

(***************************************************************************)
(* The process dies (also: the Go runtime stops it on a concurrent map     *)
(* write) and its Deployment starts it again: everything in memory is lost *)
(* and the informer's first list reports every resource as added.          *)
(***************************************************************************)
Restart ==
  /\ Spend("crash")
  /\ queue' = <<>> /\ dirty' = {} /\ processing' = {} /\ exited' = {}
  /\ shuttingDown' = FALSE
  /\ holding' = [w \in Workers |-> NoItem]
  /\ \E q \in Orders(Listed) : stream' = ListDeltas(q)
  /\ cache' = [n \in Names |-> Nothing]
  /\ pc' = [w \in Workers |-> "idle"]
  /\ fresh' = [w \in Workers |-> FALSE]
  /\ res' = [w \in Workers |-> Nothing]
  /\ built' = [w \in Workers |-> 0]
  /\ old' = [w \in Workers |-> <<>>]
  /\ stores' = [u \in UIDs |-> <<>>]
  /\ reflectors' = {}
  /\ calm' = Names
  /\ UNCHANGED <<specs, obj>>

Next ==
  \/ \E n \in Names, u \in UIDs, c \in Configs : Create(n, u, c)
  \/ \E n \in Names, c \in Configs : EditSpec(n, c)
  \/ \E n \in Names : Touch(n)
  \/ \E n \in Names : Delete(n)
  \/ Deliver
  \/ \E k \in 0..Len(stream) : Relist(k)
  \/ \E w \in Workers : Step(w)
  \/ Restart

Spec == Init /\ [][Next]_vars

\* The informer's goroutines and the workers run; nobody is obliged to edit,
\* delete or fail.
Fairness == WF_vars(Deliver) /\ \A w \in Workers : WF_vars(Step(w))

FairSpec == Spec /\ Fairness

-----------------------------------------------------------------------------
(* Properties.                                                             *)

\* Nothing is on its way: no watch event, no queued item, no busy worker.
Quiet == stream = <<>> /\ dirty = {} /\ processing = {}

Live == {obj[n].uid : n \in Listed}

\* The stores of u are those a build of its generation g makes, up to the m-th.
BuiltUpTo(u, g, m) ==
  /\ Len(stores[u]) = m
  /\ \A i \in 1..m : stores[u][i] = [gen |-> g, idx |-> i]

\* Exactly the stores of the configuration that n has now are exposed.
Reconciled(n) ==
  LET u == obj[n].uid
      c == Configuration(Current(n))
  IN IF c \in BadConfigs \union {EmptyConfig}
     THEN stores[u] = <<>>
     ELSE /\ Len(stores[u]) = StoreCount[c]
          /\ \A i \in 1..Len(stores[u]) :
               stores[u][i].idx = i /\ specs[u][stores[u][i].gen] = c

(***************************************************************************)
(* Every store that is exposed is fed by a running reflector, also when    *)
(* two workers drop and append the stores of one resource in any order:    *)
(* what is exposed never stands still for good (go reflector.Run in        *)
(* buildStore, internal/builder.go, before the append in build).           *)
(***************************************************************************)
StoresFed ==
  \A u \in UIDs : \A i \in 1..Len(stores[u]) : <<u, stores[u][i]>> \in reflectors

(***************************************************************************)
(* A handler works on what is there: a worker in a handler holds its item, *)
(* an object it may still write exists (the resource version it read is    *)
(* the current one), and it drops and builds stores only for a resource    *)
(* that the API server returned to it, at a generation it had.             *)
(***************************************************************************)
WorkerInv ==
  \A w \in Workers :
    /\ pc[w] = "idle" <=> holding[w] = NoItem
    /\ fresh[w] => /\ pc[w] \in {"metaUpdate", "recvUpdate", "doneUpdate", "failUpdate"}
                   /\ obj[NameOf(w)] # Absent
    /\ pc[w] \in {"drop", "build", "append"} =>
         res[w] # Nothing /\ res[w].gen <= Generation(res[w].uid)

\* The Processed condition of n says what came of the configuration it has now,
\* and the Failed condition confirms it when nothing came of it.
OutcomeTold(n) ==
  LET cond(t) == obj[n].conds[t]
      now(b) == [status |-> b, gen |-> Generation(obj[n].uid)]
  IN IF Configuration(Current(n)) \in BadConfigs \union {EmptyConfig}
     THEN cond("Failed") = now(TRUE) /\ cond("Processed") = now(FALSE)
     ELSE cond("Processed") = now(TRUE)

(***************************************************************************)
(* dropStores "drops associated stores between resource changes"           *)
(* (internal/events.go): at any time the stores of a resource come from    *)
(* one run of build over one of its configurations; never from two runs,   *)
(* which would expose every family twice, or two generations side by side. *)
(***************************************************************************)
OneBuild ==
  \A u \in UIDs : \E g \in 0..Generation(u) : BuiltUpTo(u, g, Len(stores[u]))

\* A relist may have hidden edits of n that cancel out: UpdateFunc compares the
\* listed spec with the cached one, and a worker may have built one in between.
Coalesced(n) ==
  LET u == obj[n].uid IN
  /\ budget["relist"] < Budget["relist"]
  /\ \E i, j \in 1..Generation(u) : i # j /\ specs[u][i] = specs[u][j]

(***************************************************************************)
(* No change of a spec is lost: once nothing is on its way, every resource *)
(* has the stores of its current configuration.  Broken watches lose       *)
(* nothing either, except that edits back to a former configuration may    *)
(* coalesce.                                                               *)
(***************************************************************************)
NoLostUpdate == Quiet => \A n \in Listed : Reconciled(n) \/ Coalesced(n)

(***************************************************************************)
(* Processed tells the outcome: once nothing is on its way, a resource     *)
(* whose configuration can be processed is Processed at its generation,    *)
(* one whose configuration cannot is not Processed and Failed at its       *)
(* generation (the order of the two status writes of handleEvent, and      *)
(* their conflicts with edits).  Failed alone tells nothing, since no code *)
(* sets it back: see FailedExplained.                                      *)
(***************************************************************************)
ProcessedTellsOutcome == Quiet => \A n \in Listed : OutcomeTold(n) \/ Coalesced(n)

(***************************************************************************)
(* A Failed condition, at any time and beside any other condition, is the  *)
(* trace of a configuration that could not be processed: the resource had  *)
(* one at the generation of the condition or before.  It may be before,    *)
(* because emitFailureOnResource reads the resource anew, and with it the  *)
(* generation of an edit that the handler has not seen; when that edit has *)
(* been processed, Processed and Failed are both true of one generation.   *)
(***************************************************************************)
FailedExplained ==
  \A n \in Listed :
    LET u == obj[n].uid
        failed == obj[n].conds["Failed"]
    IN failed # Nothing =>
         \E g \in 1..Generation(u) :
           g <= failed.gen /\ specs[u][g] \in BadConfigs \union {EmptyConfig}

(***************************************************************************)
(* A resource nobody disturbs is served: whatever happens to the others,   *)
(* to the informer's watch and before the last restart of the process, and *)
(* with any number of workers, a resource that was only created or listed  *)
(* since the start, with no failed call on it, ends with exactly its       *)
(* stores and with Processed telling so.  When no resource was disturbed   *)
(* since the start, nothing that does not exist is served.                 *)
(***************************************************************************)
UndisturbedServed ==
  Quiet => /\ \A n \in Listed \intersect calm : Reconciled(n) /\ OutcomeTold(n)
           /\ calm = Names => \A u \in UIDs \ Live : stores[u] = <<>>

(***************************************************************************)
(* With one worker, the controller keeps the promises of Exposure: across  *)
(* edits, relists and restarts the stores of a resource are one build, fed *)
(* before they are exposed, and no step, nor a drop and a build after it,  *)
(* goes back to an older configuration (dropStores and build, and the      *)
(* object that the first status write of handleEvent returns).  An         *)
(* unusable configuration has no stores.                                   *)
(***************************************************************************)
E == INSTANCE Exposure WITH
  fed <- reflectors,
  Count <- [c \in Configs |-> IF c \in BadConfigs \union {EmptyConfig} THEN 0 ELSE StoreCount[c]]

ImplementsExposure == E!Spec

(***************************************************************************)
(* There is no reconciliation loop: the labels and the status that a       *)
(* handler writes come back through the informer, and are not queued       *)
(* again (the note in UpdateFunc, internal/controller.go).                 *)
(***************************************************************************)
Quiesces == <>[]Quiet

\* Once edits stop, what is exposed is and stays what the resources ask for.
Converges == <>[](\A n \in Listed : Reconciled(n) \/ Coalesced(n))

(***************************************************************************)
(* "Drop all associated stores" on a delete event (internal/events.go):    *)
(* the stores of a deleted resource are not exposed for ever.              *)
(***************************************************************************)
DeletedDropped == \A u \in UIDs : Quiet /\ u \notin Live => stores[u] = <<>>
=============================================================================
