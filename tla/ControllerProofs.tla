-------------------------- MODULE ControllerProofs --------------------------
(***************************************************************************)
(* Proofs about the reconciliation path, for every number of workers and   *)
(* every set of resources, configurations and disturbances.                *)
(***************************************************************************)
EXTENDS Controller, WorkQueueProofs, FiniteSetTheorems, SequenceTheorems

\* The inductive invariant: types, the queue's invariant, and what a worker's
\* place in its handler says about its other variables.
IInv == TypeOK /\ WQInv /\ WorkerInv

-----------------------------------------------------------------------------
(* Lemmas on the operators of the model.                                   *)

\* Items are pairs of a name and an event.
LEMMA HeldItem ==
  ASSUME WQTypeOK, NEW w \in Workers, holding[w] # NoItem
  PROVE  NameOf(w) \in Names /\ EventOf(w) \in Events
  BY ItemsAssumption DEF WQTypeOK, NameOf, EventOf

\* Items of enqueueCRDMetrics are items of the queue.
LEMMA EnqueuedItem ==
  ASSUME NEW n \in Names, NEW e \in Events PROVE <<n, e>> \in Items
  BY ItemsAssumption

\* The current version of a resource that exists.
LEMMA CurrentType ==
  ASSUME TypeOK, NEW n \in Names, obj[n] # Absent
  PROVE  /\ obj[n] \in Object
         /\ obj[n].uid \in UIDs
         /\ Current(n) \in Version
         /\ Current(n).uid = obj[n].uid
         /\ Current(n).gen = Generation(obj[n].uid)
  <1>1. obj[n] \in Object
    BY DEF TypeOK
  <1>2. obj[n].uid \in UIDs
    BY <1>1 DEF Object
  <1>3. Generation(obj[n].uid) \in Nat
    BY <1>2 DEF TypeOK, Generation
  <1> QED
    BY <1>1, <1>2, <1>3 DEF Current, Version

\* An emitted delta keeps the type of the stream.
LEMMA EmitChanged ==
  ASSUME stream \in Seq(Delta), NEW n \in Names, NEW v \in Version, Emit("Changed", n, v)
  PROVE  stream' \in Seq(Delta)
  <1>1. [type |-> "Changed", name |-> n, ver |-> v] \in Delta
    BY DEF Delta
  <1> QED
    BY <1>1 DEF Emit

LEMMA EmitDeleted ==
  ASSUME stream \in Seq(Delta), NEW n \in Names, Emit("Deleted", n, Nothing)
  PROVE  stream' \in Seq(Delta)
  <1>1. [type |-> "Deleted", name |-> n, ver |-> Nothing] \in Delta
    BY DEF Delta
  <1> QED
    BY <1>1 DEF Emit

\* A write clears fresh of the workers on that name and of nobody else.
LEMMA OutdateFresh ==
  ASSUME fresh \in [Workers -> BOOLEAN], NEW n, Outdate(n)
  PROVE  /\ fresh' \in [Workers -> BOOLEAN]
         /\ \A w \in Workers : fresh'[w] => fresh[w] /\ ~Handles(w, n)
  BY Zenon DEF Outdate

LEMMA SpendBudget ==
  ASSUME budget \in [Disturbances -> Nat], NEW d \in Disturbances, Spend(d)
  PROVE  budget' \in [Disturbances -> Nat]
  BY DEF Spend

\* Status.Set returns an object.
LEMMA StatusSetType ==
  ASSUME TypeOK, NEW o \in Object, NEW t \in Types, NEW b \in BOOLEAN
  PROVE  StatusSet(o, t, b) \in Object /\ StatusSet(o, t, b).uid = o.uid
  <1>1. Generation(o.uid) \in Nat
    BY DEF Object, TypeOK, Generation
  <1>2. [status |-> b, gen |-> Generation(o.uid)] \in Condition
    BY <1>1 DEF Condition
  <1> QED
    BY <1>2 DEF StatusSet, Object

\* The orders of a set of names are finite sequences of these names.
LEMMA OrdersType ==
  ASSUME NEW S \in SUBSET Names, NEW q \in Orders(S)
  PROVE  q \in Seq(S)
  <1>1. Cardinality(S) \in Nat
    BY ItemsAssumption, FS_Subset, FS_CardinalityType
  <1> QED
    BY <1>1 DEF Orders

\* What a list of the resources adds to the stream.
LEMMA ListDeltasType ==
  ASSUME TypeOK, NEW q \in Orders(Listed)
  PROVE  ListDeltas(q) \in Seq(Delta)
  <1>1. q \in Seq(Listed)
    BY OrdersType DEF Listed
  <1>2. \A i \in 1..Len(q) : q[i] \in Names /\ obj[q[i]] # Absent
    BY <1>1 DEF Listed
  <1>3. \A i \in 1..Len(q) : [type |-> "Changed", name |-> q[i], ver |-> Current(q[i])] \in Delta
    BY <1>2, CurrentType DEF Delta
  <1>4. Len(q) \in Nat
    BY <1>1
  <1> QED
    BY <1>3, <1>4 DEF ListDeltas
-----------------------------------------------------------------------------
(* The steps of the API server's users.                                    *)

LEMMA WQFrame ==
  ASSUME WQTypeOK, WQInv, UNCHANGED wqVars PROVE WQTypeOK' /\ WQInv'
  BY WQTypeStep, WQInvStep

\* Nothing that WorkerInv says of a worker is disturbed while the worker stays
\* where it is, histories only grow, and it is told of no object that is gone.
LEMMA SameWorker ==
  ASSUME IInv, NEW v \in Workers,
         pc'[v] = pc[v], res'[v] = res[v], holding'[v] = holding[v],
         specs' \in [UIDs -> Seq(Configs)],
         \A x \in UIDs : Len(specs[x]) <= Len(specs'[x]),
         fresh'[v] => fresh[v] /\ obj'[NameOf(v)] # Absent
  PROVE  WorkerInv!(v)'
  <1> USE DEF IInv
  <1>1. pc'[v] \in {"drop", "build", "append"} =>
          res'[v] # Nothing /\ res'[v].gen <= Len(specs'[res'[v].uid])
    <2> SUFFICES ASSUME pc[v] \in {"drop", "build", "append"}
                 PROVE  res[v] # Nothing /\ res[v].gen <= Len(specs'[res[v].uid])
      OBVIOUS
    <2>1. res[v] \in Version /\ res[v] # Nothing /\ res[v].gen <= Len(specs[res[v].uid])
      BY DEF WorkerInv, TypeOK, Generation
    <2>2. res[v].uid \in UIDs /\ res[v].gen \in Nat
      BY <2>1 DEF Version
    <2>3. Len(specs[res[v].uid]) \in Nat /\ Len(specs'[res[v].uid]) \in Nat
      BY <2>2 DEF TypeOK
    <2> QED
      BY <2>1, <2>2, <2>3
  <1> QED
    BY <1>1 DEF WorkerInv, NameOf, Generation

\* The same of all workers.
LEMMA Bystanders ==
  ASSUME IInv, UNCHANGED <<pc, res, holding>>,
         specs' \in [UIDs -> Seq(Configs)],
         \A x \in UIDs : Len(specs[x]) <= Len(specs'[x]),
         \A v \in Workers : fresh'[v] => fresh[v] /\ obj'[NameOf(v)] # Absent
  PROVE  WorkerInv'
  BY SameWorker DEF WorkerInv

\* A worker that is current on some object and not on n is current on an object
\* of another name.
LEMMA OtherNames ==
  ASSUME IInv, NEW n, NEW w \in Workers, fresh[w], ~Handles(w, n)
  PROVE  NameOf(w) \in Names /\ NameOf(w) # n /\ obj[NameOf(w)] # Absent
  <1>1. holding[w] # NoItem /\ obj[NameOf(w)] # Absent
    BY DEF IInv, WorkerInv
  <1> QED
    BY <1>1, HeldItem DEF Handles, NameOf, IInv, TypeOK

\* Creating a resource makes no worker's knowledge of it current.
LEMMA CreateInv ==
  ASSUME IInv, NEW n \in Names, NEW u \in UIDs, NEW c \in Configs, Create(n, u, c)
  PROVE  IInv'
  <1> USE DEF IInv
  <1>1. WQTypeOK' /\ WQInv'
    BY WQFrame DEF Create, TypeOK
  <1>2. stream' \in Seq(Delta)
    <2>1. [uid |-> u, gen |-> 1] \in Version
      BY DEF Version
    <2> QED
      BY <2>1, EmitChanged DEF TypeOK, Create
  <1>3. fresh' \in [Workers -> BOOLEAN] /\ \A w \in Workers : fresh'[w] => fresh[w] /\ ~Handles(w, n)
    BY OutdateFresh DEF TypeOK, Create
  <1>4. specs' \in [UIDs -> Seq(Configs)] /\ \A x \in UIDs : Len(specs[x]) <= Len(specs'[x])
    <2>1. <<c>> \in Seq(Configs) /\ Len(<<c>>) = 1 /\ Len(<<>>) = 0
      OBVIOUS
    <2> QED
      BY <2>1 DEF TypeOK, Create
  <1>5. obj' \in [Names -> Object \union {Absent}]
    <2>1. [uid |-> u, labelled |-> FALSE, conds |-> [t \in Types |-> Nothing]] \in Object
      BY DEF Object
    <2> QED
      BY <2>1 DEF TypeOK, Create
  <1>6. TypeOK'
    BY <1>1, <1>2, <1>3, <1>4, <1>5 DEF TypeOK, Create, workerVars, sharedVars
  <1>7. WorkerInv'
    <2>1. \A w \in Workers : fresh'[w] => fresh[w] /\ obj'[NameOf(w)] # Absent
      BY <1>3, OtherNames DEF Create, TypeOK
    <2> QED
      BY <1>4, <2>1, Bystanders DEF Create, workerVars, wqVars
  <1> QED
    BY <1>1, <1>6, <1>7
\* An edit of the spec makes the history longer.
LEMMA EditSpecInv ==
  ASSUME IInv, NEW n \in Names, NEW c \in Configs, EditSpec(n, c)
  PROVE  IInv'
  <1> USE DEF IInv
  <1> DEFINE u == obj[n].uid
  <1>1. WQTypeOK' /\ WQInv'
    BY WQFrame DEF EditSpec, TypeOK
  <1>2. u \in UIDs /\ Generation(u) \in Nat
    BY CurrentType DEF EditSpec, TypeOK, Generation
  <1>3. stream' \in Seq(Delta)
    <2>1. [uid |-> u, gen |-> Generation(u) + 1] \in Version
      BY <1>2 DEF Version
    <2> QED
      BY <2>1, EmitChanged DEF TypeOK, EditSpec
  <1>4. fresh' \in [Workers -> BOOLEAN] /\ \A w \in Workers : fresh'[w] => fresh[w] /\ ~Handles(w, n)
    BY OutdateFresh DEF TypeOK, EditSpec
  <1>5. specs' \in [UIDs -> Seq(Configs)] /\ \A x \in UIDs : Len(specs[x]) <= Len(specs'[x])
    BY <1>2 DEF TypeOK, EditSpec
  <1>6. budget' \in [Disturbances -> Nat]
    BY SpendBudget DEF EditSpec, TypeOK, Disturbances
  <1>7. TypeOK'
    BY <1>1, <1>3, <1>4, <1>5, <1>6 DEF TypeOK, EditSpec, workerVars, sharedVars
  <1>8. WorkerInv'
    <2>1. \A w \in Workers : fresh'[w] => fresh[w] /\ obj'[NameOf(w)] # Absent
      BY <1>4, OtherNames DEF EditSpec
    <2> QED
      BY <1>5, <2>1, Bystanders DEF EditSpec, workerVars, wqVars
  <1> QED
    BY <1>1, <1>7, <1>8

LEMMA TouchInv ==
  ASSUME IInv, NEW n \in Names, Touch(n) PROVE IInv'
  <1> USE DEF IInv
  <1>1. WQTypeOK' /\ WQInv'
    BY WQFrame DEF Touch, TypeOK
  <1>2. stream' \in Seq(Delta)
    BY EmitChanged, CurrentType DEF TypeOK, Touch
  <1>3. fresh' \in [Workers -> BOOLEAN] /\ \A w \in Workers : fresh'[w] => fresh[w] /\ ~Handles(w, n)
    BY OutdateFresh DEF TypeOK, Touch
  <1>4. budget' \in [Disturbances -> Nat]
    BY SpendBudget DEF Touch, TypeOK, Disturbances
  <1>5. TypeOK'
    BY <1>1, <1>2, <1>3, <1>4 DEF TypeOK, Touch, workerVars, sharedVars
  <1>6. WorkerInv'
    <2>1. \A w \in Workers : fresh'[w] => fresh[w] /\ obj'[NameOf(w)] # Absent
      BY <1>3, OtherNames DEF Touch
    <2>2. specs' \in [UIDs -> Seq(Configs)] /\ \A x \in UIDs : Len(specs[x]) <= Len(specs'[x])
      BY DEF TypeOK, Touch
    <2> QED
      BY <2>1, <2>2, Bystanders DEF Touch, workerVars, wqVars
  <1> QED
    BY <1>1, <1>5, <1>6

\* A deletion leaves no worker that may still write the object.
LEMMA DeleteInv ==
  ASSUME IInv, NEW n \in Names, Delete(n) PROVE IInv'
  <1> USE DEF IInv
  <1>1. WQTypeOK' /\ WQInv'
    BY WQFrame DEF Delete, TypeOK
  <1>2. stream' \in Seq(Delta)
    BY EmitDeleted DEF TypeOK, Delete
  <1>3. fresh' \in [Workers -> BOOLEAN] /\ \A w \in Workers : fresh'[w] => fresh[w] /\ ~Handles(w, n)
    BY OutdateFresh DEF TypeOK, Delete
  <1>4. budget' \in [Disturbances -> Nat]
    BY SpendBudget DEF Delete, TypeOK, Disturbances
  <1>5. TypeOK'
    BY <1>1, <1>2, <1>3, <1>4 DEF TypeOK, Delete, workerVars, sharedVars
  <1>6. WorkerInv'
    <2>1. \A w \in Workers : fresh'[w] => fresh[w] /\ obj'[NameOf(w)] # Absent
      BY <1>3, OtherNames DEF Delete, TypeOK
    <2>2. specs' \in [UIDs -> Seq(Configs)] /\ \A x \in UIDs : Len(specs[x]) <= Len(specs'[x])
      BY DEF TypeOK, Delete
    <2> QED
      BY <2>1, <2>2, Bystanders DEF Delete, workerVars, wqVars
  <1> QED
    BY <1>1, <1>5, <1>6

-----------------------------------------------------------------------------
(* The informer's steps.                                                   *)

\* The handlers only add items.
LEMMA DeliverQueue ==
  ASSUME IInv, Deliver
  PROVE  /\ WQTypeOK' /\ WQInv' /\ holding' = holding
         /\ cache' \in [Names -> Version \union {Nothing}]
  <1> USE DEF IInv
  <1> DEFINE d == Head(stream)
  <1>1. d \in Delta
    BY DEF TypeOK, Deliver
  <1>2. ASSUME NEW n \in Names, NEW e \in Events, enqueueCRDMetrics(n, e)
        PROVE  WQTypeOK' /\ WQInv' /\ holding' = holding
    <2>1. <<n, e>> \in Items
      BY EnqueuedItem
    <2>2. Add(<<n, e>>)
      BY <1>2 DEF enqueueCRDMetrics
    <2> QED
      BY <2>1, <2>2, AddType, AddInv DEF TypeOK, Add
  <1>3. ASSUME UNCHANGED wqVars PROVE WQTypeOK' /\ WQInv' /\ holding' = holding
    BY <1>3, WQFrame DEF TypeOK, wqVars
  <1>4. CASE d.type = "Changed" /\ OnChange(d.name, d.ver)
    <2>1. d.name \in Names /\ d.ver \in Version
      BY <1>1, <1>4 DEF Delta
    <2> QED
      BY <1>2, <1>3, <1>4, <2>1 DEF OnChange, TypeOK, Events
  <1>5. CASE d.type # "Changed" /\ OnDelete(d.name, d.type)
    <2>1. d.name \in Names
      BY <1>1 DEF Delta
    <2> QED
      BY <1>2, <1>3, <1>5, <2>1 DEF OnDelete, TypeOK, Events
  <1> QED
    BY <1>4, <1>5 DEF Deliver

LEMMA DeliverInv ==
  ASSUME IInv, Deliver PROVE IInv'
  <1> USE DEF IInv
  <1>1. /\ WQTypeOK' /\ WQInv' /\ holding' = holding
        /\ cache' \in [Names -> Version \union {Nothing}]
    BY DeliverQueue
  <1>2. stream' \in Seq(Delta)
    BY DEF TypeOK, Deliver
  <1>3. TypeOK'
    BY <1>1, <1>2 DEF TypeOK, Deliver, workerVars, sharedVars
  <1>4. WorkerInv'
    BY <1>1 DEF WorkerInv, Deliver, workerVars, NameOf, Generation
  <1> QED
    BY <1>1, <1>3, <1>4

LEMMA RelistInv ==
  ASSUME IInv, NEW k \in 0..Len(stream), Relist(k) PROVE IInv'
  <1> USE DEF IInv
  <1>1. WQTypeOK' /\ WQInv'
    BY WQFrame DEF Relist, TypeOK
  <1>2. budget' \in [Disturbances -> Nat]
    BY SpendBudget DEF Relist, TypeOK, Disturbances
  <1>3. stream' \in Seq(Delta)
    <2> DEFINE kept == SubSeq(stream, 1, k)
               gone == {n \in Names \ Listed : Known(n, kept)}
               tomb(r) == [i \in 1..Len(r) |->
                             [type |-> "Tombstone", name |-> r[i], ver |-> Nothing]]
    <2>1. PICK q \in Orders(Listed), r \in Orders(gone) :
             stream' = kept \o ListDeltas(q) \o tomb(r)
      BY DEF Relist
    <2>2. kept \in Seq(Delta)
      BY SubSeqProperties DEF TypeOK
    <2>3. ListDeltas(q) \in Seq(Delta)
      BY ListDeltasType
    <2>4. tomb(r) \in Seq(Delta)
      <3>1. r \in Seq(gone)
        BY OrdersType
      <3>2. Len(r) \in Nat /\ \A i \in 1..Len(r) : r[i] \in Names
        BY <3>1
      <3>3. \A i \in 1..Len(r) : [type |-> "Tombstone", name |-> r[i], ver |-> Nothing] \in Delta
        BY <3>2 DEF Delta
      <3> QED
        BY <3>2, <3>3
    <2> HIDE DEF kept, tomb
    <2> QED
      BY <2>1, <2>2, <2>3, <2>4
  <1>4. TypeOK'
    BY <1>1, <1>2, <1>3 DEF TypeOK, Relist, workerVars, sharedVars
  <1>5. WorkerInv'
    BY DEF WorkerInv, Relist, workerVars, wqVars, NameOf, Generation
  <1> QED
    BY <1>1, <1>4, <1>5
-----------------------------------------------------------------------------
(* The workers' steps.                                                     *)

\* A worker goes on in its handler to step s.
LEMMA WorkerMove ==
  ASSUME IInv, NEW w \in Workers, NEW s \in Steps, s # "idle", pc[w] # "idle",
         Goto(w, s), UNCHANGED wqVars, specs' = specs,
         \A v \in Workers \ {w} : res'[v] = res[v],
         \A v \in Workers \ {w} : fresh'[v] => fresh[v] /\ obj'[NameOf(v)] # Absent,
         fresh'[w] => /\ s \in {"metaUpdate", "recvUpdate", "doneUpdate", "failUpdate"}
                      /\ obj'[NameOf(w)] # Absent,
         s \in {"drop", "build", "append"} =>
           res'[w] # Nothing /\ res'[w].gen <= Generation(res'[w].uid)
  PROVE  pc' \in [Workers -> Steps] /\ WQTypeOK' /\ WQInv' /\ WorkerInv'
  <1> USE DEF IInv
  <1>1. WQTypeOK' /\ WQInv'
    BY WQFrame DEF TypeOK
  <1>2. /\ pc' \in [Workers -> Steps]
        /\ pc'[w] = s
        /\ \A v \in Workers \ {w} : pc'[v] = pc[v]
    BY DEF TypeOK, Goto
  <1>3. holding' = holding /\ holding[w] # NoItem
    BY DEF wqVars, WorkerInv
  <1>4. \A v \in Workers \ {w} : WorkerInv!(v)'
    <2>1. specs' \in [UIDs -> Seq(Configs)] /\ \A x \in UIDs : Len(specs[x]) <= Len(specs'[x])
      BY DEF TypeOK
    <2> QED
      BY <1>2, <1>3, <2>1, SameWorker
  <1>5. WorkerInv!(w)'
    BY <1>2, <1>3 DEF NameOf, Generation
  <1>6. WorkerInv'
    BY <1>4, <1>5 DEF WorkerInv
  <1> QED
    BY <1>1, <1>2, <1>6

\* A write by a worker: it needs a current read, and leaves nobody with one.
LEMMA WriteEffect ==
  ASSUME IInv, NEW w \in Workers, NEW o \in Object, WriteResource(w, o)
  PROVE  /\ obj' \in [Names -> Object \union {Absent}]
         /\ stream' \in Seq(Delta)
         /\ fresh' \in [Workers -> BOOLEAN]
         /\ ~fresh'[w]
         /\ \A v \in Workers : fresh'[v] => fresh[v] /\ obj'[NameOf(v)] # Absent
  <1> USE DEF IInv
  <1> DEFINE n == NameOf(w)
  <1>1. holding[w] # NoItem /\ obj[n] # Absent
    BY DEF WriteResource, WorkerInv
  <1>2. n \in Names
    BY <1>1, HeldItem DEF TypeOK
  <1>3. obj' \in [Names -> Object \union {Absent}]
    BY DEF WriteResource, TypeOK
  <1>4. stream' \in Seq(Delta)
    BY <1>1, <1>2, EmitChanged, CurrentType DEF WriteResource, TypeOK
  <1>5. fresh' \in [Workers -> BOOLEAN] /\ \A v \in Workers : fresh'[v] => fresh[v] /\ ~Handles(v, n)
    BY OutdateFresh DEF WriteResource, TypeOK
  <1>6. ~fresh'[w]
    BY <1>1, <1>5 DEF Handles, NameOf
  <1>7. \A v \in Workers : fresh'[v] => fresh[v] /\ obj'[NameOf(v)] # Absent
    BY <1>5, OtherNames DEF WriteResource, TypeOK
  <1> QED
    BY <1>3, <1>4, <1>5, <1>6, <1>7

\* What a worker may write exists.
LEMMA FreshObject ==
  ASSUME IInv, NEW w \in Workers, fresh[w]
  PROVE  /\ NameOf(w) \in Names
         /\ obj[NameOf(w)] \in Object
         /\ pc[w] # "idle"
  <1>1. holding[w] # NoItem /\ obj[NameOf(w)] # Absent /\ pc[w] # "idle"
    BY DEF IInv, WorkerInv
  <1> QED
    BY <1>1, HeldItem DEF IInv, TypeOK

\* A failed call ends the handler.
LEMMA CallFailsInv ==
  ASSUME IInv, NEW w \in Workers, NEW r, pc[w] # "idle", CallFails(w, r)
  PROVE  IInv'
  <1> USE DEF IInv
  <1>1. budget' \in [Disturbances -> Nat] /\ calm' \in SUBSET Names
    BY SpendBudget DEF CallFails, TypeOK, Disturbances
  <1>2. fresh' \in [Workers -> BOOLEAN] /\ ~fresh'[w] /\ \A v \in Workers \ {w} : fresh'[v] = fresh[v]
    BY Zenon DEF CallFails, TypeOK
  <1>3. \A v \in Workers \ {w} : fresh'[v] => fresh[v] /\ obj'[NameOf(v)] # Absent
    BY <1>2 DEF CallFails, WorkerInv
  <1>4. pc' \in [Workers -> Steps] /\ WQTypeOK' /\ WQInv' /\ WorkerInv'
    BY <1>2, <1>3, WorkerMove DEF CallFails, Steps
  <1>5. TypeOK'
    BY <1>1, <1>2, <1>4 DEF TypeOK, CallFails, sharedVars
  <1> QED
    BY <1>4, <1>5

\* A write whose answer is lost ends the handler too.
LEMMA AnswerLostInv ==
  ASSUME IInv, NEW w \in Workers, NEW o \in Object, AnswerLost(w, o)
  PROVE  IInv'
  <1> USE DEF IInv
  <1>1. WriteResource(w, o) /\ fresh[w]
    BY DEF AnswerLost, WriteResource
  <1>2. budget' \in [Disturbances -> Nat] /\ calm' \in SUBSET Names
    BY SpendBudget DEF AnswerLost, TypeOK, Disturbances
  <1>3. pc' \in [Workers -> Steps] /\ WQTypeOK' /\ WQInv' /\ WorkerInv'
    BY <1>1, WriteEffect, FreshObject, WorkerMove DEF AnswerLost, Steps
  <1>4. TypeOK'
    BY <1>1, <1>2, <1>3, WriteEffect DEF TypeOK, AnswerLost, sharedVars
  <1> QED
    BY <1>3, <1>4

\* A read, then on to a step that writes.
LEMMA GetResourceInv ==
  ASSUME IInv, NEW w \in Workers, pc[w] # "idle",
         NEW s \in {"metaUpdate", "recvUpdate", "doneUpdate", "failUpdate"},
         GetResource(w, s)
  PROVE  IInv'
  <1> USE DEF IInv
  <1>1. CASE CallFails(w, obj[NameOf(w)] = Absent)
    BY <1>1, CallFailsInv
  <1>2. CASE /\ obj[NameOf(w)] # Absent
             /\ Goto(w, s)
             /\ fresh' = [fresh EXCEPT ![w] = TRUE]
             /\ UNCHANGED <<wqVars, specs, obj, stream, cache, res, built, old, sharedVars,
                            budget, calm>>
    <2>1. fresh' \in [Workers -> BOOLEAN] /\ \A v \in Workers \ {w} : fresh'[v] = fresh[v]
      BY Zenon, <1>2 DEF TypeOK
    <2>2. \A v \in Workers \ {w} : fresh'[v] => fresh[v] /\ obj'[NameOf(v)] # Absent
      BY <1>2, <2>1 DEF WorkerInv
    <2>3. pc' \in [Workers -> Steps] /\ WQTypeOK' /\ WQInv' /\ WorkerInv'
      BY <1>2, <2>2, WorkerMove DEF Steps
    <2>4. TypeOK'
      BY <1>2, <2>1, <2>3 DEF TypeOK, sharedVars
    <2> QED
      BY <2>3, <2>4
  <1> QED
    BY <1>1, <1>2 DEF GetResource
LEMMA TakeItemInv ==
  ASSUME IInv, NEW w \in Workers, TakeItem(w) PROVE IInv'
  <1> USE DEF IInv
  <1>1. WQTypeOK' /\ WQInv'
    BY GetType, GetInv DEF TakeItem, TypeOK
  <1>2. /\ pc' \in [Workers -> Steps]
        /\ pc'[w] = "metaGet"
        /\ \A v \in Workers \ {w} : pc'[v] = pc[v]
    BY DEF TakeItem, Goto, TypeOK, Steps
  <1>3. /\ holding'[w] # NoItem
        /\ \A v \in Workers \ {w} : holding'[v] = holding[v]
    <2>1. Head(queue) \in Items
      BY DEF TakeItem, Get, TypeOK, WQTypeOK
    <2> QED
      BY <2>1, NoItemAssumption DEF TakeItem, Get, TypeOK, WQTypeOK
  <1>4. TypeOK'
    BY <1>1, <1>2 DEF TypeOK, TakeItem, sharedVars
  <1>5. WorkerInv'
    <2>1. ~fresh'[w]
      BY DEF TakeItem, WorkerInv
    <2>2. \A v \in Workers \ {w} : WorkerInv!(v)'
      BY <1>2, <1>3 DEF WorkerInv, TakeItem, NameOf, Generation
    <2>3. WorkerInv!(w)'
      BY <1>2, <1>3, <2>1
    <2> QED
      BY <2>2, <2>3 DEF WorkerInv
  <1> QED
    BY <1>1, <1>4, <1>5

LEMMA MetaUpdateInv ==
  ASSUME IInv, NEW w \in Workers, MetaUpdate(w) PROVE IInv'
  <1> USE DEF IInv
  <1> DEFINE o == [obj[NameOf(w)] EXCEPT !.labelled = TRUE]
  <1>1. pc[w] = "metaUpdate"
    BY DEF MetaUpdate
  <1>2. ASSUME fresh[w] PROVE o \in Object
    BY <1>2, FreshObject DEF Object
  <1>3. CASE CallFails(w, ~fresh[w])
    BY <1>1, <1>3, CallFailsInv
  <1>4. CASE fresh[w] /\ AnswerLost(w, o)
    BY <1>2, <1>4, AnswerLostInv
  <1>5. CASE /\ fresh[w]
             /\ WriteResource(w, o)
             /\ Goto(w, "recvGet")
             /\ UNCHANGED <<wqVars, specs, cache, res, built, old, sharedVars, budget, calm>>
    <2>1. o \in Object
      BY <1>2, <1>5
    <2>2. /\ obj' \in [Names -> Object \union {Absent}]
          /\ stream' \in Seq(Delta)
          /\ fresh' \in [Workers -> BOOLEAN]
          /\ ~fresh'[w]
          /\ \A v \in Workers : fresh'[v] => fresh[v] /\ obj'[NameOf(v)] # Absent
      BY <1>5, <2>1, WriteEffect
    <2>3. pc' \in [Workers -> Steps] /\ WQTypeOK' /\ WQInv' /\ WorkerInv'
      BY <1>1, <1>5, <2>2, WorkerMove DEF Steps
    <2>4. TypeOK'
      BY <1>5, <2>2, <2>3 DEF TypeOK, sharedVars
    <2> QED
      BY <2>3, <2>4
  <1>6. CASE /\ fresh[w]
             /\ fresh' = [fresh EXCEPT ![w] = FALSE]
             /\ Goto(w, "recvGet")
             /\ UNCHANGED <<wqVars, specs, obj, stream, cache, res, built, old, sharedVars,
                            budget, calm>>
    <2>1. fresh' \in [Workers -> BOOLEAN] /\ ~fresh'[w] /\ \A v \in Workers \ {w} : fresh'[v] = fresh[v]
      BY Zenon, <1>6 DEF TypeOK
    <2>2. \A v \in Workers \ {w} : fresh'[v] => fresh[v] /\ obj'[NameOf(v)] # Absent
      BY <1>6, <2>1 DEF WorkerInv
    <2>3. pc' \in [Workers -> Steps] /\ WQTypeOK' /\ WQInv' /\ WorkerInv'
      BY <1>1, <1>6, <2>1, <2>2, WorkerMove DEF Steps
    <2>4. TypeOK'
      BY <1>6, <2>1, <2>3 DEF TypeOK, sharedVars
    <2> QED
      BY <2>3, <2>4
  <1> QED
    BY <1>3, <1>4, <1>5, <1>6 DEF MetaUpdate

\* The worker remembers a version that the resource has at that moment.
LEMMA ReceivedUpdateInv ==
  ASSUME IInv, NEW w \in Workers, ReceivedUpdate(w) PROVE IInv'
  <1> USE DEF IInv
  <1> DEFINE n == NameOf(w)
             o == StatusSet(obj[n], "Processed", FALSE)
             s == IF Configuration(Current(n)) = EmptyConfig THEN "failGet" ELSE "drop"
  <1>1. pc[w] = "recvUpdate"
    BY DEF ReceivedUpdate
  <1>2. ASSUME fresh[w] PROVE o \in Object
    BY <1>2, FreshObject, StatusSetType DEF Types
  <1>3. CASE CallFails(w, ~fresh[w])
    BY <1>1, <1>3, CallFailsInv
  <1>4. CASE AnswerLost(w, o)
    <2>1. fresh[w]
      BY <1>4 DEF AnswerLost, WriteResource
    <2> QED
      BY <1>2, <1>4, <2>1, AnswerLostInv
  <1>5. CASE /\ WriteResource(w, o)
             /\ res' = [res EXCEPT ![w] = Current(n)]
             /\ Goto(w, s)
             /\ UNCHANGED <<wqVars, specs, cache, built, old, sharedVars, budget, calm>>
    <2>1. fresh[w]
      BY <1>5 DEF WriteResource
    <2>2. /\ obj' \in [Names -> Object \union {Absent}]
          /\ stream' \in Seq(Delta)
          /\ fresh' \in [Workers -> BOOLEAN]
          /\ ~fresh'[w]
          /\ \A v \in Workers : fresh'[v] => fresh[v] /\ obj'[NameOf(v)] # Absent
      BY <1>2, <1>5, <2>1, WriteEffect
    <2>3. /\ Current(n) \in Version
          /\ Current(n).gen = Generation(Current(n).uid)
          /\ Generation(Current(n).uid) \in Nat
      <3>1. n \in Names /\ obj[n] # Absent
        BY <2>1, FreshObject, SentinelAssumption
      <3> QED
        BY <3>1, CurrentType DEF Version
    <2>4. /\ res' \in [Workers -> Version \union {Nothing}]
          /\ res'[w] = Current(n)
          /\ \A v \in Workers \ {w} : res'[v] = res[v]
      BY <1>5, <2>3 DEF TypeOK
    <2>5. res'[w] # Nothing /\ res'[w].gen <= Generation(res'[w].uid)
      BY <2>3, <2>4, SentinelAssumption
    <2>6. s \in Steps /\ s # "idle"
      BY DEF Steps
    <2> HIDE DEF s
    <2>7. pc' \in [Workers -> Steps] /\ WQTypeOK' /\ WQInv' /\ WorkerInv'
      BY <1>1, <1>5, <2>2, <2>4, <2>5, <2>6, WorkerMove
    <2>8. TypeOK'
      BY <1>5, <2>2, <2>4, <2>7 DEF TypeOK, sharedVars
    <2> QED
      BY <2>7, <2>8
  <1> QED
    BY <1>3, <1>4, <1>5 DEF ReceivedUpdate

LEMMA FinalUpdateInv ==
  ASSUME IInv, NEW w \in Workers, NEW p, p # "idle", NEW t \in Types, FinalUpdate(w, p, t)
  PROVE  IInv'
  <1> USE DEF IInv
  <1> DEFINE o == StatusSet(obj[NameOf(w)], t, TRUE)
  <1>1. pc[w] # "idle"
    BY DEF FinalUpdate
  <1>2. ASSUME fresh[w] PROVE o \in Object
    BY <1>2, FreshObject, StatusSetType
  <1>3. CASE CallFails(w, ~fresh[w])
    BY <1>1, <1>3, CallFailsInv
  <1>4. CASE AnswerLost(w, o)
    <2>1. fresh[w]
      BY <1>4 DEF AnswerLost, WriteResource
    <2> QED
      BY <1>2, <1>4, <2>1, AnswerLostInv
  <1>5. CASE /\ WriteResource(w, o)
             /\ Goto(w, "return")
             /\ UNCHANGED <<wqVars, specs, cache, res, built, old, sharedVars, budget, calm>>
    <2>1. fresh[w]
      BY <1>5 DEF WriteResource
    <2>2. /\ obj' \in [Names -> Object \union {Absent}]
          /\ stream' \in Seq(Delta)
          /\ fresh' \in [Workers -> BOOLEAN]
          /\ ~fresh'[w]
          /\ \A v \in Workers : fresh'[v] => fresh[v] /\ obj'[NameOf(v)] # Absent
      BY <1>2, <1>5, <2>1, WriteEffect
    <2>3. pc' \in [Workers -> Steps] /\ WQTypeOK' /\ WQInv' /\ WorkerInv'
      BY <1>1, <1>5, <2>2, WorkerMove DEF Steps
    <2>4. TypeOK'
      BY <1>5, <2>2, <2>3 DEF TypeOK, sharedVars
    <2> QED
      BY <2>3, <2>4
  <1> QED
    BY <1>3, <1>4, <1>5 DEF FinalUpdate
\* Steps on the map of stores: the API server's objects, the queue and what
\* the workers know of the objects stay.
LEMMA LocalMove ==
  ASSUME IInv, NEW w \in Workers, NEW s \in Steps, s # "idle", Goto(w, s),
         pc[w] \in {"drop", "build", "append"},
         UNCHANGED <<wqVars, specs, obj, fresh, res>>
  PROVE  /\ pc' \in [Workers -> Steps] /\ WQTypeOK' /\ WQInv' /\ WorkerInv'
         /\ res[w] \in Version /\ res[w].uid \in UIDs /\ res[w].gen \in Nat
  <1> USE DEF IInv
  <1>1. res[w] # Nothing /\ res[w].gen <= Generation(res[w].uid)
    BY DEF WorkerInv
  <1>2. ~fresh[w]
    BY DEF WorkerInv
  <1>3. \A v \in Workers \ {w} : fresh'[v] => fresh[v] /\ obj'[NameOf(v)] # Absent
    BY DEF WorkerInv
  <1>4. pc' \in [Workers -> Steps] /\ WQTypeOK' /\ WQInv' /\ WorkerInv'
    BY <1>1, <1>2, <1>3, WorkerMove
  <1>5. res[w] \in Version
    BY <1>1 DEF TypeOK
  <1> QED
    BY <1>4, <1>5 DEF Version

LEMMA AfterDropStep ==
  ASSUME NEW w PROVE AfterDrop(w) \in Steps /\ AfterDrop(w) # "idle"
  BY DEF AfterDrop, Steps

LEMMA DropStoresInv ==
  ASSUME IInv, NEW w \in Workers, DropStores(w) PROVE IInv'
  <1>1. pc' \in [Workers -> Steps] /\ WQTypeOK' /\ WQInv' /\ WorkerInv'
    BY AfterDropStep, LocalMove DEF DropStores
  <1>2. stores' \in [UIDs -> Seq(Store)]
    <2>1. <<>> \in Seq(Store) /\ stores \in [UIDs -> Seq(Store)]
      BY DEF IInv, TypeOK
    <2>2. stores' = [stores EXCEPT ![res[w].uid] = <<>>]
      BY DEF DropStores
    <2> QED
      BY <2>1, <2>2
  <1>3. TypeOK'
    BY <1>1, <1>2 DEF IInv, TypeOK, DropStores
  <1> QED
    BY <1>1, <1>3 DEF IInv

\* The store that worker w builds next.
NextStore(w) == [gen |-> res[w].gen, idx |-> built[w] + 1]

LEMMA NextStoreType ==
  ASSUME IInv, NEW w \in Workers, res[w] \in Version PROVE NextStore(w) \in Store
  BY DEF NextStore, Store, Version, IInv, TypeOK

LEMMA BuildStoreInv ==
  ASSUME IInv, NEW w \in Workers, BuildStore(w) PROVE IInv'
  <1>1. /\ pc' \in [Workers -> Steps] /\ WQTypeOK' /\ WQInv' /\ WorkerInv'
        /\ res[w] \in Version /\ res[w].uid \in UIDs
    BY LocalMove DEF BuildStore, Steps
  <1>2. reflectors' \in SUBSET (UIDs \X Store)
    BY <1>1, NextStoreType DEF BuildStore, IInv, TypeOK, NextStore
  <1>3. old' \in [Workers -> Seq(Store)]
    BY <1>1 DEF BuildStore, IInv, TypeOK
  <1>4. TypeOK'
    BY <1>1, <1>2, <1>3 DEF IInv, TypeOK, BuildStore
  <1> QED
    BY <1>1, <1>4 DEF IInv

LEMMA AppendStoreInv ==
  ASSUME IInv, NEW w \in Workers, AppendStore(w) PROVE IInv'
  <1> DEFINE s == IF built[w] + 1 = StoreCount[Configuration(res[w])]
                  THEN "doneGet" ELSE "build"
  <1>0. s \in Steps /\ s # "idle" /\ Goto(w, s)
    BY DEF Steps, AppendStore
  <1> HIDE DEF s
  <1>1. /\ pc' \in [Workers -> Steps] /\ WQTypeOK' /\ WQInv' /\ WorkerInv'
        /\ res[w] \in Version
    BY <1>0, LocalMove DEF AppendStore
  <1>2. stores' \in [UIDs -> Seq(Store)]
    <2>1. Append(old[w], NextStore(w)) \in Seq(Store)
      BY <1>1, NextStoreType DEF IInv, TypeOK
    <2> QED
      BY <2>1 DEF AppendStore, NextStore, IInv, TypeOK
  <1>3. built' \in [Workers -> Nat] /\ old' \in [Workers -> Seq(Store)]
    BY DEF AppendStore, IInv, TypeOK
  <1>4. TypeOK'
    BY <1>1, <1>2, <1>3 DEF IInv, TypeOK, AppendStore
  <1> QED
    BY <1>1, <1>4 DEF IInv

LEMMA FinishItemInv ==
  ASSUME IInv, NEW w \in Workers, FinishItem(w) PROVE IInv'
  <1> USE DEF IInv
  <1>1. WQTypeOK' /\ WQInv'
    BY DoneType, DoneInv DEF FinishItem, TypeOK
  <1>2. /\ pc' \in [Workers -> Steps]
        /\ pc'[w] = "idle"
        /\ \A v \in Workers \ {w} : pc'[v] = pc[v]
    BY DEF FinishItem, Goto, TypeOK, Steps
  <1>3. /\ holding'[w] = NoItem
        /\ \A v \in Workers \ {w} : holding'[v] = holding[v]
    BY DEF FinishItem, Done, TypeOK, WQTypeOK
  <1>4. res' \in [Workers -> Version \union {Nothing}] /\ \A v \in Workers \ {w} : res'[v] = res[v]
    BY DEF FinishItem, TypeOK
  <1>5. built' \in [Workers -> Nat]
    BY DEF FinishItem, TypeOK
  <1>6. TypeOK'
    BY <1>1, <1>2, <1>4, <1>5 DEF TypeOK, FinishItem, sharedVars
  <1>7. WorkerInv'
    <2>1. ~fresh'[w]
      BY DEF FinishItem, WorkerInv
    <2>2. \A v \in Workers \ {w} : WorkerInv!(v)'
      BY <1>2, <1>3, <1>4 DEF WorkerInv, FinishItem, NameOf, Generation
    <2>3. WorkerInv!(w)'
      BY <1>2, <1>3, <2>1
    <2> QED
      BY <2>2, <2>3 DEF WorkerInv
  <1> QED
    BY <1>1, <1>6, <1>7

LEMMA StepInv ==
  ASSUME IInv, NEW w \in Workers, Step(w) PROVE IInv'
  <1>1. CASE TakeItem(w)
    BY <1>1, TakeItemInv
  <1>2. CASE MetaGet(w) \/ ReceivedGet(w) \/ DoneGet(w) \/ FailGet(w)
    BY <1>2, GetResourceInv DEF MetaGet, ReceivedGet, DoneGet, FailGet
  <1>3. CASE MetaUpdate(w)
    BY <1>3, MetaUpdateInv
  <1>4. CASE ReceivedUpdate(w)
    BY <1>4, ReceivedUpdateInv
  <1>5. CASE DropStores(w)
    BY <1>5, DropStoresInv
  <1>6. CASE BuildStore(w)
    BY <1>6, BuildStoreInv
  <1>7. CASE AppendStore(w)
    BY <1>7, AppendStoreInv
  <1>8. CASE DoneUpdate(w)
    BY <1>8, FinalUpdateInv DEF DoneUpdate, Types
  <1>9. CASE FailUpdate(w)
    BY <1>9, FinalUpdateInv DEF FailUpdate, Types
  <1>10. CASE FinishItem(w)
    BY <1>10, FinishItemInv
  <1> QED
    BY <1>1, <1>2, <1>3, <1>4, <1>5, <1>6, <1>7, <1>8, <1>9, <1>10 DEF Step

-----------------------------------------------------------------------------
(* Start and restart of the process.                                       *)

LEMMA RestartInv ==
  ASSUME IInv, Restart PROVE IInv'
  <1> USE DEF IInv
  <1>1. WQTypeOK'
    <2>1. shuttingDown' \in BOOLEAN
      BY Zenon DEF Restart
    <2> QED
      BY <2>1 DEF Restart, WQTypeOK
  <1>2. WQInv'
    <2>1. Len(queue') = 0
      BY DEF Restart
    <2> QED
      BY <2>1 DEF Restart, WQInv, QueuedOnce, NoMarkLost, ProcessingIsHeld, ItemExclusive
  <1>3. stream' \in Seq(Delta)
    BY ListDeltasType DEF Restart
  <1>4. fresh' \in [Workers -> BOOLEAN] /\ \A w \in Workers : ~fresh'[w]
    BY Zenon DEF Restart
  <1>5. budget' \in [Disturbances -> Nat]
    BY SpendBudget DEF Restart, TypeOK, Disturbances
  <1>6. TypeOK'
    BY <1>1, <1>3, <1>4, <1>5 DEF TypeOK, Restart, Steps
  <1>7. WorkerInv'
    BY <1>4 DEF WorkerInv, Restart
  <1> QED
    BY <1>2, <1>6, <1>7

LEMMA InitInv == Init => IInv
  <1> SUFFICES ASSUME Init PROVE IInv
    OBVIOUS
  <1>1. WQTypeOK /\ WQInv
    BY WQTypeInit, WQInvInit DEF Init
  <1>2. fresh \in [Workers -> BOOLEAN] /\ \A w \in Workers : ~fresh[w]
    BY Zenon DEF Init
  <1>3. TypeOK
    BY <1>1, <1>2, BoundAssumption DEF Init, TypeOK, Steps
  <1>4. WorkerInv
    BY <1>2 DEF Init, WQInit, WorkerInv
  <1> QED
    BY <1>1, <1>3, <1>4 DEF IInv

LEMMA NextInv == IInv /\ [Next]_vars => IInv'
  <1> SUFFICES ASSUME IInv, [Next]_vars PROVE IInv'
    OBVIOUS
  <1>1. CASE \E n \in Names, u \in UIDs, c \in Configs : Create(n, u, c)
    BY <1>1, CreateInv
  <1>2. CASE \E n \in Names, c \in Configs : EditSpec(n, c)
    BY <1>2, EditSpecInv
  <1>3. CASE \E n \in Names : Touch(n)
    BY <1>3, TouchInv
  <1>4. CASE \E n \in Names : Delete(n)
    BY <1>4, DeleteInv
  <1>5. CASE Deliver
    BY <1>5, DeliverInv
  <1>6. CASE \E k \in 0..Len(stream) : Relist(k)
    BY <1>6, RelistInv
  <1>7. CASE \E w \in Workers : Step(w)
    BY <1>7, StepInv
  <1>8. CASE Restart
    BY <1>8, RestartInv
  <1>9. CASE UNCHANGED vars
    <2>1. WQTypeOK' /\ WQInv'
      BY <1>9, WQFrame DEF vars, IInv, TypeOK
    <2>2. TypeOK'
      BY <1>9, <2>1 DEF vars, ctlVars, IInv, TypeOK
    <2>3. WorkerInv'
      BY <1>9 DEF vars, ctlVars, wqVars, IInv, WorkerInv, NameOf, Generation
    <2> QED
      BY <2>1, <2>2, <2>3 DEF IInv
  <1> QED
    BY <1>1, <1>2, <1>3, <1>4, <1>5, <1>6, <1>7, <1>8, <1>9 DEF Next

\* The invariant holds in every behaviour of the controller.
THEOREM CtlInvariant == Spec => []IInv
  <1>1. Init => IInv
    BY InitInv
  <1>2. IInv /\ [Next]_vars => IInv'
    BY NextInv
  <1> QED
    BY <1>1, <1>2, PTL DEF Spec

\* Type correctness of the whole reconciliation path.
THEOREM CtlTypeCorrect == Spec => []TypeOK
  <1>1. IInv => TypeOK
    BY DEF IInv
  <1> QED
    BY <1>1, CtlInvariant, PTL

\* A handler only writes an object that exists and only builds stores for a
\* resource and a generation that the API server had.
THEOREM CtlWorkers == Spec => []WorkerInv
  <1>1. IInv => WorkerInv
    BY DEF IInv
  <1> QED
    BY <1>1, CtlInvariant, PTL

\* With the informer's handlers, any number of workers, failing calls and
\* restarts around it, the queue still gives no item to two workers.
THEOREM CtlQueue == Spec => []WQInv
  <1>1. IInv => WQInv
    BY DEF IInv
  <1> QED
    BY <1>1, CtlInvariant, PTL
-----------------------------------------------------------------------------
(***************************************************************************)
(* One worker exposes the stores of one build.  OneBuild is not inductive: *)
(* what the worker appends next must continue what the map holds, so the   *)
(* invariant also says how far the worker's build has come.                *)
(***************************************************************************)
BuildWorker(w) ==
  /\ pc[w] \in {"idle", "metaGet", "metaUpdate", "recvGet", "recvUpdate", "drop"} => built[w] = 0
  /\ pc[w] \in {"build", "append"} => BuiltUpTo(res[w].uid, res[w].gen, built[w])
  /\ pc[w] = "append" => old[w] = stores[res[w].uid]

BuildInv == OneBuild /\ \A w \in Workers : BuildWorker(w)

\* OneBuild only depends on the stores, and holds on as histories grow.
LEMMA OneBuildFrame ==
  ASSUME TypeOK, OneBuild, stores' = stores,
         specs' \in [UIDs -> Seq(Configs)],
         \A x \in UIDs : Len(specs[x]) <= Len(specs'[x])
  PROVE  OneBuild'
  <1> SUFFICES ASSUME NEW u \in UIDs
               PROVE  \E g \in 0..Len(specs'[u]) : BuiltUpTo(u, g, Len(stores[u]))'
    BY DEF OneBuild, Generation
  <1>1. PICK g \in 0..Len(specs[u]) : BuiltUpTo(u, g, Len(stores[u]))
    BY DEF OneBuild, Generation
  <1>2. g \in 0..Len(specs'[u])
    BY DEF TypeOK
  <1>3. BuiltUpTo(u, g, Len(stores[u]))'
    BY <1>1 DEF BuiltUpTo
  <1> QED
    BY <1>2, <1>3

\* A step that is not one of the workers'.
LEMMA BuildBystanders ==
  ASSUME IInv, BuildInv, UNCHANGED <<workerVars, stores>>,
         specs' \in [UIDs -> Seq(Configs)],
         \A x \in UIDs : Len(specs[x]) <= Len(specs'[x])
  PROVE  BuildInv'
  <1>1. OneBuild'
    BY OneBuildFrame DEF IInv, BuildInv
  <1>2. \A w \in Workers : BuildWorker(w)'
    BY DEF BuildInv, BuildWorker, BuiltUpTo, workerVars
  <1> QED
    BY <1>1, <1>2 DEF BuildInv

\* A step of a worker that leaves the stores alone and does not start a build.
LEMMA BuildMove ==
  ASSUME IInv, BuildInv, NEW w \in Workers, NEW s, Goto(w, s),
         s \notin {"build", "append"},
         s \in {"idle", "metaGet", "metaUpdate", "recvGet", "recvUpdate", "drop"} => built'[w] = 0,
         UNCHANGED <<specs, stores>>,
         \A v \in Workers \ {w} : built'[v] = built[v] /\ old'[v] = old[v] /\ res'[v] = res[v]
  PROVE  BuildInv'
  <1>1. OneBuild'
    BY OneBuildFrame DEF IInv, TypeOK, BuildInv
  <1>2. pc'[w] = s /\ \A v \in Workers \ {w} : pc'[v] = pc[v]
    BY DEF IInv, TypeOK, Goto
  <1>3. \A v \in Workers \ {w} : BuildWorker(v)'
    BY <1>2 DEF BuildInv, BuildWorker, BuiltUpTo
  <1>4. BuildWorker(w)'
    BY <1>2 DEF BuildWorker
  <1> QED
    BY <1>1, <1>3, <1>4 DEF BuildInv

LEMMA CallFailsBuild ==
  ASSUME IInv, BuildInv, NEW w \in Workers, NEW r, CallFails(w, r) PROVE BuildInv'
  BY BuildMove DEF CallFails, sharedVars

LEMMA GetResourceBuild ==
  ASSUME IInv, BuildInv, NEW w \in Workers,
         NEW s \in {"metaUpdate", "recvUpdate", "doneUpdate", "failUpdate"},
         s \in {"metaUpdate", "recvUpdate"} => pc[w] \in {"metaGet", "recvGet"},
         GetResource(w, s)
  PROVE  BuildInv'
  <1>1. CASE CallFails(w, obj[NameOf(w)] = Absent)
    BY <1>1, CallFailsBuild
  <1>2. CASE Goto(w, s) /\ UNCHANGED <<specs, res, built, old, sharedVars>>
    <2>1. s \in {"metaUpdate", "recvUpdate"} => built[w] = 0
      BY DEF BuildInv, BuildWorker
    <2> QED
      BY <1>2, <2>1, BuildMove DEF sharedVars
  <1> QED
    BY <1>1, <1>2 DEF GetResource

LEMMA UpdateBuild ==
  ASSUME IInv, BuildInv, NEW w \in Workers,
         MetaUpdate(w) \/ ReceivedUpdate(w) \/ DoneUpdate(w) \/ FailUpdate(w)
  PROVE  BuildInv'
  <1>1. ASSUME NEW r, CallFails(w, r) PROVE BuildInv'
    BY <1>1, CallFailsBuild
  <1>2. ASSUME NEW o, AnswerLost(w, o) PROVE BuildInv'
    BY <1>2, BuildMove DEF AnswerLost, sharedVars
  <1>3. CASE MetaUpdate(w)
    <2>1. built[w] = 0
      BY <1>3 DEF MetaUpdate, BuildInv, BuildWorker
    <2>2. ASSUME Goto(w, "recvGet"), UNCHANGED <<specs, res, built, old, sharedVars>>
          PROVE  BuildInv'
      BY <2>1, <2>2, BuildMove DEF sharedVars
    <2> QED
      BY <1>1, <1>2, <1>3, <2>2 DEF MetaUpdate
  <1>4. CASE ReceivedUpdate(w)
    <2>1. built[w] = 0
      BY <1>4 DEF ReceivedUpdate, BuildInv, BuildWorker
    <2>2. ASSUME NEW s \in {"failGet", "drop"}, Goto(w, s),
                 NEW x, res' = [res EXCEPT ![w] = x],
                 UNCHANGED <<specs, built, old, sharedVars>>
          PROVE  BuildInv'
      <3>1. \A v \in Workers \ {w} : res'[v] = res[v]
        BY <2>2 DEF IInv, TypeOK
      <3> QED
        BY <2>1, <2>2, <3>1, BuildMove DEF sharedVars
    <2> QED
      BY <1>1, <1>2, <1>4, <2>2 DEF ReceivedUpdate
  <1>5. CASE DoneUpdate(w) \/ FailUpdate(w)
    <2>1. ASSUME Goto(w, "return"), UNCHANGED <<specs, res, built, old, sharedVars>>
          PROVE  BuildInv'
      BY <2>1, BuildMove DEF sharedVars
    <2> QED
      BY <1>1, <1>2, <1>5, <2>1 DEF DoneUpdate, FailUpdate, FinalUpdate
  <1> QED
    BY <1>3, <1>4, <1>5

\* The resource a worker builds for.
LEMMA BuiltResource ==
  ASSUME IInv, NEW w \in Workers, pc[w] \in {"drop", "build", "append"}
  PROVE  /\ res[w].uid \in UIDs
         /\ res[w].gen \in 0..Generation(res[w].uid)
         /\ stores[res[w].uid] \in Seq(Store)
         /\ built[w] \in Nat
  <1>1. res[w] \in Version /\ res[w].gen <= Generation(res[w].uid)
    BY DEF IInv, WorkerInv, TypeOK
  <1>2. res[w].uid \in UIDs /\ res[w].gen \in Nat
    BY <1>1 DEF Version
  <1> QED
    BY <1>1, <1>2 DEF IInv, TypeOK, Generation

\* The only worker starts a build on an empty slice.
LEMMA DropStoresBuild ==
  ASSUME \A v, w \in Workers : v = w,
         IInv, BuildInv, NEW w \in Workers, DropStores(w)
  PROVE  BuildInv'
  <1> DEFINE u == res[w].uid
  <1>1. u \in UIDs /\ Generation(u) \in Nat
    BY BuiltResource DEF DropStores, IInv, TypeOK, Generation
  <1>2. stores'[u] = <<>> /\ \A x \in UIDs \ {u} : stores'[x] = stores[x]
    BY <1>1 DEF DropStores, IInv, TypeOK
  <1>3. UNCHANGED <<specs, res, built, old>> /\ built[w] = 0
    BY DEF DropStores, BuildInv, BuildWorker
  <1>4. BuiltUpTo(u, res[w].gen, 0)'
    BY <1>2, <1>3 DEF BuiltUpTo
  <1>5. OneBuild'
    <2> SUFFICES ASSUME NEW x \in UIDs
                 PROVE  \E g \in 0..Generation(x)' : BuiltUpTo(x, g, Len(stores[x]))'
      BY DEF OneBuild
    <2>1. CASE x = u
      <3>1. 0 \in 0..Generation(x)' /\ Len(stores[x])' = 0
        BY <1>1, <1>2, <1>3, <2>1 DEF Generation
      <3> QED
        BY <1>2, <2>1, <3>1 DEF BuiltUpTo
    <2>2. CASE x # u
      BY <1>2, <1>3, <2>2 DEF BuildInv, OneBuild, BuiltUpTo, Generation
    <2> QED
      BY <2>1, <2>2
  <1>6. BuildWorker(w)'
    <2>1. pc'[w] \notin {"idle", "metaGet", "metaUpdate", "recvGet", "recvUpdate", "drop", "append"}
      BY DEF DropStores, Goto, AfterDrop, IInv, TypeOK
    <2>2. BuiltUpTo(res[w].uid, res[w].gen, built[w])'
      BY <1>3, <1>4
    <2> QED
      BY <2>1, <2>2 DEF BuildWorker
  <1> QED
    BY <1>5, <1>6 DEF BuildInv

LEMMA BuildStoreBuild ==
  ASSUME \A v, w \in Workers : v = w,
         IInv, BuildInv, NEW w \in Workers, BuildStore(w)
  PROVE  BuildInv'
  <1>1. OneBuild'
    BY OneBuildFrame DEF BuildStore, IInv, TypeOK, BuildInv
  <1>2. pc'[w] = "append" /\ old'[w] = stores[res[w].uid]
    BY DEF BuildStore, Goto, IInv, TypeOK
  <1>3. BuiltUpTo(res[w].uid, res[w].gen, built[w])'
    BY DEF BuildStore, BuildInv, BuildWorker, BuiltUpTo
  <1>4. BuildWorker(w)'
    BY <1>2, <1>3 DEF BuildWorker, BuildStore
  <1> QED
    BY <1>1, <1>4 DEF BuildInv

\* The store that is appended continues the build.
LEMMA AppendStoreBuild ==
  ASSUME \A v, w \in Workers : v = w,
         IInv, BuildInv, NEW w \in Workers, AppendStore(w)
  PROVE  BuildInv'
  <1> DEFINE u == res[w].uid
             m == built[w]
             b == NextStore(w)
  <1>1. /\ u \in UIDs
        /\ res[w].gen \in 0..Generation(u)
        /\ stores[u] \in Seq(Store)
        /\ m \in Nat
    BY BuiltResource DEF AppendStore
  <1>2. BuiltUpTo(u, res[w].gen, m) /\ old[w] = stores[u]
    BY DEF AppendStore, BuildInv, BuildWorker
  <1>3. b \in Store
    <2>1. res[w] \in Version
      BY DEF AppendStore, IInv, WorkerInv, TypeOK
    <2> QED
      BY <2>1, NextStoreType
  <1>4. stores'[u] = Append(stores[u], b) /\ \A x \in UIDs \ {u} : stores'[x] = stores[x]
    BY <1>1, <1>2 DEF AppendStore, NextStore, IInv, TypeOK
  <1>5. UNCHANGED <<specs, res>> /\ built'[w] = m + 1
    BY DEF AppendStore, IInv, TypeOK
  <1>6. /\ Len(stores'[u]) = m + 1
        /\ stores'[u][m + 1] = b
        /\ \A i \in 1..m : stores'[u][i] = stores[u][i]
    BY <1>1, <1>2, <1>3, <1>4 DEF BuiltUpTo
  <1>7. \A i \in 1..(m + 1) : stores'[u][i] = [gen |-> res[w].gen, idx |-> i]
    <2> TAKE i \in 1..(m + 1)
    <2>1. CASE i = m + 1
      BY <1>6, <2>1 DEF NextStore
    <2>2. CASE i \in 1..m
      BY <1>2, <1>6, <2>2 DEF BuiltUpTo
    <2> QED
      BY <1>1, <2>1, <2>2
  <1>8. OneBuild'
    <2> SUFFICES ASSUME NEW x \in UIDs
                 PROVE  \E g \in 0..Generation(x)' : BuiltUpTo(x, g, Len(stores[x]))'
      BY DEF OneBuild
    <2>1. CASE x = u
      <3>1. res[w].gen \in 0..Generation(x)' /\ Len(stores[x])' = m + 1 /\ res' = res
        BY <1>1, <1>5, <1>6, <2>1 DEF Generation
      <3> QED
        BY <1>7, <2>1, <3>1 DEF BuiltUpTo
    <2>2. CASE x # u
      BY <1>4, <1>5, <2>2 DEF BuildInv, OneBuild, BuiltUpTo, Generation
    <2> QED
      BY <2>1, <2>2
  <1>9. BuildWorker(w)'
    <2>1. pc'[w] \in {"build", "doneGet"}
      BY DEF AppendStore, Goto, IInv, TypeOK
    <2>2. BuiltUpTo(res[w].uid, res[w].gen, built[w])'
      BY <1>5, <1>6, <1>7 DEF BuiltUpTo
    <2> QED
      BY <2>1, <2>2 DEF BuildWorker
  <1> QED
    BY <1>8, <1>9 DEF BuildInv

\* Every step of the only worker keeps the build invariant.
LEMMA StepBuild ==
  ASSUME \A v, w \in Workers : v = w,
         IInv, BuildInv, NEW w \in Workers, Step(w)
  PROVE  BuildInv'
  <1>1. CASE TakeItem(w)
    <2>1. built[w] = 0
      BY <1>1 DEF TakeItem, BuildInv, BuildWorker
    <2> QED
      BY <1>1, <2>1, BuildMove DEF TakeItem, sharedVars
  <1>2. CASE MetaGet(w) \/ ReceivedGet(w) \/ DoneGet(w) \/ FailGet(w)
    BY <1>2, GetResourceBuild DEF MetaGet, ReceivedGet, DoneGet, FailGet
  <1>3. CASE MetaUpdate(w) \/ ReceivedUpdate(w) \/ DoneUpdate(w) \/ FailUpdate(w)
    BY <1>3, UpdateBuild
  <1>4. CASE DropStores(w)
    BY <1>4, DropStoresBuild
  <1>5. CASE BuildStore(w)
    BY <1>5, BuildStoreBuild
  <1>6. CASE AppendStore(w)
    BY <1>6, AppendStoreBuild
  <1>7. CASE FinishItem(w)
    <2>1. /\ built'[w] = 0
          /\ \A v \in Workers \ {w} : built'[v] = built[v] /\ old'[v] = old[v] /\ res'[v] = res[v]
      BY <1>7 DEF FinishItem, IInv, TypeOK
    <2> QED
      BY <1>7, <2>1, BuildMove DEF FinishItem, sharedVars
  <1> QED
    BY <1>1, <1>2, <1>3, <1>4, <1>5, <1>6, <1>7 DEF Step

\* No map at all, or an empty one, has the stores of one build.
LEMMA NoStores ==
  ASSUME \A u \in UIDs : stores[u] = <<>>, \A u \in UIDs : specs[u] \in Seq(Configs)
  PROVE  OneBuild
  <1> SUFFICES ASSUME NEW u \in UIDs
               PROVE  \E g \in 0..Generation(u) : BuiltUpTo(u, g, Len(stores[u]))
    BY DEF OneBuild
  <1>1. 0 \in 0..Generation(u) /\ Len(stores[u]) = 0
    BY DEF Generation
  <1> QED
    BY <1>1 DEF BuiltUpTo

LEMMA RestartBuild ==
  ASSUME IInv, Restart PROVE BuildInv'
  <1>1. OneBuild'
    <2>1. \A u \in UIDs : stores'[u] = <<>>
      BY DEF Restart
    <2> SUFFICES ASSUME NEW u \in UIDs
                 PROVE  \E g \in 0..Generation(u)' : BuiltUpTo(u, g, Len(stores[u]))'
      BY DEF OneBuild
    <2>2. 0 \in 0..Generation(u)' /\ Len(stores'[u]) = 0
      BY <2>1 DEF Restart, Generation, IInv, TypeOK
    <2> QED
      BY <2>2 DEF BuiltUpTo
  <1>2. \A w \in Workers : BuildWorker(w)'
    BY DEF Restart, BuildWorker
  <1> QED
    BY <1>1, <1>2 DEF BuildInv

LEMMA NextBuild ==
  ASSUME \A v, w \in Workers : v = w
  PROVE  IInv /\ BuildInv /\ [Next]_vars => BuildInv'
  <1> SUFFICES ASSUME IInv, BuildInv, [Next]_vars PROVE BuildInv'
    OBVIOUS
  <1> DEFINE Grows == /\ specs' \in [UIDs -> Seq(Configs)]
                      /\ \A x \in UIDs : Len(specs[x]) <= Len(specs'[x])
  <1>1. ASSUME NEW n \in Names, NEW u \in UIDs, NEW c \in Configs, Create(n, u, c)
        PROVE  BuildInv'
    <2>1. <<c>> \in Seq(Configs) /\ Len(<<c>>) = 1 /\ Len(<<>>) = 0
      OBVIOUS
    <2>2. Grows
      BY <1>1, <2>1 DEF Create, IInv, TypeOK
    <2> QED
      BY <1>1, <2>2, BuildBystanders DEF Create, sharedVars
  <1>2. ASSUME NEW n \in Names, NEW c \in Configs, EditSpec(n, c) PROVE BuildInv'
    <2>1. obj[n].uid \in UIDs
      BY <1>2, CurrentType DEF EditSpec, IInv
    <2>2. Grows
      BY <1>2, <2>1 DEF EditSpec, IInv, TypeOK
    <2> QED
      BY <1>2, <2>2, BuildBystanders DEF EditSpec, sharedVars
  <1>3. ASSUME UNCHANGED <<specs, workerVars, stores>> PROVE BuildInv'
    <2>1. Grows
      BY <1>3 DEF IInv, TypeOK
    <2> QED
      BY <1>3, <2>1, BuildBystanders
  <1>4. CASE (\E n \in Names : Touch(n)) \/ (\E n \in Names : Delete(n))
    BY <1>3, <1>4 DEF Touch, Delete, sharedVars
  <1>5. CASE Deliver \/ (\E k \in 0..Len(stream) : Relist(k))
    BY <1>3, <1>5 DEF Deliver, Relist, sharedVars
  <1>6. CASE \E w \in Workers : Step(w)
    BY <1>6, StepBuild
  <1>7. CASE Restart
    BY <1>7, RestartBuild
  <1>8. CASE UNCHANGED vars
    BY <1>3, <1>8 DEF vars, ctlVars, workerVars
  <1> QED
    BY <1>1, <1>2, <1>4, <1>5, <1>6, <1>7, <1>8 DEF Next

\* With one worker (the option workers = 1), whatever is edited, deleted, fails
\* or is restarted, the stores that the controller exposes for a resource come
\* from one build of one of its generations (dropStores in handleEvent).
THEOREM CtlOneBuild ==
  ASSUME \A v, w \in Workers : v = w
  PROVE  Spec => []OneBuild
  <1>1. Init => BuildInv
    <2> SUFFICES ASSUME Init PROVE BuildInv
      OBVIOUS
    <2>1. OneBuild
      BY NoStores DEF Init
    <2>2. \A w \in Workers : BuildWorker(w)
      BY DEF Init, BuildWorker
    <2> QED
      BY <2>1, <2>2 DEF BuildInv
  <1>2. IInv /\ BuildInv /\ [Next]_vars => BuildInv'
    BY NextBuild
  <1>3. BuildInv => OneBuild
    BY DEF BuildInv
  <1> QED
    BY <1>1, <1>2, <1>3, CtlInvariant, PTL DEF Spec

-----------------------------------------------------------------------------
(***************************************************************************)
(* Exposed stores are fed, with any number of workers.  A worker writes    *)
(* back a slice it read before, so the invariant also covers the slices    *)
(* in the workers' hands and the store each is about to append.            *)
(***************************************************************************)
FedWorker(w) ==
  pc[w] = "append" =>
    /\ <<res[w].uid, NextStore(w)>> \in reflectors
    /\ \A i \in 1..Len(old[w]) : <<res[w].uid, old[w][i]>> \in reflectors

FedInv == StoresFed /\ \A w \in Workers : FedWorker(w)

\* A worker that stays where it is while reflectors are only started.
LEMMA SameFed ==
  ASSUME FedInv, NEW v \in Workers, reflectors \subseteq reflectors',
         pc'[v] = pc[v], built'[v] = built[v], old'[v] = old[v], res'[v] = res[v]
  PROVE  FedWorker(v)'
  BY DEF FedInv, FedWorker, NextStore

\* A step of a worker outside of build and dropStores.
LEMMA FedMove ==
  ASSUME IInv, FedInv, NEW w \in Workers, NEW s, Goto(w, s), s # "append",
         UNCHANGED sharedVars,
         \A v \in Workers \ {w} : built'[v] = built[v] /\ old'[v] = old[v] /\ res'[v] = res[v]
  PROVE  FedInv'
  <1>1. StoresFed'
    BY DEF FedInv, StoresFed, sharedVars
  <1>2. pc'[w] = s /\ \A v \in Workers \ {w} : pc'[v] = pc[v]
    BY DEF IInv, TypeOK, Goto
  <1>3. \A v \in Workers \ {w} : FedWorker(v)'
    BY <1>2, SameFed DEF sharedVars
  <1>4. FedWorker(w)'
    BY <1>2 DEF FedWorker
  <1> QED
    BY <1>1, <1>3, <1>4 DEF FedInv

LEMMA CallsFed ==
  ASSUME IInv, FedInv, NEW w \in Workers,
         \/ MetaGet(w) \/ ReceivedGet(w) \/ DoneGet(w) \/ FailGet(w)
         \/ MetaUpdate(w) \/ ReceivedUpdate(w) \/ DoneUpdate(w) \/ FailUpdate(w)
  PROVE  FedInv'
  <1>1. ASSUME NEW r, CallFails(w, r) PROVE FedInv'
    BY <1>1, FedMove DEF CallFails
  <1>2. ASSUME NEW o, AnswerLost(w, o) PROVE FedInv'
    BY <1>2, FedMove DEF AnswerLost
  <1>3. ASSUME NEW s, s # "append", Goto(w, s), UNCHANGED <<res, built, old, sharedVars>>
        PROVE  FedInv'
    BY <1>3, FedMove
  <1>4. CASE MetaGet(w) \/ ReceivedGet(w) \/ DoneGet(w) \/ FailGet(w)
    BY <1>1, <1>3, <1>4 DEF MetaGet, ReceivedGet, DoneGet, FailGet, GetResource
  <1>5. CASE MetaUpdate(w)
    BY <1>1, <1>2, <1>3, <1>5 DEF MetaUpdate
  <1>6. CASE ReceivedUpdate(w)
    <2>1. ASSUME NEW s \in {"failGet", "drop"}, Goto(w, s),
                 NEW x, res' = [res EXCEPT ![w] = x], UNCHANGED <<built, old, sharedVars>>
          PROVE  FedInv'
      <3>1. \A v \in Workers \ {w} : res'[v] = res[v]
        BY <2>1 DEF IInv, TypeOK
      <3> QED
        BY <2>1, <3>1, FedMove
    <2> QED
      BY <1>1, <1>2, <1>6, <2>1 DEF ReceivedUpdate
  <1>7. CASE DoneUpdate(w) \/ FailUpdate(w)
    BY <1>1, <1>2, <1>3, <1>7 DEF DoneUpdate, FailUpdate, FinalUpdate
  <1> QED
    BY <1>4, <1>5, <1>6, <1>7

\* Dropping the slice of a resource leaves the slices of the others.
LEMMA DropStoresFed ==
  ASSUME IInv, FedInv, NEW w \in Workers, DropStores(w) PROVE FedInv'
  <1>1. /\ res[w].uid \in UIDs
        /\ stores' = [stores EXCEPT ![res[w].uid] = <<>>]
        /\ UNCHANGED <<res, built, old, reflectors>>
    BY BuiltResource DEF DropStores
  <1>2. StoresFed'
    <2> SUFFICES ASSUME NEW u \in UIDs, NEW i \in 1..Len(stores'[u])
                 PROVE  <<u, stores'[u][i]>> \in reflectors
      BY <1>1 DEF StoresFed
    <2>1. CASE u = res[w].uid
      <3>1. stores'[u] = <<>>
        BY <1>1, <2>1 DEF IInv, TypeOK
      <3>2. Len(stores'[u]) = 0
        BY <3>1
      <3> QED
        BY <3>2
    <2>2. CASE u # res[w].uid
      BY <1>1, <2>2 DEF FedInv, StoresFed, IInv, TypeOK
    <2> QED
      BY <2>1, <2>2
  <1>3. pc'[w] # "append" /\ \A v \in Workers \ {w} : pc'[v] = pc[v]
    BY DEF DropStores, Goto, AfterDrop, IInv, TypeOK
  <1>4. \A v \in Workers \ {w} : FedWorker(v)'
    BY <1>1, <1>3, SameFed
  <1>5. FedWorker(w)'
    BY <1>3 DEF FedWorker
  <1> QED
    BY <1>2, <1>4, <1>5 DEF FedInv

\* The reflector is started before the store is appended.
LEMMA BuildStoreFed ==
  ASSUME IInv, FedInv, NEW w \in Workers, BuildStore(w) PROVE FedInv'
  <1>1. /\ res[w].uid \in UIDs
        /\ reflectors' = reflectors \union {<<res[w].uid, NextStore(w)>>}
        /\ UNCHANGED <<res, built, stores>>
    BY BuiltResource DEF BuildStore, NextStore
  <1>2. /\ pc'[w] = "append" /\ old'[w] = stores[res[w].uid]
        /\ \A v \in Workers \ {w} : pc'[v] = pc[v] /\ old'[v] = old[v]
    BY DEF BuildStore, Goto, IInv, TypeOK
  <1>3. StoresFed'
    BY <1>1 DEF FedInv, StoresFed
  <1>4. \A v \in Workers \ {w} : FedWorker(v)'
    BY <1>1, <1>2, SameFed
  <1>5. FedWorker(w)'
    BY <1>1, <1>2 DEF FedWorker, FedInv, StoresFed, NextStore
  <1> QED
    BY <1>3, <1>4, <1>5 DEF FedInv

\* What is written back was read from the map, or was just built.
LEMMA AppendStoreFed ==
  ASSUME IInv, FedInv, NEW w \in Workers, AppendStore(w) PROVE FedInv'
  <1> DEFINE x == res[w].uid
             b == NextStore(w)
  <1>1. /\ x \in UIDs
        /\ stores' = [stores EXCEPT ![x] = Append(old[w], b)]
        /\ UNCHANGED <<res, reflectors>>
    BY BuiltResource DEF AppendStore, NextStore
  <1>2. FedWorker(w) /\ pc[w] = "append" /\ old[w] \in Seq(Store)
    BY DEF AppendStore, FedInv, IInv, TypeOK
  <1>3. StoresFed'
    <2> SUFFICES ASSUME NEW u \in UIDs, NEW i \in 1..Len(stores'[u])
                 PROVE  <<u, stores'[u][i]>> \in reflectors
      BY <1>1 DEF StoresFed
    <2>1. CASE u = x
      <3>1. b \in Store
        <4>1. res[w] \in Version /\ built[w] \in Nat
          BY <1>2 DEF IInv, WorkerInv, TypeOK
        <4> QED
          BY <4>1, NextStoreType
      <3>2. stores'[u] = Append(old[w], b)
        BY <1>1, <2>1 DEF IInv, TypeOK
      <3>3. CASE i \in 1..Len(old[w])
        <4>1. stores'[u][i] = old[w][i]
          BY <1>2, <3>1, <3>2, <3>3
        <4> QED
          BY <1>2, <2>1, <3>3, <4>1 DEF FedWorker
      <3>4. CASE i = Len(old[w]) + 1
        <4>1. stores'[u][i] = b
          BY <1>2, <3>1, <3>2, <3>4
        <4> QED
          BY <1>2, <2>1, <4>1 DEF FedWorker
      <3>5. i \in 1..Len(old[w]) \/ i = Len(old[w]) + 1
        BY <1>2, <3>1, <3>2
      <3> QED
        BY <3>3, <3>4, <3>5
    <2>2. CASE u # x
      BY <1>1, <2>2 DEF FedInv, StoresFed, IInv, TypeOK
    <2> QED
      BY <2>1, <2>2
  <1>4. /\ pc'[w] # "append"
        /\ \A v \in Workers \ {w} : pc'[v] = pc[v] /\ old'[v] = old[v] /\ built'[v] = built[v]
    BY DEF AppendStore, Goto, IInv, TypeOK
  <1>5. \A v \in Workers \ {w} : FedWorker(v)'
    BY <1>1, <1>4, SameFed
  <1>6. FedWorker(w)'
    BY <1>4 DEF FedWorker
  <1> QED
    BY <1>3, <1>5, <1>6 DEF FedInv

LEMMA NextFed == IInv /\ FedInv /\ [Next]_vars => FedInv'
  <1> SUFFICES ASSUME IInv, FedInv, [Next]_vars PROVE FedInv'
    OBVIOUS
  <1>1. ASSUME UNCHANGED <<workerVars, sharedVars>> PROVE FedInv'
    BY <1>1 DEF FedInv, StoresFed, FedWorker, NextStore, workerVars, sharedVars
  <1>2. CASE \/ \E n \in Names, u \in UIDs, c \in Configs : Create(n, u, c)
             \/ \E n \in Names, c \in Configs : EditSpec(n, c)
             \/ \E n \in Names : Touch(n)
             \/ \E n \in Names : Delete(n)
    BY <1>1, <1>2 DEF Create, EditSpec, Touch, Delete
  <1>3. CASE Deliver \/ (\E k \in 0..Len(stream) : Relist(k))
    BY <1>1, <1>3 DEF Deliver, Relist
  <1>4. ASSUME NEW w \in Workers, Step(w) PROVE FedInv'
    <2>1. CASE TakeItem(w)
      BY <2>1, FedMove DEF TakeItem
    <2>2. CASE FinishItem(w)
      <3>1. \A v \in Workers \ {w} : built'[v] = built[v] /\ old'[v] = old[v] /\ res'[v] = res[v]
        BY <2>2 DEF FinishItem, IInv, TypeOK
      <3> QED
        BY <2>2, <3>1, FedMove DEF FinishItem
    <2> QED
      BY <1>4, <2>1, <2>2, CallsFed, DropStoresFed, BuildStoreFed, AppendStoreFed DEF Step
  <1>5. CASE Restart
    <2>1. /\ \A u \in UIDs : stores'[u] = <<>>
          /\ \A w \in Workers : pc'[w] = "idle"
      BY <1>5 DEF Restart
    <2>2. \A u \in UIDs : Len(stores'[u]) = 0
      BY <2>1
    <2> QED
      BY <2>1, <2>2 DEF FedInv, StoresFed, FedWorker
  <1>6. CASE UNCHANGED vars
    BY <1>1, <1>6 DEF vars, ctlVars, workerVars, sharedVars
  <1> QED
    BY <1>2, <1>3, <1>4, <1>5, <1>6 DEF Next

\* Whatever the workers' drops and appends of one resource do to each other,
\* a store that is exposed has a running reflector: buildStore starts it
\* before build appends the store, and nothing stops it.
THEOREM CtlStoresFed == Spec => []StoresFed
  <1>1. Init => FedInv
    <2> SUFFICES ASSUME Init PROVE FedInv
      OBVIOUS
    <2>1. \A u \in UIDs : Len(stores[u]) = 0
      BY DEF Init
    <2> QED
      BY <2>1 DEF Init, FedInv, StoresFed, FedWorker
  <1>2. FedInv => StoresFed
    BY DEF FedInv
  <1> QED
    BY <1>1, <1>2, NextFed, CtlInvariant, PTL DEF Spec
-----------------------------------------------------------------------------
(* With one worker the controller implements Exposure.                     *)

(***************************************************************************)
(* What the refinement needs beyond IInv, BuildInv and FedInv: no          *)
(* reflector is of a generation that its resource never had, so the        *)
(* version that the first status write returns is at least as new as every *)
(* build begun so far; and a worker that builds has a usable configuration *)
(* with a store still to build.                                            *)
(***************************************************************************)
NewestWorker(w) ==
  /\ pc[w] \in {"drop", "build", "append"} =>
       /\ res[w].gen >= 1
       /\ Configuration(res[w]) # EmptyConfig
       /\ \A r \in reflectors : r[1] = res[w].uid => r[2].gen <= res[w].gen
  /\ pc[w] \in {"build", "append"} =>
       /\ Configuration(res[w]) \notin BadConfigs
       /\ built[w] < StoreCount[Configuration(res[w])]

NewestInv ==
  /\ \A n \in Names : obj[n] # Absent => Generation(obj[n].uid) >= 1
  /\ \A r \in reflectors : r[2].gen <= Generation(r[1])
  /\ \A w \in Workers : NewestWorker(w)

\* The histories of configurations grow at their ends.
Extended ==
  /\ specs' \in [UIDs -> Seq(Configs)]
  /\ \A u \in UIDs : /\ Len(specs[u]) <= Len(specs'[u])
                     /\ \A i \in 1..Len(specs[u]) : specs'[u][i] = specs[u][i]

\* A generation that a resource has, and its configuration.
LEMMA ResourceConfiguration ==
  ASSUME IInv, NewestInv, NEW w \in Workers, pc[w] \in {"drop", "build", "append"}
  PROVE  /\ res[w].uid \in UIDs
         /\ res[w].gen \in 1..Len(specs[res[w].uid])
         /\ Configuration(res[w]) \in Configs
         /\ StoreCount[Configuration(res[w])] \in Nat
  <1>1. res[w].uid \in UIDs /\ res[w].gen \in 0..Generation(res[w].uid) /\ res[w].gen >= 1
    BY BuiltResource DEF NewestInv, NewestWorker
  <1>2. res[w].gen \in 1..Len(specs[res[w].uid])
    BY <1>1 DEF Generation, IInv, TypeOK
  <1>3. Configuration(res[w]) \in Configs
    BY <1>1, <1>2 DEF Configuration, IInv, TypeOK
  <1> QED
    BY <1>1, <1>2, <1>3, ConfigAssumption

\* A reflector's resource and generation.
LEMMA ReflectorType ==
  ASSUME TypeOK, NEW r \in reflectors
  PROVE  r[1] \in UIDs /\ r[2] \in Store /\ r[2].gen \in Nat
  BY DEF TypeOK, Store

\* Reflectors stay behind the history of their resource as it grows.
LEMMA ReflectorsBehind ==
  ASSUME IInv, NewestInv, Extended
  PROVE  \A r \in reflectors : r[2].gen <= Len(specs'[r[1]])
  <1> SUFFICES ASSUME NEW r \in reflectors PROVE r[2].gen <= Len(specs'[r[1]])
    OBVIOUS
  <1>1. r[1] \in UIDs /\ r[2].gen \in Nat /\ r[2].gen <= Len(specs[r[1]])
    BY ReflectorType DEF IInv, NewestInv, Generation
  <1>2. Len(specs[r[1]]) <= Len(specs'[r[1]]) /\ Len(specs'[r[1]]) \in Nat /\ Len(specs[r[1]]) \in Nat
    BY <1>1 DEF Extended, IInv, TypeOK
  <1> QED
    BY <1>1, <1>2

\* A step outside of the controller.
LEMMA NewestBystanders ==
  ASSUME IInv, NewestInv, Extended, UNCHANGED <<workerVars, reflectors>>,
         \A n \in Names : obj'[n] # Absent => Len(specs'[obj'[n].uid]) >= 1
  PROVE  NewestInv'
  <1>1. \A r \in reflectors' : r[2].gen <= Len(specs'[r[1]])
    BY ReflectorsBehind
  <1>2. ASSUME NEW w \in Workers PROVE NewestWorker(w)'
    <2>1. pc'[w] = pc[w] /\ res'[w] = res[w] /\ built'[w] = built[w] /\ reflectors' = reflectors
      BY DEF workerVars
    <2>2. CASE pc[w] \in {"drop", "build", "append"}
      <3>1. specs'[res[w].uid][res[w].gen] = specs[res[w].uid][res[w].gen]
        BY <2>2, ResourceConfiguration DEF Extended
      <3>2. Configuration(res[w])' = Configuration(res[w])
        BY <2>1, <3>1 DEF Configuration
      <3> QED
        BY <2>1, <3>2 DEF NewestInv, NewestWorker
    <2>3. CASE pc[w] \notin {"drop", "build", "append"}
      BY <2>1, <2>3 DEF NewestWorker
    <2> QED
      BY <2>2, <2>3
  <1> QED
    BY <1>1, <1>2 DEF NewestInv, Generation

\* What a worker writes has the UID of what was there.
SameIdentity == \A n \in Names : obj'[n] # Absent => obj[n] # Absent /\ obj'[n].uid = obj[n].uid

\* A step of the only worker outside of dropStores and build.
LEMMA NewestMove ==
  ASSUME \A v, w \in Workers : v = w,
         IInv, NewestInv, NEW w \in Workers, NEW s, Goto(w, s),
         s \notin {"drop", "build", "append"},
         SameIdentity, UNCHANGED <<specs, reflectors>>
  PROVE  NewestInv'
  <1>1. pc'[w] = s
    BY DEF Goto, IInv, TypeOK
  <1>2. \A v \in Workers : NewestWorker(v)'
    BY <1>1 DEF NewestWorker
  <1> QED
    BY <1>2 DEF NewestInv, SameIdentity, Generation

LEMMA WriteIdentity ==
  ASSUME IInv, NEW w \in Workers, NEW o, WriteResource(w, o),
         fresh[w] => o.uid = obj[NameOf(w)].uid
  PROVE  SameIdentity
  <1>1. NameOf(w) \in Names /\ obj[NameOf(w)] # Absent /\ fresh[w]
    BY FreshObject, SentinelAssumption DEF WriteResource
  <1> QED
    BY <1>1 DEF WriteResource, SameIdentity, IInv, TypeOK

\* The API calls of a handler, but for the one that starts a build.
LEMMA CallsNewest ==
  ASSUME \A v, w \in Workers : v = w,
         IInv, NewestInv, NEW w \in Workers,
         \/ MetaGet(w) \/ ReceivedGet(w) \/ DoneGet(w) \/ FailGet(w)
         \/ MetaUpdate(w) \/ DoneUpdate(w) \/ FailUpdate(w)
  PROVE  NewestInv'
  <1>1. ASSUME NEW r, CallFails(w, r) PROVE NewestInv'
    <2>1. SameIdentity
      BY <1>1 DEF CallFails, SameIdentity
    <2> QED
      BY <1>1, <2>1, NewestMove DEF CallFails, sharedVars
  <1>2. ASSUME NEW s, s \notin {"drop", "build", "append"}, Goto(w, s),
               UNCHANGED <<specs, obj, sharedVars>>
        PROVE  NewestInv'
    <2>1. SameIdentity
      BY <1>2 DEF SameIdentity
    <2> QED
      BY <1>2, <2>1, NewestMove DEF sharedVars
  <1>3. ASSUME NEW o, fresh[w] => o.uid = obj[NameOf(w)].uid, WriteResource(w, o),
               NEW s, s \notin {"drop", "build", "append"}, Goto(w, s),
               UNCHANGED <<specs, sharedVars>>
        PROVE  NewestInv'
    <2>1. SameIdentity
      BY <1>3, WriteIdentity
    <2> QED
      BY <1>3, <2>1, NewestMove DEF sharedVars
  <1>4. ASSUME NEW o, fresh[w] => o.uid = obj[NameOf(w)].uid, AnswerLost(w, o)
        PROVE  NewestInv'
    BY <1>3, <1>4 DEF AnswerLost
  <1>5. CASE MetaGet(w) \/ ReceivedGet(w) \/ DoneGet(w) \/ FailGet(w)
    BY <1>1, <1>2, <1>5 DEF MetaGet, ReceivedGet, DoneGet, FailGet, GetResource
  <1>6. CASE MetaUpdate(w)
    <2>1. fresh[w] => [obj[NameOf(w)] EXCEPT !.labelled = TRUE].uid = obj[NameOf(w)].uid
      BY FreshObject DEF Object
    <2> QED
      BY <1>1, <1>2, <1>3, <1>4, <1>6, <2>1 DEF MetaUpdate
  <1>7. CASE DoneUpdate(w) \/ FailUpdate(w)
    <2>1. \A t \in Types : fresh[w] => StatusSet(obj[NameOf(w)], t, TRUE).uid = obj[NameOf(w)].uid
      BY FreshObject, StatusSetType DEF IInv
    <2> QED
      BY <1>1, <1>3, <1>4, <1>7, <2>1 DEF DoneUpdate, FailUpdate, FinalUpdate, Types
  <1> QED
    BY <1>5, <1>6, <1>7

\* The version that the first status write returns is the newest there is.
LEMMA ReceivedNewest ==
  ASSUME \A v, w \in Workers : v = w,
         IInv, NewestInv, NEW w \in Workers, ReceivedUpdate(w)
  PROVE  NewestInv'
  <1> DEFINE n == NameOf(w)
             o == StatusSet(obj[n], "Processed", FALSE)
  <1>1. fresh[w] => o.uid = obj[n].uid
    BY FreshObject, StatusSetType DEF IInv, Types
  <1>2. ASSUME WriteResource(w, o) PROVE SameIdentity
    BY <1>1, <1>2, WriteIdentity
  <1>3. CASE CallFails(w, ~fresh[w])
    <2>1. SameIdentity
      BY <1>3 DEF CallFails, SameIdentity
    <2> QED
      BY <1>3, <2>1, NewestMove DEF CallFails, sharedVars
  <1>4. CASE AnswerLost(w, o)
    BY <1>2, <1>4, NewestMove DEF AnswerLost, sharedVars
  <1>5. CASE /\ WriteResource(w, o)
             /\ res' = [res EXCEPT ![w] = Current(n)]
             /\ Goto(w, IF Configuration(Current(n)) = EmptyConfig THEN "failGet" ELSE "drop")
             /\ UNCHANGED <<specs, sharedVars>>
    <2>1. CASE Configuration(Current(n)) = EmptyConfig
      BY <1>2, <1>5, <2>1, NewestMove DEF sharedVars
    <2>2. CASE Configuration(Current(n)) # EmptyConfig
      <3>1. n \in Names /\ obj[n] # Absent
        BY <1>5, FreshObject, SentinelAssumption DEF WriteResource
      <3>2. /\ Current(n).uid = obj[n].uid
            /\ Current(n).gen = Generation(obj[n].uid)
            /\ Generation(obj[n].uid) >= 1
        BY <3>1, CurrentType DEF IInv, NewestInv
      <3>3. res'[w] = Current(n) /\ pc'[w] = "drop" /\ UNCHANGED <<specs, reflectors>>
        BY <1>5, <2>2 DEF IInv, TypeOK, Goto, sharedVars
      <3>4. Configuration(res[w])' # EmptyConfig
        BY <2>2, <3>3 DEF Configuration
      <3>5. \A r \in reflectors' : r[1] = res'[w].uid => r[2].gen <= res'[w].gen
        BY <3>2, <3>3 DEF NewestInv
      <3>6. NewestWorker(w)'
        BY <3>2, <3>3, <3>4, <3>5 DEF NewestWorker
      <3>7. \A v \in Workers : NewestWorker(v)'
        BY <3>6
      <3>8. SameIdentity
        BY <1>2, <1>5
      <3> QED
        BY <3>3, <3>7, <3>8 DEF NewestInv, SameIdentity, Generation
    <2> QED
      BY <2>1, <2>2
  <1> QED
    BY <1>3, <1>4, <1>5 DEF ReceivedUpdate

LEMMA DropNewest ==
  ASSUME \A v, w \in Workers : v = w,
         IInv, BuildInv, NewestInv, NEW w \in Workers, DropStores(w)
  PROVE  NewestInv'
  <1>1. UNCHANGED <<specs, obj, res, built, reflectors>> /\ pc'[w] = AfterDrop(w) /\ built[w] = 0
    BY DEF DropStores, Goto, IInv, TypeOK, BuildInv, BuildWorker
  <1>2. NewestWorker(w) /\ StoreCount[Configuration(res[w])] \in Nat
    BY ResourceConfiguration DEF DropStores, NewestInv
  <1>3. Configuration(res[w])' = Configuration(res[w])
    BY <1>1 DEF Configuration
  <1>4. AfterDrop(w) \notin {"drop", "append"}
    BY DEF AfterDrop
  <1>5. AfterDrop(w) = "build" =>
          Configuration(res[w]) \notin BadConfigs /\ StoreCount[Configuration(res[w])] # 0
    BY DEF AfterDrop
  <1>6. NewestWorker(w)'
    BY <1>1, <1>2, <1>3, <1>4, <1>5 DEF NewestWorker, DropStores
  <1>7. \A v \in Workers : NewestWorker(v)'
    BY <1>6
  <1> QED
    BY <1>1, <1>7 DEF NewestInv, Generation

LEMMA BuildNewest ==
  ASSUME \A v, w \in Workers : v = w,
         IInv, NewestInv, NEW w \in Workers, BuildStore(w)
  PROVE  NewestInv'
  <1>1. /\ UNCHANGED <<specs, obj, res, built>> /\ pc'[w] = "append"
        /\ reflectors' = reflectors \union {<<res[w].uid, NextStore(w)>>}
    BY DEF BuildStore, Goto, IInv, TypeOK, NextStore
  <1>2. NewestWorker(w) /\ res[w].gen \in 0..Generation(res[w].uid)
    BY BuiltResource DEF BuildStore, NewestInv
  <1>3. Configuration(res[w])' = Configuration(res[w])
    BY <1>1 DEF Configuration
  <1>4. \A r \in reflectors' : r \in reflectors \/ (r[1] = res[w].uid /\ r[2].gen = res[w].gen)
    BY <1>1 DEF NextStore
  <1>5. NewestWorker(w)'
    BY <1>1, <1>2, <1>3, <1>4 DEF NewestWorker, BuildStore
  <1>6. \A v \in Workers : NewestWorker(v)'
    BY <1>5
  <1>7. \A r \in reflectors' : r[2].gen <= Len(specs[r[1]])
    BY <1>2, <1>4 DEF NewestInv, Generation
  <1> QED
    BY <1>1, <1>6, <1>7 DEF NewestInv, Generation

LEMMA AppendNewest ==
  ASSUME \A v, w \in Workers : v = w,
         IInv, NewestInv, NEW w \in Workers, AppendStore(w)
  PROVE  NewestInv'
  <1>1. /\ UNCHANGED <<specs, obj, res, reflectors>> /\ built'[w] = built[w] + 1
        /\ pc'[w] = IF built[w] + 1 = StoreCount[Configuration(res[w])] THEN "doneGet" ELSE "build"
    BY DEF AppendStore, Goto, IInv, TypeOK
  <1>2. NewestWorker(w) /\ StoreCount[Configuration(res[w])] \in Nat /\ built[w] \in Nat
    BY ResourceConfiguration DEF AppendStore, NewestInv, IInv, TypeOK
  <1>3. Configuration(res[w])' = Configuration(res[w])
    BY <1>1 DEF Configuration
  <1>4. NewestWorker(w)'
    BY <1>1, <1>2, <1>3 DEF NewestWorker, AppendStore
  <1>5. \A v \in Workers : NewestWorker(v)'
    BY <1>4
  <1> QED
    BY <1>1, <1>5 DEF NewestInv, Generation

\* A new configuration is added at the end of the history.
LEMMA ExtendedBy ==
  ASSUME IInv, NEW u \in UIDs, NEW c \in Configs,
         specs' = [specs EXCEPT ![u] = Append(@, c)]
  PROVE  Extended /\ Len(specs'[u]) >= 1
  <1>1. specs[u] \in Seq(Configs)
    BY DEF IInv, TypeOK
  <1>2. /\ Append(specs[u], c) \in Seq(Configs)
        /\ Len(Append(specs[u], c)) = Len(specs[u]) + 1
        /\ \A i \in 1..Len(specs[u]) : Append(specs[u], c)[i] = specs[u][i]
    BY <1>1
  <1> QED
    BY <1>1, <1>2 DEF IInv, TypeOK, Extended

\* The first configuration of a resource, as the end of an empty history.
LEMMA FirstConfiguration ==
  ASSUME IInv, NEW n \in Names, NEW u \in UIDs, NEW c \in Configs, Create(n, u, c)
  PROVE  specs' = [specs EXCEPT ![u] = Append(@, c)]
  <1>1. Append(<<>>, c) = <<c>>
    OBVIOUS
  <1> QED
    BY <1>1 DEF Create

LEMMA NextNewest ==
  ASSUME \A v, w \in Workers : v = w
  PROVE  IInv /\ BuildInv /\ NewestInv /\ [Next]_vars => NewestInv'
  <1> SUFFICES ASSUME IInv, BuildInv, NewestInv, [Next]_vars PROVE NewestInv'
    OBVIOUS
  <1> DEFINE Exist == \A n \in Names : obj'[n] # Absent => Len(specs'[obj'[n].uid]) >= 1
  <1>0. ASSUME Extended, NEW n \in Names, obj[n] # Absent
        PROVE  Len(specs'[obj[n].uid]) >= 1
    <2>1. obj[n].uid \in UIDs /\ Len(specs[obj[n].uid]) >= 1
      BY <1>0, CurrentType DEF NewestInv, Generation, IInv
    <2>2. Len(specs[obj[n].uid]) \in Nat /\ Len(specs'[obj[n].uid]) \in Nat
      BY <1>0, <2>1 DEF Extended, IInv, TypeOK
    <2> QED
      BY <1>0, <2>1, <2>2 DEF Extended
  <1>1. ASSUME NEW n \in Names, NEW u \in UIDs, NEW c \in Configs, Create(n, u, c)
        PROVE  NewestInv'
    <2>1. Extended /\ Len(specs'[u]) >= 1
      BY <1>1, FirstConfiguration, ExtendedBy
    <2>2. obj'[n].uid = u /\ \A m \in Names \ {n} : obj'[m] = obj[m]
      BY <1>1 DEF Create, IInv, TypeOK
    <2>3. Exist
      BY <1>0, <2>1, <2>2
    <2> QED
      BY <1>1, <2>1, <2>3, NewestBystanders DEF Create, sharedVars
  <1>2. ASSUME NEW n \in Names, NEW c \in Configs, EditSpec(n, c) PROVE NewestInv'
    <2>1. Extended
      BY <1>2, CurrentType, ExtendedBy DEF EditSpec, IInv
    <2>2. Exist
      BY <1>0, <1>2, <2>1 DEF EditSpec
    <2> QED
      BY <1>2, <2>1, <2>2, NewestBystanders DEF EditSpec, sharedVars
  <1>3. ASSUME UNCHANGED <<specs, workerVars, sharedVars>>,
               \A n \in Names : obj'[n] # Absent => obj'[n] = obj[n]
        PROVE  NewestInv'
    <2>1. Extended
      BY <1>3 DEF Extended, IInv, TypeOK
    <2>2. Exist
      BY <1>0, <1>3, <2>1
    <2> QED
      BY <1>3, <2>1, <2>2, NewestBystanders DEF sharedVars
  <1>4. CASE (\E n \in Names : Touch(n)) \/ (\E n \in Names : Delete(n))
    BY <1>3, <1>4 DEF Touch, Delete, IInv, TypeOK
  <1>5. CASE Deliver \/ (\E k \in 0..Len(stream) : Relist(k))
    BY <1>3, <1>5 DEF Deliver, Relist
  <1>6. ASSUME NEW w \in Workers, Step(w) PROVE NewestInv'
    <2>1. CASE TakeItem(w) \/ FinishItem(w)
      <3>1. SameIdentity
        BY <2>1 DEF TakeItem, FinishItem, SameIdentity
      <3> QED
        BY <2>1, <3>1, NewestMove DEF TakeItem, FinishItem, sharedVars
    <2> QED
      BY <1>6, <2>1, CallsNewest, ReceivedNewest, DropNewest, BuildNewest, AppendNewest DEF Step
  <1>7. CASE Restart
    BY <1>7 DEF Restart, NewestInv, NewestWorker, Generation
  <1>8. CASE UNCHANGED vars
    BY <1>3, <1>8 DEF vars, ctlVars, workerVars, sharedVars
  <1> QED
    BY <1>1, <1>2, <1>4, <1>5, <1>6, <1>7, <1>8 DEF Next

-----------------------------------------------------------------------------
(* The steps of the controller are steps of Exposure, or leave it alone.   *)

\* What E!Next calls the number of stores of a usable configuration.
LEMMA UsableCount ==
  ASSUME IInv, NewestInv, NEW w \in Workers, pc[w] \in {"build", "append"}
  PROVE  [c \in Configs |-> IF c \in BadConfigs \union {EmptyConfig} THEN 0 ELSE StoreCount[c]]
           [specs[res[w].uid][res[w].gen]] = StoreCount[Configuration(res[w])]
  <1>1. Configuration(res[w]) \in Configs \ (BadConfigs \union {EmptyConfig})
    BY ResourceConfiguration DEF NewestInv, NewestWorker
  <1> QED
    BY <1>1 DEF Configuration

\* buildStore starts the reflector of the next store of the newest build.
LEMMA BuildFeeds ==
  ASSUME IInv, BuildInv, FedInv, NewestInv, NEW w \in Workers, BuildStore(w)
  PROVE  E!Next
  <1> DEFINE u == res[w].uid
             g == res[w].gen
             i == built[w] + 1
  <1>1. pc[w] = "build" /\ built[w] \in Nat
    BY DEF BuildStore, IInv, TypeOK
  <1>2. u \in UIDs /\ g \in 1..Len(specs[u]) /\ StoreCount[Configuration(res[w])] \in Nat
    BY <1>1, ResourceConfiguration
  <1>3. i \in 1..StoreCount[Configuration(res[w])]
    BY <1>1, <1>2 DEF NewestInv, NewestWorker
  <1>4. E!Newest(u, g)
    BY <1>1 DEF E!Newest, NewestInv, NewestWorker
  <1>5. i = 1 \/ <<u, [gen |-> g, idx |-> i - 1]>> \in reflectors
    <2>1. BuiltUpTo(u, g, built[w])
      BY <1>1 DEF BuildInv, BuildWorker
    <2>2. CASE built[w] = 0
      BY <2>2
    <2>3. CASE built[w] # 0
      <3>1. built[w] \in 1..Len(stores[u]) /\ i - 1 = built[w]
        BY <1>1, <2>1, <2>3 DEF BuiltUpTo
      <3>2. stores[u][built[w]] = [gen |-> g, idx |-> built[w]]
        BY <1>1, <2>1, <2>3 DEF BuiltUpTo
      <3> QED
        BY <1>2, <3>1, <3>2 DEF FedInv, StoresFed
    <2> QED
      BY <2>2, <2>3
  <1>6. E!Feed(u, g, i)
    BY <1>4, <1>5 DEF E!Feed, BuildStore
  <1> QED
    BY <1>1, <1>2, <1>3, <1>6, UsableCount DEF E!Next

\* The append exposes the store that was fed last.
LEMMA AppendExposes ==
  ASSUME IInv, BuildInv, FedInv, NewestInv, NEW w \in Workers, AppendStore(w)
  PROVE  E!Next
  <1> DEFINE u == res[w].uid
             g == res[w].gen
  <1>1. pc[w] = "append"
    BY DEF AppendStore
  <1>2. u \in UIDs /\ g \in 1..Len(specs[u])
    BY <1>1, ResourceConfiguration
  <1>3. BuiltUpTo(u, g, built[w]) /\ old[w] = stores[u]
    BY <1>1 DEF BuildInv, BuildWorker
  <1>4. E!Newest(u, g)
    BY <1>1 DEF E!Newest, NewestInv, NewestWorker
  <1>5. NextStore(w) = [gen |-> g, idx |-> Len(stores[u]) + 1]
    BY <1>3 DEF BuiltUpTo, NextStore
  <1>6. <<u, [gen |-> g, idx |-> Len(stores[u]) + 1]>> \in reflectors
    BY <1>1, <1>5 DEF FedInv, FedWorker
  <1>7. \A i \in 1..Len(stores[u]) : stores[u][i].gen = g
    <2> TAKE i \in 1..Len(stores[u])
    <2>1. stores[u][i] = [gen |-> g, idx |-> i]
      BY <1>3 DEF BuiltUpTo
    <2> QED
      BY <2>1
  <1>8. stores' = [stores EXCEPT ![u] = Append(@, [gen |-> g, idx |-> Len(stores[u]) + 1])]
    BY <1>3, <1>5 DEF AppendStore, NextStore
  <1>9. E!Expose(u, g)
    BY <1>4, <1>6, <1>7, <1>8 DEF E!Expose, AppendStore
  <1> QED
    BY <1>2, <1>9 DEF E!Next

LEMMA StepExposes ==
  ASSUME IInv, BuildInv, FedInv, NewestInv, NEW w \in Workers, Step(w)
  PROVE  [E!Next]_E!vars
  <1>1. CASE UNCHANGED <<specs, sharedVars>>
    BY <1>1 DEF E!vars, sharedVars
  <1>2. CASE TakeItem(w) \/ FinishItem(w)
    BY <1>1, <1>2 DEF TakeItem, FinishItem
  <1>3. CASE MetaGet(w) \/ ReceivedGet(w) \/ DoneGet(w) \/ FailGet(w)
    BY <1>1, <1>3 DEF MetaGet, ReceivedGet, DoneGet, FailGet, GetResource, CallFails
  <1>4. CASE MetaUpdate(w) \/ ReceivedUpdate(w)
    BY <1>1, <1>4 DEF MetaUpdate, ReceivedUpdate, AnswerLost, CallFails
  <1>5. CASE DoneUpdate(w) \/ FailUpdate(w)
    BY <1>1, <1>5 DEF DoneUpdate, FailUpdate, FinalUpdate, AnswerLost, CallFails
  <1>6. CASE DropStores(w)
    <2>1. res[w].uid \in UIDs /\ E!Drop(res[w].uid)
      BY <1>6, BuiltResource DEF DropStores, E!Drop
    <2> QED
      BY <2>1 DEF E!Next
  <1> QED
    BY <1>2, <1>3, <1>4, <1>5, <1>6, BuildFeeds, AppendExposes DEF Step

LEMMA NextExposes ==
  IInv /\ BuildInv /\ FedInv /\ NewestInv /\ [Next]_vars => [E!Next]_E!vars
  <1> SUFFICES ASSUME IInv, BuildInv, FedInv, NewestInv, [Next]_vars PROVE [E!Next]_E!vars
    OBVIOUS
  <1>1. ASSUME NEW u \in UIDs, NEW c \in Configs,
               specs' = [specs EXCEPT ![u] = Append(@, c)], UNCHANGED sharedVars
        PROVE  E!Next
    BY <1>1 DEF E!Next, E!Change, sharedVars
  <1>2. ASSUME NEW n \in Names, NEW u \in UIDs, NEW c \in Configs, Create(n, u, c)
        PROVE  E!Next
    <2>1. specs' = [specs EXCEPT ![u] = Append(@, c)]
      BY <1>2, FirstConfiguration
    <2> QED
      BY <1>1, <1>2, <2>1 DEF Create
  <1>3. CASE \E n \in Names, c \in Configs : EditSpec(n, c)
    BY <1>1, <1>3, CurrentType DEF EditSpec, IInv
  <1>4. CASE UNCHANGED <<specs, sharedVars>>
    BY <1>4 DEF E!vars, sharedVars
  <1>5. CASE \/ \E n \in Names : Touch(n)
             \/ \E n \in Names : Delete(n)
             \/ Deliver
             \/ \E k \in 0..Len(stream) : Relist(k)
             \/ UNCHANGED vars
    BY <1>4, <1>5 DEF Touch, Delete, Deliver, Relist, vars, ctlVars, sharedVars
  <1>6. CASE Restart
    BY <1>6 DEF Restart, E!Next, E!Restart
  <1> QED
    BY <1>2, <1>3, <1>5, <1>6, StepExposes DEF Next

\* With one worker (the option workers = 1) the stores of a resource are one
\* build, fed before they are exposed, and no drop, build, edit, relist, failed
\* call or restart makes the controller expose an older configuration after a
\* newer one: handleEvent builds what its first status write returned.
THEOREM CtlImplementsExposure ==
  ASSUME \A v, w \in Workers : v = w
  PROVE  Spec => ImplementsExposure
  <1> DEFINE Inv == BuildInv /\ FedInv /\ NewestInv
  <1>1. Init => Inv
    <2> SUFFICES ASSUME Init PROVE Inv
      OBVIOUS
    <2>1. OneBuild /\ \A u \in UIDs : Len(stores[u]) = 0
      BY NoStores DEF Init
    <2>2. BuildInv
      BY <2>1 DEF Init, BuildInv, BuildWorker
    <2>3. FedInv
      BY <2>1 DEF Init, FedInv, StoresFed, FedWorker
    <2>4. NewestInv
      BY DEF Init, NewestInv, NewestWorker
    <2> QED
      BY <2>2, <2>3, <2>4
  <1>2. IInv /\ Inv /\ [Next]_vars => Inv'
    BY NextBuild, NextFed, NextNewest
  <1>3. Init => E!Init
    BY DEF Init, E!Init
  <1>4. IInv /\ Inv /\ [Next]_vars => [E!Next]_E!vars
    BY NextExposes
  <1> HIDE DEF Inv
  <1> QED
    BY <1>1, <1>2, <1>3, <1>4, CtlInvariant, PTL DEF Spec, ImplementsExposure, E!Spec
=============================================================================
