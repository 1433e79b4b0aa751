--------------------------- MODULE WorkQueueProofs ---------------------------
(***************************************************************************)
(* Proofs about the work queue, for every set of items and of workers: its *)
(* types, the invariant that makes it work, and that it implements the     *)
(* abstract work set.                                                      *)
(***************************************************************************)
EXTENDS WorkQueue, TLAPS

\* The queue's initial state and steps keep the types of its variables.
LEMMA WQTypeInit == WQInit => WQTypeOK
  <1> SUFFICES ASSUME WQInit PROVE WQTypeOK
    OBVIOUS
  <1>1. shuttingDown \in BOOLEAN
    BY Zenon DEF WQInit
  <1> QED
    BY <1>1 DEF WQInit, WQTypeOK

LEMMA AddType ==
  ASSUME WQTypeOK, NEW i \in Items, Add(i) PROVE WQTypeOK'
  BY DEF WQTypeOK, Add

LEMMA GetType ==
  ASSUME WQTypeOK, NEW w \in Workers, Get(w) PROVE WQTypeOK'
  BY DEF WQTypeOK, Get

LEMMA DoneType ==
  ASSUME WQTypeOK, NEW w \in Workers, Done(w) PROVE WQTypeOK'
  BY DEF WQTypeOK, Done

LEMMA WQTypeStep == WQTypeOK /\ [WQNext]_wqVars => WQTypeOK'
  <1> SUFFICES ASSUME WQTypeOK, [WQNext]_wqVars PROVE WQTypeOK'
    OBVIOUS
  <1>1. ASSUME NEW i \in Items, Add(i) PROVE WQTypeOK'
    BY <1>1, AddType
  <1>2. ASSUME NEW w \in Workers, Get(w) PROVE WQTypeOK'
    BY <1>2, GetType
  <1>3. ASSUME NEW w \in Workers, GetShutdown(w) PROVE WQTypeOK'
    BY <1>3 DEF WQTypeOK, GetShutdown
  <1>4. ASSUME NEW w \in Workers, Done(w) PROVE WQTypeOK'
    BY <1>4, DoneType
  <1>5. CASE ShutDown
    BY <1>5 DEF WQTypeOK, ShutDown
  <1>6. CASE UNCHANGED wqVars
    BY <1>6 DEF WQTypeOK, wqVars
  <1> QED
    BY <1>1, <1>2, <1>3, <1>4, <1>5, <1>6 DEF WQNext

\* Type correctness of the queue under every sequence of calls.
THEOREM WQTypeCorrect == WQSpec => []WQTypeOK
  <1>1. WQInit => WQTypeOK
    BY WQTypeInit
  <1>2. WQTypeOK /\ [WQNext]_wqVars => WQTypeOK'
    BY WQTypeStep
  <1> QED
    BY <1>1, <1>2, PTL DEF WQSpec

-----------------------------------------------------------------------------
(***************************************************************************)
(* WQInv is inductive.  Each conjunct needs the others: Get may hand out   *)
(* the head of the queue because QueuedOnce says that nobody processes it, *)
(* and Done may queue the item because ItemExclusive and ProcessingIsHeld  *)
(* say that no other worker has it.                                        *)
(***************************************************************************)

\* Add queues a new item only if it is neither dirty nor being processed.
LEMMA AddInv ==
  ASSUME WQTypeOK, WQInv, NEW i \in Items, Add(i) PROVE WQInv'
  <1> USE DEF WQTypeOK
  <1>1. CASE shuttingDown \/ i \in dirty
    <2>1. queue' = queue /\ dirty' = dirty /\ processing' = processing /\ holding' = holding
      BY <1>1 DEF Add
    <2> QED
      BY <2>1 DEF WQInv, QueuedOnce, NoMarkLost, ProcessingIsHeld, ItemExclusive
  <1>2. CASE ~shuttingDown /\ i \notin dirty /\ i \in processing
    <2>1. queue' = queue /\ dirty' = dirty \union {i}
      BY <1>2 DEF Add
    <2>2. processing' = processing /\ holding' = holding
      BY DEF Add
    <2> QED
      BY <1>2, <2>1, <2>2 DEF WQInv, QueuedOnce, NoMarkLost, ProcessingIsHeld, ItemExclusive
  <1>3. CASE ~shuttingDown /\ i \notin dirty /\ i \notin processing
    <2>1. /\ queue' = Append(queue, i)
          /\ dirty' = dirty \union {i}
          /\ processing' = processing
          /\ holding' = holding
      BY <1>3 DEF Add
    <2>2. /\ Len(queue') = Len(queue) + 1
          /\ \A k \in 1..Len(queue) : queue'[k] = queue[k]
          /\ queue'[Len(queue) + 1] = i
      BY <2>1
    <2>3. QueuedOnce'
      BY <1>3, <2>1, <2>2 DEF WQInv, QueuedOnce
    <2>4. NoMarkLost'
      <3> SUFFICES ASSUME NEW j \in (dirty \ processing)'
                   PROVE  \E k \in 1..Len(queue') : queue'[k] = j
        BY DEF NoMarkLost
      <3>1. CASE j = i
        BY <3>1, <2>2
      <3>2. CASE j # i
        <4>1. PICK k \in 1..Len(queue) : queue[k] = j
          BY <3>2, <2>1 DEF WQInv, NoMarkLost
        <4> QED
          BY <4>1, <2>2
      <3> QED
        BY <3>1, <3>2
    <2> QED
      BY <2>1, <2>3, <2>4 DEF WQInv, ProcessingIsHeld, ItemExclusive
  <1> QED
    BY <1>1, <1>2, <1>3

\* Get hands out an item that no worker holds.
LEMMA GetInv ==
  ASSUME WQTypeOK, WQInv, NEW w \in Workers, Get(w) PROVE WQInv'
  <1> DEFINE i == Head(queue)
  <1>1. /\ queue # <<>>
        /\ queue' = Tail(queue)
        /\ processing' = processing \union {i}
        /\ dirty' = dirty \ {i}
        /\ holding' = [holding EXCEPT ![w] = i]
        /\ holding[w] = NoItem
    BY DEF Get
  <1>2. /\ i = queue[1]
        /\ i \in Items
        /\ Len(queue) \in Nat \ {0}
        /\ Len(queue') = Len(queue) - 1
        /\ \A k \in 1..Len(queue') : queue'[k] = queue[k + 1]
    BY <1>1 DEF WQTypeOK
  <1>3. i \in dirty \ processing
    BY <1>2 DEF WQInv, QueuedOnce
  <1>4. i # NoItem /\ \A v \in Workers : holding[v] # i
    BY <1>2, <1>3, NoItemAssumption DEF WQInv, ProcessingIsHeld, WQTypeOK
  <1> HIDE DEF i
  <1>5. QueuedOnce'
    <2>1. \A k \in 1..Len(queue) : k # 1 => queue[k] # i
      BY <1>2 DEF WQInv, QueuedOnce
    <2> QED
      BY <1>1, <1>2, <2>1 DEF WQInv, QueuedOnce
  <1>6. NoMarkLost'
    <2> SUFFICES ASSUME NEW j \in (dirty \ processing)'
                 PROVE  \E k \in 1..Len(queue') : queue'[k] = j
      BY DEF NoMarkLost
    <2>1. j # i /\ j \in dirty \ processing
      BY <1>1
    <2>2. PICK k \in 1..Len(queue) : queue[k] = j
      BY <2>1 DEF WQInv, NoMarkLost
    <2>3. k # 1 /\ k - 1 \in 1..Len(queue') /\ queue'[k - 1] = j
      BY <1>2, <2>1, <2>2
    <2> QED
      BY <2>3
  <1>7. ProcessingIsHeld'
    <2>1. holding'[w] = i /\ \A v \in Workers : v # w => holding'[v] = holding[v]
      BY <1>1 DEF WQTypeOK
    <2>2. \A v \in Workers : holding'[v] # NoItem => holding'[v] \in processing'
      BY <1>1, <2>1 DEF WQInv, ProcessingIsHeld
    <2>3. \A j \in processing' : \E v \in Workers : holding'[v] = j
      <3> SUFFICES ASSUME NEW j \in processing', j # i
                   PROVE  \E v \in Workers : holding'[v] = j
        BY <2>1
      <3>1. PICK v \in Workers : holding[v] = j
        BY <1>1 DEF WQInv, ProcessingIsHeld
      <3>2. v # w
        BY <1>1, <1>2, <3>1, NoItemAssumption DEF WQTypeOK
      <3> QED
        BY <2>1, <3>1, <3>2
    <2> QED
      BY <2>2, <2>3 DEF ProcessingIsHeld
  <1>8. ItemExclusive'
    BY <1>1, <1>4 DEF WQInv, ItemExclusive, WQTypeOK
  <1> QED
    BY <1>5, <1>6, <1>7, <1>8 DEF WQInv

\* Done takes the item from the only worker that holds it.
LEMMA DoneInv ==
  ASSUME WQTypeOK, WQInv, NEW w \in Workers, Done(w) PROVE WQInv'
  <1> DEFINE i == holding[w]
  <1>1. /\ processing' = processing \ {i}
        /\ queue' = IF i \in dirty THEN Append(queue, i) ELSE queue
        /\ dirty' = dirty
        /\ holding' = [holding EXCEPT ![w] = NoItem]
        /\ i # NoItem
    BY DEF Done
  <1>2. i \in Items /\ i \in processing
    BY <1>1 DEF WQTypeOK, WQInv, ProcessingIsHeld
  <1>3. \A v \in Workers : v # w => holding[v] # i
    BY <1>1 DEF WQInv, ItemExclusive
  <1>4. \A k \in 1..Len(queue) : queue[k] # i
    BY <1>2 DEF WQInv, QueuedOnce
  <1>5. /\ holding'[w] = NoItem
        /\ \A v \in Workers : v # w => holding'[v] = holding[v]
    BY <1>1 DEF WQTypeOK
  <1>6. ProcessingIsHeld'
    BY <1>1, <1>2, <1>3, <1>5 DEF WQInv, ProcessingIsHeld
  <1>7. ItemExclusive'
    BY <1>5 DEF WQInv, ItemExclusive
  <1> HIDE DEF i
  <1>8. QueuedOnce' /\ NoMarkLost'
    <2>1. CASE i \in dirty
      <3>1. /\ Len(queue') = Len(queue) + 1
            /\ \A k \in 1..Len(queue) : queue'[k] = queue[k]
            /\ queue'[Len(queue) + 1] = i
            /\ Len(queue) \in Nat
        BY <1>1, <1>2, <2>1 DEF WQTypeOK
      <3>2. QueuedOnce'
        BY <1>1, <1>4, <2>1, <3>1 DEF WQInv, QueuedOnce
      <3>3. NoMarkLost'
        <4> SUFFICES ASSUME NEW j \in (dirty \ processing)'
                     PROVE  \E k \in 1..Len(queue') : queue'[k] = j
          BY DEF NoMarkLost
        <4>1. CASE j = i
          BY <4>1, <3>1
        <4>2. CASE j # i
          <5>1. PICK k \in 1..Len(queue) : queue[k] = j
            BY <1>1, <4>2 DEF WQInv, NoMarkLost
          <5> QED
            BY <5>1, <3>1
        <4> QED
          BY <4>1, <4>2
      <3> QED
        BY <3>2, <3>3
    <2>2. CASE i \notin dirty
      <3>1. queue' = queue
        BY <1>1, <2>2
      <3> QED
        BY <1>1, <2>2, <3>1 DEF WQInv, QueuedOnce, NoMarkLost
    <2> QED
      BY <2>1, <2>2
  <1> QED
    BY <1>6, <1>7, <1>8 DEF WQInv

LEMMA WQInvInit == WQInit => WQInv
  <1> SUFFICES ASSUME WQInit PROVE WQInv
    OBVIOUS
  <1>1. Len(queue) = 0
    BY DEF WQInit
  <1> QED
    BY <1>1 DEF WQInit, WQInv, QueuedOnce, NoMarkLost, ProcessingIsHeld, ItemExclusive

LEMMA WQInvStep == WQTypeOK /\ WQInv /\ [WQNext]_wqVars => WQInv'
  <1> SUFFICES ASSUME WQTypeOK, WQInv, [WQNext]_wqVars PROVE WQInv'
    OBVIOUS
  <1>1. ASSUME NEW i \in Items, Add(i) PROVE WQInv'
    BY <1>1, AddInv
  <1>2. ASSUME NEW w \in Workers, Get(w) PROVE WQInv'
    BY <1>2, GetInv
  <1>3. ASSUME NEW w \in Workers, Done(w) PROVE WQInv'
    BY <1>3, DoneInv
  <1>4. ASSUME /\ queue' = queue /\ dirty' = dirty
               /\ processing' = processing /\ holding' = holding
        PROVE  WQInv'
    BY <1>4 DEF WQInv, QueuedOnce, NoMarkLost, ProcessingIsHeld, ItemExclusive
  <1> QED
    BY <1>1, <1>2, <1>3, <1>4 DEF WQNext, GetShutdown, ShutDown, wqVars

\* The queue keeps its invariant: nothing is queued twice or lost, and no two
\* workers hold the same item (the comment on Controller.workqueue).
THEOREM WQInvariant == WQSpec => []WQInv
  <1>1. WQInit => WQInv
    BY WQInvInit
  <1>2. WQTypeOK /\ WQInv /\ [WQNext]_wqVars => WQInv'
    BY WQInvStep
  <1> QED
    BY <1>1, <1>2, WQTypeCorrect, PTL DEF WQSpec

\* No two workers hold the same item, in any number of workers.
THEOREM WQItemExclusive == WQSpec => []ItemExclusive
  <1>1. WQInv => ItemExclusive
    BY DEF WQInv
  <1> QED
    BY <1>1, WQInvariant, PTL

-----------------------------------------------------------------------------
(* Refinement: dirty is the abstract set of pending items.                 *)

\* Add marks the item, or does nothing once the queue is shutting down.
LEMMA AddRefines ==
  ASSUME WQTypeOK, NEW i \in Items, Add(i) PROVE [WS!Next]_(WS!vars)
  <1>1. CASE shuttingDown
    BY <1>1 DEF Add, WS!vars
  <1>2. CASE ~shuttingDown
    <2>1. WS!Mark(i)
      BY <1>2 DEF Add, WS!Mark
    <2> QED
      BY <2>1 DEF WS!Next
  <1> QED
    BY <1>1, <1>2

\* Get takes a pending item that nobody holds.
LEMMA GetRefines ==
  ASSUME WQTypeOK, WQInv, NEW w \in Workers, Get(w) PROVE [WS!Next]_(WS!vars)
  <1> DEFINE i == Head(queue)
  <1>1. i = queue[1] /\ i \in Items /\ 1 \in 1..Len(queue)
    BY DEF Get, WQTypeOK
  <1>2. i \in dirty \ processing
    BY <1>1 DEF WQInv, QueuedOnce
  <1>3. \A v \in Workers : holding[v] # i
    BY <1>1, <1>2, NoItemAssumption DEF WQInv, ProcessingIsHeld, WQTypeOK
  <1>4. WS!Take(w, i)
    BY <1>2, <1>3 DEF Get, WS!Take
  <1> QED
    BY <1>1, <1>4 DEF WS!Next

LEMMA WQStepRefines ==
  WQTypeOK /\ WQInv /\ [WQNext]_wqVars => [WS!Next]_(WS!vars)
  <1> SUFFICES ASSUME WQTypeOK, WQInv, [WQNext]_wqVars PROVE [WS!Next]_(WS!vars)
    OBVIOUS
  <1>1. ASSUME NEW i \in Items, Add(i) PROVE [WS!Next]_(WS!vars)
    BY <1>1, AddRefines
  <1>2. ASSUME NEW w \in Workers, Get(w) PROVE [WS!Next]_(WS!vars)
    BY <1>2, GetRefines
  <1>3. ASSUME NEW w \in Workers, GetShutdown(w) PROVE [WS!Next]_(WS!vars)
    BY <1>3 DEF GetShutdown, WS!vars
  <1>4. ASSUME NEW w \in Workers, Done(w) PROVE [WS!Next]_(WS!vars)
    <2>1. WS!Release(w)
      BY <1>4 DEF Done, WS!Release
    <2> QED
      BY <2>1 DEF WS!Next
  <1>5. CASE ShutDown
    BY <1>5 DEF ShutDown, WS!Close, WS!Next
  <1>6. CASE UNCHANGED wqVars
    BY <1>6 DEF wqVars, WS!vars
  <1> QED
    BY <1>1, <1>2, <1>3, <1>4, <1>5, <1>6 DEF WQNext

\* The queue, ordered and with its three collections, implements the abstract
\* work set: every call of the controller is a step of the set or changes
\* nothing in it.
THEOREM WQRefinesWorkSet == WQSpec => ImplementsWorkSet
  <1>1. WQInit => WS!Init
    BY DEF WQInit, WS!Init
  <1>2. WQTypeOK /\ WQInv /\ [WQNext]_wqVars => [WS!Next]_(WS!vars)
    BY WQStepRefines
  <1> QED
    BY <1>1, <1>2, WQTypeCorrect, WQInvariant, PTL DEF WQSpec, ImplementsWorkSet, WS!Spec
=============================================================================
