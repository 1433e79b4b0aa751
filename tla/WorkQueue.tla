------------------------------ MODULE WorkQueue ------------------------------
(***************************************************************************)
(* The rate-limited work queue of the controller (client-go's              *)
(* workqueue.Typed, vendored), with the calls the controller makes on it:  *)
(* Add from the informer's handlers, Get and Done from the workers,        *)
(* ShutDown when Run returns.  Every call runs under the queue's own lock, *)
(* so every call is one action.                                            *)
(*                                                                         *)
(* AddRateLimited is not here: the controller calls it only when           *)
(* syncHandler returns an error, and no path of syncHandler does (see      *)
(* module Controller).                                                     *)
(***************************************************************************)
EXTENDS Naturals, Sequences

CONSTANTS
  Items,     \* what is queued: [2]string{key, event}
  Workers,   \* the worker goroutines started by Run
  NoItem     \* a worker that is waiting in Get

ASSUME NoItemAssumption == NoItem \notin Items

VARIABLES
  queue,         \* the order in which items are handed out
  dirty,         \* the items that need to be processed
  processing,    \* the items being processed
  shuttingDown,  \* ShutDown was called
  holding,       \* holding[w]: the item Get returned to w, until w calls Done
  exited         \* the workers that Get told to end their loop

wqVars == <<queue, dirty, processing, shuttingDown, holding, exited>>

WQInit ==
  /\ queue = <<>>
  /\ dirty = {}
  /\ processing = {}
  /\ shuttingDown = FALSE
  /\ holding = [w \in Workers |-> NoItem]
  /\ exited = {}

\* Mutant of Add: it does not look whether the item is being processed.
AddIgnoresProcessing(i) ==
  /\ dirty' = IF shuttingDown THEN dirty ELSE dirty \union {i}
  /\ queue' = IF shuttingDown \/ i \in dirty THEN queue ELSE Append(queue, i)
  /\ UNCHANGED <<processing, shuttingDown, holding, exited>>

\* Mutant of Add: it does not look whether the queue is shutting down.
AddIgnoresShutDown(i) ==
  /\ dirty' = dirty \union {i}
  /\ queue' = IF i \in dirty \union processing THEN queue ELSE Append(queue, i)
  /\ UNCHANGED <<processing, shuttingDown, holding, exited>>

(***************************************************************************)
(* Add: an item that is already dirty is not queued twice (the default     *)
(* queue's Touch does nothing); an item that is being processed is only    *)
(* marked, Done will queue it.                                             *)
(***************************************************************************)
Add(i) ==
  /\ dirty' = IF shuttingDown THEN dirty ELSE dirty \union {i}
  /\ queue' = IF shuttingDown \/ i \in dirty \/ i \in processing
              THEN queue
              ELSE Append(queue, i)
  /\ UNCHANGED <<processing, shuttingDown, holding, exited>>

(***************************************************************************)
(* Get blocks while the queue is empty; it hands out queued items even     *)
(* after ShutDown.                                                         *)
(***************************************************************************)
Get(w) ==
  /\ holding[w] = NoItem
  /\ w \notin exited
  /\ queue # <<>>
  /\ LET i == Head(queue) IN
       /\ queue' = Tail(queue)
       /\ processing' = processing \union {i}
       /\ dirty' = dirty \ {i}
       /\ holding' = [holding EXCEPT ![w] = i]
  /\ UNCHANGED <<shuttingDown, exited>>

\* Get on an empty queue that is shutting down returns shutdown = true, and
\* the worker's loop over processNextWorkItem ends.
GetShutdown(w) ==
  /\ holding[w] = NoItem
  /\ w \notin exited
  /\ queue = <<>>
  /\ shuttingDown
  /\ exited' = exited \union {w}
  /\ UNCHANGED <<queue, dirty, processing, shuttingDown, holding>>

\* Mutant of Done: an item marked while it was processed is not queued.
DoneForgets(w) ==
  /\ holding[w] # NoItem
  /\ processing' = processing \ {holding[w]}
  /\ holding' = [holding EXCEPT ![w] = NoItem]
  /\ UNCHANGED <<queue, dirty, shuttingDown, exited>>

\* Mutant of Done: the worker's item is reset before it is queued again.
DoneResetsFirst(w) ==
  /\ holding[w] # NoItem
  /\ holding' = [holding EXCEPT ![w] = NoItem]
  /\ processing' = processing \ {holding[w]}
  /\ queue' = IF holding[w] \in dirty THEN Append(queue, holding'[w]) ELSE queue
  /\ UNCHANGED <<dirty, shuttingDown, exited>>

\* Done queues the item again when it was marked dirty while processed.
Done(w) ==
  /\ holding[w] # NoItem
  /\ LET i == holding[w] IN
       /\ processing' = processing \ {i}
       /\ queue' = IF i \in dirty THEN Append(queue, i) ELSE queue
  /\ holding' = [holding EXCEPT ![w] = NoItem]
  /\ UNCHANGED <<dirty, shuttingDown, exited>>

ShutDown ==
  /\ ~shuttingDown
  /\ shuttingDown' = TRUE
  /\ UNCHANGED <<queue, dirty, processing, holding, exited>>

WQNext ==
  \/ \E i \in Items : Add(i)
  \/ \E w \in Workers : Get(w)
  \/ \E w \in Workers : GetShutdown(w)
  \/ \E w \in Workers : Done(w)
  \/ ShutDown

WQSpec == WQInit /\ [][WQNext]_wqVars

(***************************************************************************)
(* Fairness: a goroutine blocked in Get is woken by the condition          *)
(* variable, and every handler returns (its calls to the API server end in *)
(* an answer or an error, and it has no loop of its own).  Nothing is      *)
(* promised after ShutDown: it is the deferred call of Run, main returns   *)
(* right after it, and the process ends with whatever the workers hold.    *)
(***************************************************************************)
WQFairness ==
  \A w \in Workers :
    WF_wqVars(~shuttingDown /\ Get(w)) /\ WF_wqVars(~shuttingDown /\ Done(w))

WQFairSpec == WQSpec /\ WQFairness

-----------------------------------------------------------------------------
WQTypeOK ==
  /\ queue \in Seq(Items)
  /\ dirty \in SUBSET Items
  /\ processing \in SUBSET Items
  /\ shuttingDown \in BOOLEAN
  /\ holding \in [Workers -> Items \union {NoItem}]
  /\ exited \in SUBSET Workers

\* Every queued item is dirty, is not being processed, and is queued once.
QueuedOnce ==
  /\ \A k \in 1..Len(queue) : queue[k] \in dirty \ processing
  /\ \A k, l \in 1..Len(queue) : queue[k] = queue[l] => k = l

\* A mark is never lost: what is dirty is queued, or will be queued by the
\* Done of the worker that is processing it.
NoMarkLost ==
  \A i \in dirty \ processing : \E k \in 1..Len(queue) : queue[k] = i

\* The processing set is what the workers hold.
ProcessingIsHeld ==
  /\ \A w \in Workers : holding[w] # NoItem => holding[w] \in processing
  /\ \A i \in processing : \E w \in Workers : holding[w] = i

(***************************************************************************)
(* "... we are never processing the same item simultaneously in two        *)
(* different workers" (internal/controller.go, on field workqueue).        *)
(***************************************************************************)
ItemExclusive ==
  \A v, w \in Workers : holding[v] = holding[w] => v = w \/ holding[v] = NoItem

WQInv == QueuedOnce /\ NoMarkLost /\ ProcessingIsHeld /\ ItemExclusive

\* The queue implements the abstract work set: the dirty set is what needs
\* work, whatever the order of the queue.
WS == INSTANCE WorkSet WITH pending <- dirty, held <- holding, closed <- shuttingDown

ImplementsWorkSet == WS!Spec

(***************************************************************************)
(* Every item that is marked is eventually handed to a worker, also when   *)
(* others keep being added (the queue is first-in first-out) and when it   *)
(* was marked during its own processing, unless the queue is shut down.    *)
(***************************************************************************)
EveryMarkServed ==
  \A i \in Items : i \in dirty ~> shuttingDown \/ \E w \in Workers : holding[w] = i
=============================================================================
