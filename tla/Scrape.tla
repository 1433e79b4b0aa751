------------------------------- MODULE Scrape -------------------------------
(***************************************************************************)
(* Scrapes of the main server.  A scrape ranges over the map of resources; *)
(* for each it read-locks all stores of the resource, writes what they     *)
(* hold to its client, and unlocks.  Each store's reflector takes the      *)
(* store's write lock for every object it adds or deletes.  Workers drop   *)
(* and append the stores of a resource meanwhile: the server's own lock is *)
(* only ever read-locked and keeps nobody out.  A range over the map that  *)
(* meets a write to it may therefore be stopped by the Go runtime.         *)
(*                                                                         *)
(* The locks are sync.RWMutex: a reader waits for a writer that holds the  *)
(* lock or waits for it, a writer waits for the readers that hold it.      *)
(***************************************************************************)
EXTENDS Naturals, Sequences, FiniteSets

CONSTANTS
  Scrapers,    \* concurrent requests of /metrics
  Resources,   \* UIDs, the keys of the map
  Stores,      \* the stores that may be built
  MaxUpdates,  \* bound: writes of reflectors
  MaxDrops     \* bound: calls of dropStores and stops of the process

VARIABLES
  slices,    \* slices[u]: the stores of u in the map
  spare,     \* stores not built yet
  content,   \* content[s]: counts the changes of what s holds
  readers,   \* readers[s]: the scrapers that hold the read lock of s
  writer,    \* writer[s]: "idle", "waiting" for the write lock or "locked"
  stage,     \* stage[p]: "idle", "range", "lock", "write" or "unlock"
  todo,      \* todo[p]: resources p must still visit
  visited,   \* visited[p]: resources p has visited
  mine,      \* mine[p]: the slice handed to newMetricsWriter
  pos,       \* pos[p]: how many stores of mine[p] are locked, or not yet unlocked
  seen,      \* seen[p]: what p wrote of the stores of mine[p]
  updates,   \* updates left
  drops      \* drops left

mapVars == <<slices, spare, drops>>
lockVars == <<content, readers, writer, updates>>
scrapeVars == <<stage, todo, visited, mine, pos, seen>>
vars == <<mapVars, lockVars, scrapeVars>>

ASSUME ScrapeAssumption == MaxUpdates \in Nat /\ MaxDrops \in Nat

Stages == {"idle", "range", "lock", "write", "unlock"}

TypeOK ==
  /\ slices \in [Resources -> Seq(Stores)]
  /\ spare \in SUBSET Stores
  /\ content \in [Stores -> Nat]
  /\ readers \in [Stores -> SUBSET Scrapers]
  /\ writer \in [Stores -> {"idle", "waiting", "locked"}]
  /\ stage \in [Scrapers -> Stages]
  /\ todo \in [Scrapers -> SUBSET Resources]
  /\ visited \in [Scrapers -> SUBSET Resources]
  /\ mine \in [Scrapers -> Seq(Stores)]
  /\ pos \in [Scrapers -> Nat]
  /\ seen \in [Scrapers -> Seq(Nat)]
  /\ updates \in Nat /\ drops \in Nat

Init ==
  /\ slices = [u \in Resources |-> <<>>]
  /\ spare = Stores
  /\ content = [s \in Stores |-> 0]
  /\ readers = [s \in Stores |-> {}]
  /\ writer = [s \in Stores |-> "idle"]
  /\ stage = [p \in Scrapers |-> "idle"]
  /\ todo = [p \in Scrapers |-> {}]
  /\ visited = [p \in Scrapers |-> {}]
  /\ mine = [p \in Scrapers |-> <<>>]
  /\ pos = [p \in Scrapers |-> 0]
  /\ seen = [p \in Scrapers |-> <<>>]
  /\ updates = MaxUpdates
  /\ drops = MaxDrops

\* What a start of the process sets up.
Started ==
  /\ slices' = [u \in Resources |-> <<>>]
  /\ spare' = Stores
  /\ content' = [s \in Stores |-> 0]
  /\ readers' = [s \in Stores |-> {}]
  /\ writer' = [s \in Stores |-> "idle"]
  /\ stage' = [p \in Scrapers |-> "idle"]
  /\ todo' = [p \in Scrapers |-> {}]
  /\ visited' = [p \in Scrapers |-> {}]
  /\ mine' = [p \in Scrapers |-> <<>>]
  /\ pos' = [p \in Scrapers |-> 0]
  /\ seen' = [p \in Scrapers |-> <<>>]

Exposed == {u \in Resources : slices[u] # <<>>}
Built(s) == s \notin spare

-----------------------------------------------------------------------------
(* The workers (module Controller), as far as the map is concerned.        *)

\* dropStores.  A range in progress does not produce the entry any more; if it is
\* added again, the range may produce it or not.
DropStores(u) ==
  /\ u \in Exposed
  /\ drops > 0
  /\ drops' = drops - 1
  /\ slices' = [slices EXCEPT ![u] = <<>>]
  /\ todo' = [p \in Scrapers |-> todo[p] \ {u}]
  /\ visited' = [p \in Scrapers |-> visited[p] \ {u}]
  /\ UNCHANGED <<spare, lockVars, stage, mine, pos, seen>>

\* A drop or an append meets the range of p and the runtime stops the process,
\* which is started again with an empty map; all requests are lost.  Counted
\* among the drops.
ConcurrentMapAccess(p) ==
  /\ stage[p] = "range"
  /\ Exposed # {} \/ spare # {}
  /\ drops > 0
  /\ drops' = drops - 1
  /\ updates' = updates
  /\ Started

\* Mutant of AppendStore: build appends what a failing buildStore returned.
AppendNil(u, s) ==
  /\ s \in spare
  /\ spare' = spare \ {s}
  /\ slices' = [slices EXCEPT ![u] = Append(@, "nil")]
  /\ UNCHANGED <<drops, lockVars, scrapeVars>>

\* build appends a new store.  This is one step: that the append reads and writes
\* the map without a lock, and what two workers make of it, is in Controller.
AppendStore(u, s) ==
  /\ s \in spare
  /\ spare' = spare \ {s}
  /\ slices' = [slices EXCEPT ![u] = Append(@, s)]
  /\ UNCHANGED <<drops, lockVars, scrapeVars>>

-----------------------------------------------------------------------------
(* A reflector: Add, Update or Delete of its store.                        *)

\* Mutant of RequestLock: the metrics are replaced before the lock is taken.
ChangeBeforeLock(s) ==
  /\ Built(s)
  /\ writer[s] = "idle"
  /\ updates > 0
  /\ updates' = updates - 1
  /\ content' = [content EXCEPT ![s] = @ + 1]
  /\ writer' = [writer EXCEPT ![s] = "waiting"]
  /\ UNCHANGED <<mapVars, readers, scrapeVars>>

RequestLock(s) ==
  /\ Built(s)
  /\ writer[s] = "idle"
  /\ updates > 0
  /\ updates' = updates - 1
  /\ writer' = [writer EXCEPT ![s] = "waiting"]
  /\ UNCHANGED <<mapVars, content, readers, scrapeVars>>

Lock(s) ==
  /\ writer[s] = "waiting"
  /\ readers[s] = {}
  /\ writer' = [writer EXCEPT ![s] = "locked"]
  /\ UNCHANGED <<mapVars, content, readers, updates, scrapeVars>>

\* The metrics of an object are replaced or deleted; the deferred unlock.
ChangeAndUnlock(s) ==
  /\ writer[s] = "locked"
  /\ content' = [content EXCEPT ![s] = @ + 1]
  /\ writer' = [writer EXCEPT ![s] = "idle"]
  /\ UNCHANGED <<mapVars, readers, updates, scrapeVars>>

-----------------------------------------------------------------------------
(* A scrape.                                                               *)

Begin(p) ==
  /\ stage[p] = "idle"
  /\ stage' = [stage EXCEPT ![p] = "range"]
  /\ todo' = [todo EXCEPT ![p] = Exposed]
  /\ visited' = [visited EXCEPT ![p] = {}]
  /\ UNCHANGED <<mapVars, lockVars, mine, pos, seen>>

\* The range produces an entry, in any order, also one added since it began.  A
\* copy stands for the slice (stores... shares its array): a worker appends after
\* what the scrape sees, unless two of them race.
Visit(p, u) ==
  /\ stage[p] = "range"
  /\ u \in Exposed \ visited[p]
  /\ stage' = [stage EXCEPT ![p] = "lock"]
  /\ todo' = [todo EXCEPT ![p] = @ \ {u}]
  /\ visited' = [visited EXCEPT ![p] = @ \union {u}]
  /\ mine' = [mine EXCEPT ![p] = slices[u]]
  /\ pos' = [pos EXCEPT ![p] = 0]
  /\ seen' = [seen EXCEPT ![p] = <<>>]
  /\ UNCHANGED <<mapVars, lockVars>>

End(p) ==
  /\ stage[p] = "range"
  /\ todo[p] = {}
  /\ stage' = [stage EXCEPT ![p] = "idle"]
  /\ UNCHANGED <<mapVars, lockVars, todo, visited, mine, pos, seen>>

\* Mutant of RLock: readers do not wait for a reflector that waits.
RLockFirst(p) ==
  /\ stage[p] = "lock"
  /\ LET s == mine[p][pos[p] + 1] IN
       /\ writer[s] # "locked"
       /\ readers' = [readers EXCEPT ![s] = @ \union {p}]
  /\ pos' = [pos EXCEPT ![p] = @ + 1]
  /\ stage' = [stage EXCEPT ![p] = IF pos[p] + 1 = Len(mine[p]) THEN "write" ELSE "lock"]
  /\ UNCHANGED <<mapVars, content, writer, updates, todo, visited, mine, seen>>

\* The next store in the order of the slice is read-locked.
RLock(p) ==
  /\ stage[p] = "lock"
  /\ LET s == mine[p][pos[p] + 1] IN
       /\ writer[s] = "idle"
       /\ readers' = [readers EXCEPT ![s] = @ \union {p}]
  /\ pos' = [pos EXCEPT ![p] = @ + 1]
  /\ stage' = [stage EXCEPT ![p] = IF pos[p] + 1 = Len(mine[p]) THEN "write" ELSE "lock"]
  /\ UNCHANGED <<mapVars, content, writer, updates, todo, visited, mine, seen>>

\* The headers and the metrics of the next store are written to the client.
WriteStore(p) ==
  /\ stage[p] = "write"
  /\ seen' = [seen EXCEPT ![p] = Append(@, content[mine[p][Len(@) + 1]])]
  /\ stage' = [stage EXCEPT ![p] = IF Len(seen[p]) + 1 = Len(mine[p])
                                   THEN "unlock" ELSE "write"]
  /\ UNCHANGED <<mapVars, lockVars, todo, visited, mine, pos>>

\* Mutant of WriteFails: the early return leaves the locks.
WriteFailsLocked(p) ==
  /\ stage[p] = "write"
  /\ stage' = [stage EXCEPT ![p] = "range"]
  /\ UNCHANGED <<mapVars, lockVars, todo, visited, mine, pos, seen>>

\* Mutant of WriteFails: the handler tries again instead of going on.
WriteFailsRetries(p) ==
  /\ stage[p] = "write"
  /\ seen' = [seen EXCEPT ![p] = <<>>]
  /\ UNCHANGED <<mapVars, lockVars, stage, todo, visited, mine, pos>>

\* The client is gone: writeAllTo returns; the handler logs it and goes on.
WriteFails(p) ==
  /\ stage[p] = "write"
  /\ stage' = [stage EXCEPT ![p] = "unlock"]
  /\ UNCHANGED <<mapVars, lockVars, todo, visited, mine, pos, seen>>

\* The deferred unlocks run last in, first out.
RUnlock(p) ==
  /\ stage[p] = "unlock"
  /\ readers' = [readers EXCEPT ![mine[p][pos[p]]] = @ \ {p}]
  /\ pos' = [pos EXCEPT ![p] = @ - 1]
  /\ stage' = [stage EXCEPT ![p] = IF pos[p] = 1 THEN "range" ELSE "unlock"]
  /\ UNCHANGED <<mapVars, content, writer, updates, todo, visited, mine, seen>>

Next ==
  \/ \E u \in Resources : DropStores(u)
  \/ \E u \in Resources, s \in Stores : AppendStore(u, s)
  \/ \E s \in Stores : RequestLock(s) \/ Lock(s) \/ ChangeAndUnlock(s)
  \/ \E p \in Scrapers :
       \/ ConcurrentMapAccess(p)
       \/ Begin(p) \/ End(p) \/ RLock(p) \/ WriteStore(p) \/ WriteFails(p) \/ RUnlock(p)
       \/ \E u \in Resources : Visit(p, u)

Spec == Init /\ [][Next]_vars

(***************************************************************************)
(* Fairness: goroutines run, a lock that stays free is taken, and a client *)
(* reads or goes away.  Nobody is obliged to scrape, change or drop.       *)
(***************************************************************************)
Fairness ==
  /\ \A s \in Stores : WF_vars(Lock(s)) /\ WF_vars(ChangeAndUnlock(s))
  /\ \A p \in Scrapers :
       /\ WF_vars(RLock(p))
       /\ WF_vars(WriteStore(p) \/ WriteFails(p))
       /\ WF_vars(RUnlock(p))
       /\ WF_vars(End(p) \/ \E u \in Resources : Visit(p, u))

FairSpec == Spec /\ Fairness

-----------------------------------------------------------------------------
(* Properties.                                                             *)

\* The stores that p has locked, going by where it is in writeAllTo.
Held(p) ==
  IF stage[p] \in {"lock", "write", "unlock"} THEN {mine[p][i] : i \in 1..pos[p]} ELSE {}

(***************************************************************************)
(* Locks are neither leaked nor dropped early: a scrape holds exactly the  *)
(* read locks of the stores it has come to, on every path through          *)
(* writeAllTo, and no reflector changes a store under a reader.            *)
(***************************************************************************)
LockDiscipline ==
  \A s \in Stores :
    /\ readers[s] = {p \in Scrapers : s \in Held(p)}
    /\ writer[s] = "locked" => readers[s] = {}

(***************************************************************************)
(* A scrape shows all stores of a resource at one moment: while it writes, *)
(* what it has written of the first is still what the first holds          *)
(* (writeAllTo locks them all before it writes).                           *)
(***************************************************************************)
OneMoment ==
  \A p \in Scrapers : stage[p] = "write" =>
    \A i \in 1..Len(seen[p]) : seen[p][i] = content[mine[p][i]]

(***************************************************************************)
(* Scrapes and reflectors never wait for each other in a circle: every     *)
(* scrape of a resource ends.  Two scrapes that took the locks of two      *)
(* stores in opposite orders could wait for two reflectors for ever.       *)
(***************************************************************************)
ScrapesEnd ==
  \A p \in Scrapers : stage[p] \in {"lock", "write", "unlock"} ~> stage[p] \in {"range", "idle"}

\* A reflector that waits for its store's lock gets it, although scrapes never
\* cease: what is exposed does not go stale because it is scraped often.
UpdatesApplied == \A s \in Stores : writer[s] = "waiting" ~> writer[s] = "idle"
=============================================================================
