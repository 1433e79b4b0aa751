---------------------------- MODULE ScrapeProofs ----------------------------
(***************************************************************************)
(* Proofs about scrapes and reflectors, for every number of requests,      *)
(* resources, stores and changes.                                          *)
(***************************************************************************)
EXTENDS Scrape, TLAPS

Distinct(q) == \A i, j \in 1..Len(q) : q[i] = q[j] => i = j

\* build appends every store once: the unlocks of a slice need that, for a store
\* that was in it twice would be unlocked while the other lock is still due.
SlicesInv ==
  \A u \in Resources :
    /\ Distinct(slices[u])
    /\ \A i \in 1..Len(slices[u]) : slices[u][i] \notin spare

\* Where a scrape is in writeAllTo, and how far its locks and its output are.
Position(p) ==
  /\ stage[p] \in {"lock", "write", "unlock"} => Distinct(mine[p]) /\ pos[p] <= Len(mine[p])
  /\ stage[p] = "lock" => pos[p] < Len(mine[p]) /\ seen[p] = <<>>
  /\ stage[p] = "write" => pos[p] = Len(mine[p]) /\ Len(seen[p]) < Len(mine[p])
  /\ stage[p] = "unlock" => pos[p] >= 1

\* The inductive invariant.
ScrapeInv ==
  /\ TypeOK
  /\ SlicesInv
  /\ \A p \in Scrapers : Position(p)
  /\ LockDiscipline
  /\ OneMoment

\* What p has written still holds.
Current(p) ==
  stage[p] = "write" => \A i \in 1..Len(seen[p]) : seen[p][i] = content[mine[p][i]]

\* A scrape that does not move.
Rests(p) == stage'[p] = stage[p] /\ mine'[p] = mine[p] /\ pos'[p] = pos[p] /\ seen'[p] = seen[p]

-----------------------------------------------------------------------------
(* Lemmas.                                                                 *)

LEMMA RestsHeld ==
  ASSUME NEW p \in Scrapers, Rests(p)
  PROVE  Held(p)' = Held(p) /\ (Position(p) => Position(p)')
  BY DEF Rests, Held, Position, Distinct

\* The locks, as a relation between scrapes and stores.
LEMMA ReadersHeld ==
  ASSUME TypeOK
  PROVE  (\A s \in Stores : readers[s] = {p \in Scrapers : s \in Held(p)})
           <=> (\A s \in Stores, p \in Scrapers : p \in readers[s] <=> s \in Held(p))
  BY DEF TypeOK

\* Steps that leave the scrapes and the locks alone.
LEMMA ScrapesRest ==
  ASSUME ScrapeInv, UNCHANGED <<content, readers, writer, stage, mine, pos, seen>>, TypeOK', SlicesInv'
  PROVE  ScrapeInv'
  <1>1. \A p \in Scrapers : Held(p)' = Held(p) /\ Position(p)'
    BY RestsHeld DEF ScrapeInv, Rests
  <1>2. LockDiscipline'
    BY <1>1 DEF ScrapeInv, LockDiscipline
  <1>3. OneMoment'
    BY DEF ScrapeInv, OneMoment
  <1> QED
    BY <1>1, <1>2, <1>3 DEF ScrapeInv

\* A store that is being written is in nobody's hands.
LEMMA LockedUnread ==
  ASSUME ScrapeInv, NEW s \in Stores, writer[s] = "locked", NEW p \in Scrapers,
         stage[p] = "write", NEW i \in 1..Len(seen[p])
  PROVE  mine[p][i] # s
  <1>1. readers[s] = {} /\ readers[s] = {q \in Scrapers : s \in Held(q)}
    BY DEF ScrapeInv, LockDiscipline
  <1>2. s \notin Held(p)
    BY <1>1
  <1>3. pos[p] = Len(mine[p]) /\ Len(seen[p]) < Len(mine[p]) /\ Len(mine[p]) \in Nat /\ Len(seen[p]) \in Nat
    BY DEF ScrapeInv, Position, TypeOK
  <1>4. i \in 1..pos[p]
    BY <1>3
  <1>5. mine[p][i] \in Held(p)
    BY <1>4 DEF Held
  <1> QED
    BY <1>2, <1>5

-----------------------------------------------------------------------------
(* The map.                                                                *)

LEMMA DropStoresInv ==
  ASSUME ScrapeInv, NEW u \in Resources, DropStores(u) PROVE ScrapeInv'
  <1> USE DEF ScrapeInv
  <1>1. TypeOK'
    <2>1. slices' \in [Resources -> Seq(Stores)]
      BY DEF TypeOK, DropStores
    <2>2. todo' \in [Scrapers -> SUBSET Resources] /\ visited' \in [Scrapers -> SUBSET Resources]
      BY DEF TypeOK, DropStores
    <2>3. drops' \in Nat
      BY DEF TypeOK, DropStores
    <2> QED
      BY <2>1, <2>2, <2>3 DEF TypeOK, DropStores, lockVars
  <1>2. SlicesInv'
    <2>1. /\ spare' = spare /\ slices'[u] = <<>> /\ Len(<<>>) = 0
          /\ \A x \in Resources \ {u} : slices'[x] = slices[x]
      BY DEF TypeOK, DropStores
    <2> QED
      BY <2>1 DEF SlicesInv, Distinct
  <1> QED
    BY <1>1, <1>2, ScrapesRest DEF DropStores, lockVars

LEMMA AppendStoreInv ==
  ASSUME ScrapeInv, NEW u \in Resources, NEW s \in Stores, AppendStore(u, s) PROVE ScrapeInv'
  <1> USE DEF ScrapeInv
  <1> DEFINE q == slices[u]
             r == Append(q, s)
  <1>1. q \in Seq(Stores) /\ r \in Seq(Stores)
    BY DEF TypeOK
  <1>2. slices'[u] = r /\ \A x \in Resources \ {u} : slices'[x] = slices[x]
    BY DEF TypeOK, AppendStore
  <1>3. TypeOK'
    <2>1. slices' \in [Resources -> Seq(Stores)]
      BY <1>1 DEF TypeOK, AppendStore
    <2> QED
      BY <2>1 DEF TypeOK, AppendStore, lockVars, scrapeVars
  <1>4. s \in spare /\ spare' = spare \ {s}
    BY DEF AppendStore
  <1>5. /\ Len(r) = Len(q) + 1 /\ r[Len(q) + 1] = s
        /\ \A i \in 1..Len(q) : r[i] = q[i]
        /\ Len(q) \in Nat
    BY <1>1
  <1>6. Distinct(q) /\ \A i \in 1..Len(q) : q[i] \notin spare
    BY DEF SlicesInv
  <1>7. Distinct(r)
    <2> SUFFICES ASSUME NEW i \in 1..Len(r), NEW j \in 1..Len(r), r[i] = r[j] PROVE i = j
      BY DEF Distinct
    <2>1. \A k \in 1..Len(r) : k = Len(q) + 1 \/ (k \in 1..Len(q) /\ r[k] # s)
      BY <1>4, <1>5, <1>6
    <2> QED
      BY <1>5, <1>6, <2>1 DEF Distinct
  <1>8. \A i \in 1..Len(r) : r[i] \notin spare'
    BY <1>4, <1>5, <1>6
  <1>9. SlicesInv'
    BY <1>2, <1>4, <1>7, <1>8 DEF SlicesInv, Distinct
  <1> QED
    BY <1>3, <1>9, ScrapesRest DEF AppendStore, lockVars, scrapeVars

LEMMA ConcurrentMapAccessInv ==
  ASSUME ScrapeInv, NEW p \in Scrapers, ConcurrentMapAccess(p) PROVE ScrapeInv'
  <1> USE DEF ScrapeInv
  <1>1. TypeOK'
    BY DEF TypeOK, ConcurrentMapAccess, Started, Stages
  <1>2. SlicesInv'
    BY DEF ConcurrentMapAccess, Started, SlicesInv, Distinct
  <1>3. \A q \in Scrapers : Position(q)' /\ Held(q)' = {} /\ stage'[q] = "idle"
    BY DEF ConcurrentMapAccess, Started, Position, Held
  <1>4. LockDiscipline'
    BY <1>3 DEF ConcurrentMapAccess, Started, LockDiscipline
  <1>5. OneMoment'
    BY <1>3 DEF OneMoment
  <1> QED
    BY <1>1, <1>2, <1>3, <1>4, <1>5

-----------------------------------------------------------------------------
(* A reflector.                                                            *)

LEMMA RequestLockInv ==
  ASSUME ScrapeInv, NEW s \in Stores, RequestLock(s) PROVE ScrapeInv'
  <1> USE DEF ScrapeInv
  <1>1. TypeOK'
    BY DEF TypeOK, RequestLock, mapVars, scrapeVars
  <1>2. \A x \in Stores : writer'[x] = "locked" => writer[x] = "locked"
    BY DEF TypeOK, RequestLock
  <1>3. SlicesInv' /\ OneMoment'
    BY DEF RequestLock, mapVars, scrapeVars, SlicesInv, OneMoment, Distinct
  <1>4. \A p \in Scrapers : Held(p)' = Held(p) /\ Position(p)'
    BY RestsHeld DEF Rests, RequestLock, scrapeVars
  <1>5. LockDiscipline'
    BY <1>2, <1>4 DEF RequestLock, LockDiscipline
  <1> QED
    BY <1>1, <1>3, <1>4, <1>5

LEMMA LockInv ==
  ASSUME ScrapeInv, NEW s \in Stores, Lock(s) PROVE ScrapeInv'
  <1> USE DEF ScrapeInv
  <1>1. TypeOK'
    BY DEF TypeOK, Lock, mapVars, scrapeVars
  <1>2. \A x \in Stores : writer'[x] = "locked" => writer[x] = "locked" \/ readers[x] = {}
    BY DEF TypeOK, Lock
  <1>3. SlicesInv' /\ OneMoment'
    BY DEF Lock, mapVars, scrapeVars, SlicesInv, OneMoment, Distinct
  <1>4. \A p \in Scrapers : Held(p)' = Held(p) /\ Position(p)'
    BY RestsHeld DEF Rests, Lock, scrapeVars
  <1>5. LockDiscipline'
    BY <1>2, <1>4 DEF Lock, LockDiscipline
  <1> QED
    BY <1>1, <1>3, <1>4, <1>5

\* A change of a store is not seen by a scrape that has begun to write.
LEMMA ChangeAndUnlockInv ==
  ASSUME ScrapeInv, NEW s \in Stores, ChangeAndUnlock(s) PROVE ScrapeInv'
  <1> USE DEF ScrapeInv
  <1>1. TypeOK'
    BY DEF TypeOK, ChangeAndUnlock, mapVars, scrapeVars
  <1>2. \A x \in Stores : writer'[x] = "locked" => writer[x] = "locked"
    BY DEF TypeOK, ChangeAndUnlock
  <1>3. SlicesInv'
    BY DEF ChangeAndUnlock, mapVars, scrapeVars, SlicesInv, Distinct
  <1>4. \A p \in Scrapers : Held(p)' = Held(p) /\ Position(p)'
    BY RestsHeld DEF Rests, ChangeAndUnlock, scrapeVars
  <1>5. LockDiscipline'
    BY <1>2, <1>4 DEF ChangeAndUnlock, LockDiscipline
  <1>6. OneMoment'
    <2> SUFFICES ASSUME NEW p \in Scrapers, stage[p] = "write", NEW i \in 1..Len(seen[p])
                 PROVE  seen[p][i] = content'[mine[p][i]]
      BY DEF OneMoment, ChangeAndUnlock, scrapeVars
    <2>1. mine[p][i] # s
      BY LockedUnread DEF ChangeAndUnlock
    <2>2. mine[p][i] \in Stores
      <3>1. i \in 1..Len(mine[p])
        BY DEF Position, TypeOK
      <3> QED
        BY <3>1 DEF TypeOK
    <2>3. content'[mine[p][i]] = content[mine[p][i]]
      BY <2>1, <2>2 DEF ChangeAndUnlock, TypeOK
    <2> QED
      BY <2>3 DEF OneMoment
  <1> QED
    BY <1>1, <1>3, <1>4, <1>5, <1>6

-----------------------------------------------------------------------------
(* A scrape.                                                               *)

\* One scrape moves; the map and what the stores hold stay.
LEMMA OneMoves ==
  ASSUME ScrapeInv, TypeOK', NEW p \in Scrapers,
         UNCHANGED <<mapVars, content, writer>>,
         \A q \in Scrapers \ {p} : Rests(q),
         \A s \in Stores, q \in Scrapers \ {p} : q \in readers'[s] <=> q \in readers[s],
         \A s \in Stores : p \in readers'[s] <=> s \in Held(p)',
         \A s \in Stores : writer[s] = "locked" => p \notin readers'[s],
         Position(p)', Current(p)'
  PROVE  ScrapeInv'
  <1> USE DEF ScrapeInv
  <1>1. SlicesInv'
    BY DEF SlicesInv, mapVars, Distinct
  <1>2. \A q \in Scrapers \ {p} : Held(q)' = Held(q) /\ Position(q)'
    BY RestsHeld
  <1>3. \A s \in Stores, q \in Scrapers : q \in readers[s] <=> s \in Held(q)
    BY ReadersHeld DEF LockDiscipline
  <1>4. \A s \in Stores, q \in Scrapers : q \in readers'[s] <=> s \in Held(q)'
    BY <1>2, <1>3
  <1>5. \A s \in Stores : readers'[s] = {q \in Scrapers : s \in Held(q)'}
    BY <1>4 DEF TypeOK
  <1>6. \A s \in Stores : writer'[s] = "locked" => readers'[s] = {}
    BY DEF LockDiscipline, TypeOK
  <1>7. LockDiscipline'
    BY <1>5, <1>6 DEF LockDiscipline
  <1>8. OneMoment'
    BY DEF OneMoment, Current, Rests
  <1> QED
    BY <1>1, <1>2, <1>7, <1>8

\* One scrape moves on between resources; no lock is involved.
LEMMA BetweenResources ==
  ASSUME ScrapeInv, TypeOK', NEW p \in Scrapers, NEW t \in {"idle", "range", "lock"},
         stage[p] \in {"idle", "range"},
         stage' = [stage EXCEPT ![p] = t],
         UNCHANGED <<mapVars, lockVars>>,
         \A q \in Scrapers \ {p} : mine'[q] = mine[q] /\ pos'[q] = pos[q] /\ seen'[q] = seen[q],
         t = "lock" => /\ Distinct(mine'[p]) /\ Len(mine'[p]) > 0
                       /\ pos'[p] = 0 /\ seen'[p] = <<>>
  PROVE  ScrapeInv'
  <1> USE DEF ScrapeInv
  <1>1. stage'[p] = t /\ \A q \in Scrapers \ {p} : Rests(q)
    BY DEF TypeOK, Rests
  <1>2. Held(p)' = {} /\ Held(p) = {}
    BY <1>1 DEF Held
  <1>3. \A s \in Stores : p \notin readers[s]
    BY <1>2, ReadersHeld DEF LockDiscipline
  <1>4. Position(p)'
    BY <1>1 DEF Position, TypeOK
  <1>5. Current(p)'
    BY <1>1 DEF Current
  <1> QED
    BY <1>1, <1>2, <1>3, <1>4, <1>5, OneMoves DEF lockVars

LEMMA BeginInv ==
  ASSUME ScrapeInv, NEW p \in Scrapers, Begin(p) PROVE ScrapeInv'
  <1>1. TypeOK'
    BY DEF ScrapeInv, TypeOK, Begin, Stages, Exposed, mapVars, lockVars
  <1> QED
    BY <1>1, BetweenResources DEF Begin

LEMMA EndInv ==
  ASSUME ScrapeInv, NEW p \in Scrapers, End(p) PROVE ScrapeInv'
  <1>1. TypeOK'
    BY DEF ScrapeInv, TypeOK, End, Stages, mapVars, lockVars
  <1> QED
    BY <1>1, BetweenResources DEF End

LEMMA VisitInv ==
  ASSUME ScrapeInv, NEW p \in Scrapers, NEW u \in Resources, Visit(p, u) PROVE ScrapeInv'
  <1> USE DEF ScrapeInv
  <1>1. slices[u] \in Seq(Stores) /\ slices[u] # <<>> /\ Distinct(slices[u])
    BY DEF TypeOK, Visit, Exposed, SlicesInv
  <1>2. TypeOK'
    <2>1. /\ mine' \in [Scrapers -> Seq(Stores)]
          /\ pos' \in [Scrapers -> Nat]
          /\ seen' \in [Scrapers -> Seq(Nat)]
      BY <1>1 DEF TypeOK, Visit
    <2>2. /\ stage' \in [Scrapers -> Stages]
          /\ todo' \in [Scrapers -> SUBSET Resources]
          /\ visited' \in [Scrapers -> SUBSET Resources]
      BY DEF TypeOK, Visit, Stages
    <2> QED
      BY <2>1, <2>2 DEF TypeOK, Visit, mapVars, lockVars
  <1>3. /\ mine'[p] = slices[u] /\ pos'[p] = 0 /\ seen'[p] = <<>>
        /\ \A q \in Scrapers \ {p} : mine'[q] = mine[q] /\ pos'[q] = pos[q] /\ seen'[q] = seen[q]
    BY DEF TypeOK, Visit
  <1>4. Len(slices[u]) > 0
    BY <1>1
  <1> QED
    BY <1>1, <1>2, <1>3, <1>4, BetweenResources DEF Visit

\* The store that is locked next is one more that the scrape holds.
LEMMA RLockInv ==
  ASSUME ScrapeInv, NEW p \in Scrapers, RLock(p) PROVE ScrapeInv'
  <1> USE DEF ScrapeInv
  <1> DEFINE k == pos[p] + 1
             s == mine[p][k]
             t == IF k = Len(mine[p]) THEN "write" ELSE "lock"
  <1>1. /\ stage[p] = "lock" /\ pos[p] \in Nat /\ mine[p] \in Seq(Stores)
        /\ Distinct(mine[p]) /\ pos[p] < Len(mine[p]) /\ seen[p] = <<>>
        /\ Len(mine[p]) \in Nat
    BY DEF RLock, TypeOK, Position
  <1>2. k \in 1..Len(mine[p]) /\ s \in Stores /\ writer[s] = "idle"
    BY <1>1 DEF RLock
  <1>3. /\ readers'[s] = readers[s] \union {p}
        /\ \A x \in Stores \ {s} : readers'[x] = readers[x]
        /\ readers' \in [Stores -> SUBSET Scrapers]
    BY <1>2 DEF RLock, TypeOK
  <1>4. /\ stage'[p] = t /\ pos'[p] = k /\ mine'[p] = mine[p] /\ seen'[p] = seen[p]
        /\ \A q \in Scrapers \ {p} : Rests(q)
    BY DEF RLock, TypeOK, Rests
  <1>5. TypeOK'
    <2>1. stage' \in [Scrapers -> Stages] /\ pos' \in [Scrapers -> Nat]
      BY DEF RLock, TypeOK, Stages
    <2> QED
      BY <1>3, <2>1 DEF TypeOK, RLock, mapVars
  <1>6. Held(p)' = Held(p) \union {s}
    <2>1. Held(p) = {mine[p][i] : i \in 1..pos[p]}
      BY <1>1 DEF Held
    <2>2. Held(p)' = {mine[p][i] : i \in 1..k}
      BY <1>4 DEF Held
    <2>3. 1..k = (1..pos[p]) \union {k}
      BY <1>1
    <2> QED
      BY <2>1, <2>2, <2>3
  <1>7. \A x \in Stores : p \in readers[x] <=> x \in Held(p)
    BY ReadersHeld DEF LockDiscipline
  <1>8. \A x \in Stores : p \in readers'[x] <=> x \in Held(p)'
    BY <1>2, <1>3, <1>6, <1>7
  <1>9. \A x \in Stores : writer[x] = "locked" => p \notin readers'[x]
    BY <1>2, <1>3 DEF LockDiscipline
  <1>10. Position(p)' /\ Current(p)'
    <2>1. Len(seen'[p]) = 0
      BY <1>1, <1>4
    <2> QED
      BY <1>1, <1>2, <1>4, <2>1 DEF Position, Current, Distinct
  <1>11. \A x \in Stores, q \in Scrapers \ {p} : q \in readers'[x] <=> q \in readers[x]
    BY <1>2, <1>3
  <1> QED
    BY <1>4, <1>5, <1>8, <1>9, <1>10, <1>11, OneMoves DEF RLock

\* Writing and giving up move neither the locks nor the reflectors.
LEMMA SameLocks ==
  ASSUME ScrapeInv, TypeOK', NEW p \in Scrapers, NEW t \in {"write", "unlock"},
         stage[p] = "write", stage' = [stage EXCEPT ![p] = t],
         UNCHANGED <<mapVars, lockVars, mine, pos>>,
         \A q \in Scrapers \ {p} : seen'[q] = seen[q],
         t = "write" => Len(seen'[p]) < Len(mine[p]),
         t = "write" => \A i \in 1..Len(seen'[p]) : seen'[p][i] = content[mine[p][i]]
  PROVE  ScrapeInv'
  <1> USE DEF ScrapeInv
  <1>1. stage'[p] = t /\ \A q \in Scrapers \ {p} : Rests(q)
    BY DEF TypeOK, Rests
  <1>2. Held(p)' = Held(p)
    BY <1>1 DEF Held
  <1>3. /\ \A x \in Stores : p \in readers[x] <=> x \in Held(p)
        /\ \A x \in Stores : writer[x] = "locked" => p \notin readers[x]
    BY ReadersHeld DEF LockDiscipline
  <1>4. pos[p] = Len(mine[p]) /\ Distinct(mine[p]) /\ Len(seen[p]) < Len(mine[p])
    BY DEF Position
  <1>5. pos[p] >= 1
    BY <1>4 DEF TypeOK
  <1>6. Position(p)'
    BY <1>1, <1>4, <1>5 DEF Position, Distinct, TypeOK
  <1>7. Current(p)'
    BY <1>1 DEF Current, lockVars
  <1> QED
    BY <1>1, <1>2, <1>3, <1>6, <1>7, OneMoves DEF lockVars

LEMMA WriteStoreInv ==
  ASSUME ScrapeInv, NEW p \in Scrapers, WriteStore(p) PROVE ScrapeInv'
  <1> USE DEF ScrapeInv
  <1> DEFINE m == Len(seen[p])
             c == content[mine[p][m + 1]]
             t == IF m + 1 = Len(mine[p]) THEN "unlock" ELSE "write"
  <1>1. /\ stage[p] = "write" /\ seen[p] \in Seq(Nat) /\ mine[p] \in Seq(Stores)
        /\ m < Len(mine[p]) /\ m \in Nat /\ Len(mine[p]) \in Nat
    BY DEF WriteStore, TypeOK, Position
  <1>2. c \in Nat
    <2>1. mine[p][m + 1] \in Stores
      BY <1>1
    <2> QED
      BY <2>1 DEF TypeOK
  <1>3. /\ seen'[p] = Append(seen[p], c)
        /\ \A q \in Scrapers \ {p} : seen'[q] = seen[q]
        /\ seen' \in [Scrapers -> Seq(Nat)]
    BY <1>1, <1>2 DEF WriteStore, TypeOK
  <1>4. TypeOK'
    <2>1. stage' \in [Scrapers -> Stages]
      BY DEF WriteStore, TypeOK, Stages
    <2> QED
      BY <1>3, <2>1 DEF WriteStore, TypeOK, mapVars, lockVars
  <1>5. Len(seen'[p]) = m + 1 /\ seen'[p][m + 1] = c /\ \A i \in 1..m : seen'[p][i] = seen[p][i]
    BY <1>1, <1>2, <1>3
  <1>6. t = "write" => m + 1 < Len(mine[p])
    BY <1>1
  <1>7. \A i \in 1..(m + 1) : seen'[p][i] = content[mine[p][i]]
    <2>1. \A i \in 1..m : seen[p][i] = content[mine[p][i]]
      BY <1>1 DEF OneMoment
    <2> QED
      BY <1>1, <1>5, <2>1
  <1>8. stage' = [stage EXCEPT ![p] = t] /\ t \in {"write", "unlock"}
    BY DEF WriteStore
  <1> HIDE DEF t
  <1>9. /\ t = "write" => Len(seen'[p]) < Len(mine[p])
        /\ t = "write" => \A i \in 1..Len(seen'[p]) : seen'[p][i] = content[mine[p][i]]
    BY <1>5, <1>6, <1>7, SMTT(20)
  <1>10. stage[p] = "write" /\ UNCHANGED <<mapVars, lockVars, mine, pos>>
    BY DEF WriteStore
  <1> QED
    BY <1>3, <1>4, <1>8, <1>9, <1>10, SameLocks, ZenonT(30)

LEMMA WriteFailsInv ==
  ASSUME ScrapeInv, NEW p \in Scrapers, WriteFails(p) PROVE ScrapeInv'
  <1>1. TypeOK'
    BY DEF ScrapeInv, WriteFails, TypeOK, Stages, mapVars, lockVars
  <1> QED
    BY <1>1, SameLocks DEF WriteFails

\* The store that is unlocked is in no other place of the slice.
LEMMA RUnlockInv ==
  ASSUME ScrapeInv, NEW p \in Scrapers, RUnlock(p) PROVE ScrapeInv'
  <1> USE DEF ScrapeInv
  <1> DEFINE k == pos[p]
             s == mine[p][k]
             t == IF k = 1 THEN "range" ELSE "unlock"
  <1>1. /\ stage[p] = "unlock" /\ k \in Nat /\ mine[p] \in Seq(Stores)
        /\ Distinct(mine[p]) /\ k <= Len(mine[p]) /\ k >= 1 /\ Len(mine[p]) \in Nat
    BY DEF RUnlock, TypeOK, Position
  <1>2. k \in 1..Len(mine[p]) /\ s \in Stores
    BY <1>1
  <1>3. /\ readers'[s] = readers[s] \ {p}
        /\ \A x \in Stores \ {s} : readers'[x] = readers[x]
        /\ readers' \in [Stores -> SUBSET Scrapers]
    BY <1>2 DEF RUnlock, TypeOK
  <1>4. /\ stage'[p] = t /\ pos'[p] = k - 1 /\ mine'[p] = mine[p] /\ seen'[p] = seen[p]
        /\ \A q \in Scrapers \ {p} : Rests(q)
    BY DEF RUnlock, TypeOK, Rests
  <1>5. TypeOK'
    <2>1. stage' \in [Scrapers -> Stages] /\ pos' \in [Scrapers -> Nat]
      BY <1>1 DEF RUnlock, TypeOK, Stages
    <2> QED
      BY <1>3, <2>1 DEF TypeOK, RUnlock, mapVars
  <1>6. Held(p)' = Held(p) \ {s}
    <2>1. Held(p) = {mine[p][i] : i \in 1..k}
      BY <1>1 DEF Held
    <2>2. Held(p)' = {mine[p][i] : i \in 1..(k - 1)}
      <3>1. CASE k = 1
        <4>1. 1..(k - 1) = {}
          BY <3>1
        <4> QED
          BY <1>4, <3>1, <4>1 DEF Held
      <3>2. CASE k # 1
        BY <1>4, <3>2 DEF Held
      <3> QED
        BY <3>1, <3>2
    <2>3. \A i \in 1..k : mine[p][i] = s => i = k
      BY <1>1, <1>2 DEF Distinct
    <2>4. \A i \in 1..k : i \in 1..(k - 1) <=> i # k
      BY <1>1
    <2>5. \A i \in 1..(k - 1) : i \in 1..k
      BY <1>1
    <2> QED
      BY <2>1, <2>2, <2>3, <2>4, <2>5
  <1>7. \A x \in Stores : p \in readers[x] <=> x \in Held(p)
    BY ReadersHeld DEF LockDiscipline
  <1>8. \A x \in Stores : p \in readers'[x] <=> x \in Held(p)'
    BY <1>2, <1>3, <1>6, <1>7
  <1>9. \A x \in Stores : writer[x] = "locked" => p \notin readers'[x]
    BY <1>2, <1>3 DEF LockDiscipline
  <1>10. Position(p)' /\ Current(p)'
    BY <1>1, <1>4 DEF Position, Current, Distinct
  <1>11. \A x \in Stores, q \in Scrapers \ {p} : q \in readers'[x] <=> q \in readers[x]
    BY <1>2, <1>3
  <1> QED
    BY <1>4, <1>5, <1>8, <1>9, <1>10, <1>11, OneMoves DEF RUnlock

-----------------------------------------------------------------------------
(* The theorems.                                                           *)

LEMMA ScrapeInit == Init => ScrapeInv
  <1> SUFFICES ASSUME Init PROVE ScrapeInv
    OBVIOUS
  <1>1. TypeOK
    BY ScrapeAssumption DEF Init, TypeOK, Stages
  <1>2. SlicesInv
    BY DEF Init, SlicesInv, Distinct
  <1>3. \A p \in Scrapers : Position(p) /\ Held(p) = {} /\ stage[p] = "idle"
    BY DEF Init, Position, Held
  <1>4. LockDiscipline
    BY <1>3 DEF Init, LockDiscipline
  <1>5. OneMoment
    BY <1>3 DEF OneMoment
  <1> QED
    BY <1>1, <1>2, <1>3, <1>4, <1>5 DEF ScrapeInv

LEMMA ScrapeNext == ScrapeInv /\ [Next]_vars => ScrapeInv'
  <1> SUFFICES ASSUME ScrapeInv, [Next]_vars PROVE ScrapeInv'
    OBVIOUS
  <1>1. CASE \/ \E u \in Resources : DropStores(u)
             \/ \E u \in Resources, s \in Stores : AppendStore(u, s)
    BY <1>1, DropStoresInv, AppendStoreInv
  <1>2. CASE \E s \in Stores : RequestLock(s) \/ Lock(s) \/ ChangeAndUnlock(s)
    BY <1>2, RequestLockInv, LockInv, ChangeAndUnlockInv
  <1>3. ASSUME NEW p \in Scrapers,
               \/ ConcurrentMapAccess(p)
               \/ Begin(p) \/ End(p) \/ RLock(p) \/ WriteStore(p) \/ WriteFails(p) \/ RUnlock(p)
               \/ \E u \in Resources : Visit(p, u)
        PROVE  ScrapeInv'
    BY <1>3, ConcurrentMapAccessInv, BeginInv, EndInv, RLockInv, WriteStoreInv, WriteFailsInv,
       RUnlockInv, VisitInv
  <1>4. CASE UNCHANGED vars
    <2>1. TypeOK' /\ SlicesInv'
      BY <1>4 DEF vars, mapVars, lockVars, scrapeVars, ScrapeInv, TypeOK, SlicesInv, Distinct
    <2> QED
      BY <1>4, <2>1, ScrapesRest DEF vars, lockVars, scrapeVars
  <1> QED
    BY <1>1, <1>2, <1>3, <1>4 DEF Next

\* The invariant holds whatever scrapes, reflectors and workers do.
THEOREM ScrapeInvariant == Spec => []ScrapeInv
  BY ScrapeInit, ScrapeNext, PTL DEF Spec

\* Type correctness of the scrapes.
THEOREM ScrapeTypeCorrect == Spec => []TypeOK
  <1>1. ScrapeInv => TypeOK
    BY DEF ScrapeInv
  <1> QED
    BY <1>1, ScrapeInvariant, PTL

\* On every path through writeAllTo, the failing ones included, a scrape holds
\* the read locks of exactly the stores it has come to, and no reflector writes
\* a store that is read: with any number of requests, stores and drops.
THEOREM ScrapeLockDiscipline == Spec => []LockDiscipline
  <1>1. ScrapeInv => LockDiscipline
    BY DEF ScrapeInv
  <1> QED
    BY <1>1, ScrapeInvariant, PTL

\* A scrape shows the stores of a resource as they are at one moment: what it
\* has written stays true until it has written the last of them, because
\* writeAllTo locks them all before it writes the first.
THEOREM ScrapeOneMoment == Spec => []OneMoment
  <1>1. ScrapeInv => OneMoment
    BY DEF ScrapeInv
  <1> QED
    BY <1>1, ScrapeInvariant, PTL
=============================================================================
