-------------------------- MODULE LifecycleProofs --------------------------
(***************************************************************************)
(* Proofs about the life of the process, for every number of workers,      *)
(* items, requests and flags and every command line and environment.       *)
(***************************************************************************)
EXTENDS Lifecycle, WorkQueueProofs

(***************************************************************************)
(* Starting: what has happened once main, or the goroutines it started,    *)
(* have come to a point.  The cache is complete before the map is made;    *)
(* workers, servers and requests only come after the map.                  *)
(***************************************************************************)
Past == {"serve", "stopMain", "return", "end"}  \* stages after Launch

StartOrder ==
  /\ stage \in {"read", "clients", "controller", "start"} => started = {}
  /\ stage = "launch" \/ mapMade => synced = Kinds
  /\ stage \in Past => mapMade
  /\ launched # {} => stage \in Past
  /\ \A s \in Servers : server[s] # "none" => mapMade
  /\ \A w \in Workers : holding[w] # NoItem => w \in launched
  /\ \A c \in Requests : req[c] # "none" => mapMade

\* Stopping: main only gets past the servers on the first signal, having closed
\* them, and the second signal ends the process wherever it is.
StopOrder ==
  /\ stage \in {"stopMain", "return", "end"} => caught >= 1 /\ server["self"] = "closed"
  /\ stage \in {"return", "end"} => server["main"] = "closed"
  /\ stage = "end" => shuttingDown
  /\ Alive => caught <= 1

\* Options: what main works with is what Read made of its inputs.
OptionsRead == stage # "read" => \A f \in Flags : value[f] = Effective(cmdline, env, f)

\* The inductive invariant.
LifeInv == TypeOK /\ StartOrder /\ StopOrder /\ OptionsRead /\ CleanExit

-----------------------------------------------------------------------------
(* Options.                                                                *)

\* A command line and an environment that can be read give every flag a value.
LEMMA EffectiveType ==
  ASSUME NEW cl \in Given, NEW en \in Given, Readable(cl, en), NEW f \in Flags
  PROVE  Effective(cl, en, f) \in Values
  <1>1. /\ cl[f] \in Values \union {Bad, Unset} /\ en[f] \in Values \union {Bad, Unset}
        /\ Default[f] \in Values
    BY OptionsAssumption DEF Given
  <1>2. Effective(cl, en, f) # Bad
    BY DEF Readable
  <1>3. Effective(cl, en, f) \in Values \union {Bad}
    BY <1>1 DEF Effective, Overridden, Parsed
  <1> QED
    BY <1>2, <1>3

\* Which of the command line, the environment and the default a flag has.
LEMMA EffectivePrecedence ==
  ASSUME NEW cl \in Given, NEW en \in Given, NEW f \in Flags
  PROVE  /\ cl[f] \notin {Unset, Default[f]} => Effective(cl, en, f) = cl[f]
         /\ cl[f] = Unset /\ en[f] # Unset => Effective(cl, en, f) = en[f]
         /\ cl[f] = Unset /\ en[f] = Unset => Effective(cl, en, f) = Default[f]
  BY DEF Effective, Overridden, Parsed

-----------------------------------------------------------------------------
(* The queue.                                                              *)

\* Every step of the process is a step of its queue, or leaves the queue alone.
LEMMA NextQueue == [Next]_vars => [WQNext]_wqVars
  <1> SUFFICES ASSUME [Next]_vars PROVE [WQNext]_wqVars
    OBVIOUS
  <1>1. CASE Signal \/ CatchFirst \/ CatchSecond
    BY <1>1 DEF Signal, CatchFirst, CatchSecond
  <1>2. CASE MainStep
    <2>1. CASE SyncCancelled \/ Return
      BY <2>1 DEF SyncCancelled, Return, WQNext
    <2>2. CASE \/ ReadOptions \/ OptionsUnreadable
               \/ QuitAfterVersion \/ BuildClients \/ BuildClientsFails \/ NewController
               \/ StartInformers \/ CachesSynced \/ Launch
               \/ StopSelf \/ StopMain \/ MainEnds
      BY <2>2 DEF ReadOptions, OptionsUnreadable, QuitAfterVersion, BuildClients,
                  BuildClientsFails, NewController, StartInformers, CachesSynced, Launch,
                  StopSelf, StopMain, MainEnds
    <2> QED
      BY <1>2, <2>1, <2>2 DEF MainStep
  <1>3. CASE \E k \in Kinds : Sync(k)
    BY <1>3 DEF Sync
  <1>4. CASE \E i \in Items : Enqueue(i)
    BY <1>4 DEF Enqueue, WQNext
  <1>5. CASE \E w \in Workers : TakeItem(w) \/ FinishItem(w) \/ LoopEnds(w)
    BY <1>5 DEF TakeItem, FinishItem, LoopEnds, WQNext
  <1>6. CASE \E s \in Servers : Listen(s)
    BY <1>6 DEF Listen
  <1>7. CASE \E c \in Requests : Forward(c) \/ Respond(c) \/ \E s \in Servers : Request(c, s)
    BY <1>7 DEF Forward, Respond, Request
  <1>8. CASE UNCHANGED vars
    BY <1>8 DEF vars
  <1> QED
    BY <1>1, <1>2, <1>3, <1>4, <1>5, <1>6, <1>7, <1>8 DEF Next

\* The queue of the running process is the queue of module WorkQueue, under
\* every order of start, signals and shutdown: what is proved of that queue
\* holds here, in particular that it implements WorkSet.
THEOREM LifeQueue == Spec => WQSpec
  <1>1. Init => WQInit
    BY DEF Init
  <1> QED
    BY <1>1, NextQueue, PTL DEF Spec, WQSpec

\* No item is given to two workers, also while Run returns and the queue is
\* shut down under them.
THEOREM LifeItemExclusive == Spec => []ItemExclusive
  BY LifeQueue, WQItemExclusive, PTL

-----------------------------------------------------------------------------
(* Types.                                                                  *)

LEMMA ExitType ==
  ASSUME TypeOK, NEW n \in {0, 1, 2}, Exit(n)
  PROVE  code' \in {0, 1, 2, Running} /\ req' \in [Requests -> {"none", "cut"} \union Open \union Answered]
  BY DEF TypeOK, Exit

LEMMA SignalsType ==
  ASSUME TypeOK, WQTypeOK', Signal \/ CatchFirst \/ CatchSecond PROVE TypeOK'
  <1>1. CASE Signal
    BY <1>1 DEF TypeOK, Signal, optVars, infVars, srvVars, SignalBuffer
  <1>2. CASE CatchFirst
    BY <1>2 DEF TypeOK, CatchFirst, optVars, infVars, srvVars, SignalBuffer
  <1>3. CASE CatchSecond
    <2>1. /\ code' \in {0, 1, 2, Running}
          /\ req' \in [Requests -> {"none", "cut"} \union Open \union Answered]
      BY <1>3, ExitType DEF CatchSecond
    <2> QED
      BY <1>3, <2>1 DEF TypeOK, CatchSecond, Exit, optVars, infVars, SignalBuffer
  <1> QED
    BY <1>1, <1>2, <1>3

\* The steps of main that end the process.
LEMMA EndsType ==
  ASSUME TypeOK, WQTypeOK', OptionsUnreadable \/ QuitAfterVersion \/ BuildClientsFails \/ MainEnds
  PROVE  TypeOK'
  <1>1. PICK n \in {0, 1, 2} : Exit(n) /\ UNCHANGED <<stage, sigVars>>
    BY DEF OptionsUnreadable, QuitAfterVersion, BuildClientsFails, MainEnds
  <1>2. /\ code' \in {0, 1, 2, Running}
        /\ req' \in [Requests -> {"none", "cut"} \union Open \union Answered]
    BY <1>1, ExitType
  <1> QED
    BY <1>1, <1>2 DEF TypeOK, Exit, optVars, infVars, sigVars

LEMMA MainType ==
  ASSUME TypeOK, WQTypeOK', MainStep PROVE TypeOK'
  <1>1. CASE ReadOptions
    <2>1. value' \in [Flags -> Values]
      <3>1. cmdline \in Given /\ env \in Given
        BY LifecycleAssumption DEF TypeOK
      <3>2. \A f \in Flags : Effective(cmdline, env, f) \in Values
        BY <1>1, <3>1, EffectiveType DEF ReadOptions
      <3> QED
        BY <1>1, <3>2 DEF ReadOptions
    <2> QED
      BY <1>1, <2>1 DEF TypeOK, ReadOptions, Proceed, Stages, sigVars, infVars, srvVars
  <1>2. CASE OptionsUnreadable \/ QuitAfterVersion \/ BuildClientsFails \/ MainEnds
    BY <1>2, EndsType
  <1>3. CASE BuildClients \/ CachesSynced \/ SyncCancelled \/ Return
    BY <1>3 DEF TypeOK, BuildClients, CachesSynced, SyncCancelled, Return, Proceed, Stages,
                optVars, sigVars, infVars, srvVars
  <1>4. CASE NewController \/ StartInformers
    BY <1>4 DEF TypeOK, NewController, StartInformers, InformerFor, Proceed, Stages,
                optVars, sigVars, srvVars
  <1>5. CASE Launch
    <2>1. mapMade' \in BOOLEAN
      BY Zenon, <1>5 DEF Launch
    <2> QED
      BY <1>5, <2>1 DEF TypeOK, Launch, LaunchedWorkers, Proceed, Stages, optVars, sigVars, infVars
  <1>6. CASE StopSelf \/ StopMain
    BY <1>6 DEF TypeOK, StopSelf, StopMain, ServerShutdown, Proceed, Stages, optVars, sigVars,
                infVars
  <1> QED
    BY <1>1, <1>2, <1>3, <1>4, <1>5, <1>6 DEF MainStep

LEMMA OthersType ==
  ASSUME TypeOK, WQTypeOK',
         \/ \E k \in Kinds : Sync(k)
         \/ \E s \in Servers : Listen(s)
         \/ \E c \in Requests : Forward(c) \/ Respond(c) \/ \E s \in Servers : Request(c, s)
  PROVE  TypeOK'
  <1>1. CASE \E k \in Kinds : Sync(k)
    BY <1>1 DEF TypeOK, Sync, optVars, sigVars, srvVars
  <1>2. CASE \E s \in Servers : Listen(s)
    BY <1>2 DEF TypeOK, Listen, optVars, sigVars, infVars
  <1>3. CASE \E c \in Requests : Forward(c)
    BY <1>3 DEF TypeOK, Forward, Open, optVars, sigVars, infVars
  <1>4. CASE \E c \in Requests : Respond(c)
    BY <1>4 DEF TypeOK, Respond, Answered, optVars, sigVars, infVars
  <1>5. CASE \E c \in Requests, s \in Servers : Request(c, s)
    BY <1>5 DEF TypeOK, Request, Open, optVars, sigVars, infVars
  <1> QED
    BY <1>1, <1>2, <1>3, <1>4, <1>5

LEMMA LifeTypeNext == TypeOK /\ [Next]_vars => TypeOK'
  <1> SUFFICES ASSUME TypeOK, [Next]_vars PROVE TypeOK'
    OBVIOUS
  <1>1. WQTypeOK'
    BY NextQueue, WQTypeStep DEF TypeOK
  <1>2. ASSUME UNCHANGED lifeVars PROVE TypeOK'
    BY <1>1, <1>2 DEF TypeOK, lifeVars, optVars, sigVars, infVars, srvVars
  <1>3. CASE \/ \E i \in Items : Enqueue(i)
             \/ \E w \in Workers : TakeItem(w) \/ FinishItem(w) \/ LoopEnds(w)
             \/ UNCHANGED vars
    BY <1>2, <1>3 DEF Enqueue, TakeItem, FinishItem, LoopEnds, vars
  <1> QED
    BY <1>1, <1>3, SignalsType, MainType, OthersType DEF Next

-----------------------------------------------------------------------------
(* The order of a start.                                                   *)

\* Steps that leave all that StartOrder is about alone, or let main go on to a
\* stage that promises nothing new.
LEMMA StartFrame ==
  ASSUME StartOrder, UNCHANGED <<mapMade, launched, server, holding, synced, started>>,
         stage' \in {"read", "clients", "controller", "start"} =>
           stage \in {"read", "clients", "controller", "start"},
         stage' = "launch" => synced = Kinds,
         stage' \in Past <=> stage \in Past,
         \A c \in Requests : req'[c] # "none" => req[c] # "none"
  PROVE  StartOrder'
  BY DEF StartOrder

\* Requests are not new when the process ends.
LEMMA ExitStart ==
  ASSUME TypeOK, StartOrder, NEW n, Exit(n), stage' = stage, UNCHANGED wqVars
  PROVE  StartOrder'
  <1>1. \A c \in Requests : req'[c] # "none" => req[c] # "none"
    BY DEF Exit, Open
  <1>2. UNCHANGED <<mapMade, launched, server, holding, synced, started>>
    BY DEF Exit, infVars, wqVars
  <1> QED
    BY <1>1, <1>2, StartFrame DEF StartOrder

LEMMA SignalsStart ==
  ASSUME TypeOK, StartOrder, Signal \/ CatchFirst \/ CatchSecond PROVE StartOrder'
  <1>1. CASE Signal \/ CatchFirst
    BY <1>1, StartFrame DEF Signal, CatchFirst, StartOrder, wqVars, infVars, srvVars
  <1>2. CASE CatchSecond
    BY <1>2, ExitStart DEF CatchSecond
  <1> QED
    BY <1>1, <1>2

LEMMA MainStart ==
  ASSUME TypeOK, StartOrder, MainStep PROVE StartOrder'
  <1>1. CASE ReadOptions \/ BuildClients \/ NewController
    BY <1>1, StartFrame DEF ReadOptions, BuildClients, NewController, Proceed, wqVars, infVars,
                            srvVars, Past
  <1>2. CASE OptionsUnreadable \/ QuitAfterVersion \/ BuildClientsFails \/ MainEnds
    BY <1>2, ExitStart DEF OptionsUnreadable, QuitAfterVersion, BuildClientsFails, MainEnds
  <1>3. CASE StartInformers
    BY <1>3 DEF StartInformers, Proceed, StartOrder, wqVars, srvVars, Past
  <1>4. CASE CachesSynced
    <2>1. synced = Kinds
      BY <1>4 DEF CachesSynced, TypeOK
    <2> QED
      BY <1>4, <2>1, StartFrame DEF CachesSynced, Proceed, wqVars, infVars, srvVars, Past
  <1>5. CASE SyncCancelled \/ Return
    BY <1>5, StartFrame DEF SyncCancelled, Return, ShutDown, Proceed, infVars, srvVars, Past
  <1>6. CASE Launch
    <2>1. synced = Kinds /\ mapMade' /\ stage' = "serve" /\ UNCHANGED <<holding, synced>>
      BY <1>6 DEF Launch, Proceed, StartOrder, wqVars, infVars
    <2>2. launched = {} /\ stage' \in Past
      BY <1>6 DEF Launch, Proceed, StartOrder, Past
    <2> QED
      BY <2>1, <2>2 DEF StartOrder
  <1>7. CASE StopSelf \/ StopMain
    <2>1. mapMade /\ stage' \in Past
      BY <1>7 DEF StopSelf, StopMain, Proceed, StartOrder, Past
    <2>2. UNCHANGED <<mapMade, launched, holding, synced, req>>
      BY <1>7 DEF StopSelf, StopMain, wqVars, infVars
    <2> QED
      BY <2>1, <2>2 DEF StartOrder, Past
  <1> QED
    BY <1>1, <1>2, <1>3, <1>4, <1>5, <1>6, <1>7 DEF MainStep

LEMMA WorkersStart ==
  ASSUME TypeOK, StartOrder,
         \/ \E i \in Items : Enqueue(i)
         \/ \E w \in Workers : TakeItem(w) \/ FinishItem(w) \/ LoopEnds(w)
  PROVE  StartOrder'
  <1>1. UNCHANGED <<stage, mapMade, launched, server, synced, started, req>>
    BY DEF Enqueue, TakeItem, FinishItem, LoopEnds, lifeVars, infVars, srvVars
  <1>2. \A w \in Workers : holding'[w] # NoItem => holding[w] # NoItem \/ w \in launched
    <2>1. CASE (\E i \in Items : Enqueue(i)) \/ (\E w \in Workers : LoopEnds(w))
      BY <2>1 DEF Enqueue, Add, LoopEnds, GetShutdown
    <2>2. CASE \E w \in Workers : TakeItem(w)
      BY <2>2 DEF TakeItem, Get, TypeOK, WQTypeOK
    <2>3. CASE \E w \in Workers : FinishItem(w)
      BY <2>3 DEF FinishItem, Done, TypeOK, WQTypeOK
    <2> QED
      BY <2>1, <2>2, <2>3
  <1> QED
    BY <1>1, <1>2 DEF StartOrder

\* A request needs a server that listens, which needs the map.
LEMMA OthersStart ==
  ASSUME TypeOK, StartOrder,
         \/ \E k \in Kinds : Sync(k)
         \/ \E s \in Servers : Listen(s)
         \/ \E c \in Requests : Forward(c) \/ Respond(c) \/ \E s \in Servers : Request(c, s)
  PROVE  StartOrder'
  <1>1. CASE \E k \in Kinds : Sync(k)
    <2>1. synced = Kinds => synced' = Kinds
      BY <1>1 DEF Sync
    <2>2. UNCHANGED <<stage, mapMade, launched, server, holding, started, req>>
      BY <1>1 DEF Sync, wqVars, srvVars
    <2> QED
      BY <2>1, <2>2 DEF StartOrder
  <1>2. ASSUME NEW s \in Servers, Listen(s) PROVE StartOrder'
    <2>1. \A x \in Servers : server'[x] # "none" => server[x] # "none"
      BY <1>2 DEF Listen, TypeOK
    <2>2. UNCHANGED <<stage, mapMade, launched, synced, holding, started, req>>
      BY <1>2 DEF Listen, wqVars, infVars
    <2> QED
      BY <2>1, <2>2 DEF StartOrder
  <1>3. ASSUME NEW c \in Requests, Forward(c) \/ Respond(c) \/ \E s \in Servers : Request(c, s)
        PROVE  StartOrder'
    <2>1. UNCHANGED <<stage, mapMade, launched, server, synced, holding, started>>
      BY <1>3 DEF Forward, Respond, Request, wqVars, infVars, srvVars
    <2>2. mapMade
      BY <1>3 DEF Forward, Respond, Request, StartOrder
    <2> QED
      BY <2>1, <2>2 DEF StartOrder
  <1> QED
    BY <1>1, <1>2, <1>3

LEMMA LifeStartNext == TypeOK /\ StartOrder /\ [Next]_vars => StartOrder'
  <1> SUFFICES ASSUME TypeOK, StartOrder, [Next]_vars PROVE StartOrder'
    OBVIOUS
  <1>1. CASE UNCHANGED vars
    BY <1>1 DEF vars, wqVars, lifeVars, infVars, srvVars, StartOrder
  <1> QED
    BY <1>1, SignalsStart, MainStart, WorkersStart, OthersStart DEF Next

-----------------------------------------------------------------------------
(* The options, and the end.                                               *)

LEMMA LifeOptionsNext == OptionsRead /\ [Next]_vars => OptionsRead'
  <1> SUFFICES ASSUME OptionsRead, [Next]_vars PROVE OptionsRead'
    OBVIOUS
  <1>1. CASE ReadOptions
    BY <1>1 DEF ReadOptions, OptionsRead
  <1>2. CASE UNCHANGED optVars /\ (stage' = stage \/ stage # "read")
    BY <1>2 DEF optVars, OptionsRead
  <1>3. CASE MainStep
    BY <1>1, <1>2, <1>3 DEF MainStep, OptionsUnreadable, QuitAfterVersion, BuildClients,
      BuildClientsFails, NewController, StartInformers, CachesSynced, SyncCancelled, Launch,
      StopSelf, StopMain, Return, MainEnds, Exit, Proceed
  <1>4. CASE Signal \/ CatchFirst \/ CatchSecond \/ UNCHANGED vars
    BY <1>2, <1>4 DEF Signal, CatchFirst, CatchSecond, Exit, vars, lifeVars
  <1>5. CASE \/ \E k \in Kinds : Sync(k)
             \/ \E i \in Items : Enqueue(i)
             \/ \E w \in Workers : TakeItem(w) \/ FinishItem(w) \/ LoopEnds(w)
             \/ \E s \in Servers : Listen(s)
             \/ \E c \in Requests : Forward(c) \/ Respond(c) \/ \E s \in Servers : Request(c, s)
    BY <1>2, <1>5 DEF Sync, Enqueue, TakeItem, FinishItem, LoopEnds, Listen, Forward, Respond,
      Request, lifeVars
  <1> QED
    BY <1>3, <1>4, <1>5 DEF Next

\* Steps that neither move main on nor catch a signal.
LEMMA StopFrame ==
  ASSUME StopOrder, UNCHANGED <<stage, caught>>, code' = code \/ code' # Running,
         shuttingDown => shuttingDown',
         \A s \in Servers : server[s] = "closed" => server'[s] = "closed"
  PROVE  StopOrder'
  BY DEF StopOrder, Servers, Alive

LEMMA SignalsStop ==
  ASSUME TypeOK, StopOrder, Signal \/ CatchFirst \/ CatchSecond PROVE StopOrder'
  <1>1. CASE Signal
    BY <1>1, StopFrame DEF Signal, wqVars, srvVars
  <1>2. CASE CatchFirst
    BY <1>2 DEF CatchFirst, StopOrder, Alive, wqVars, srvVars
  <1>3. CASE CatchSecond
    <2>1. code' = 1 /\ code' # Running
      BY <1>3, LifecycleAssumption DEF CatchSecond, Exit
    <2> QED
      BY <1>3, <2>1 DEF CatchSecond, Exit, StopOrder, Alive, wqVars
  <1> QED
    BY <1>1, <1>2, <1>3

\* The queue is shut down once and for all.
LEMMA QueueStaysDown == [WQNext]_wqVars => (shuttingDown => shuttingDown')
  BY DEF WQNext, Add, Get, GetShutdown, Done, ShutDown, wqVars

LEMMA MainStop ==
  ASSUME TypeOK, StopOrder, MainStep PROVE StopOrder'
  <1>1. CASE \/ ReadOptions \/ BuildClients \/ NewController \/ StartInformers
             \/ CachesSynced \/ SyncCancelled
    <2>1. stage' \notin {"stopMain", "return", "end"} /\ UNCHANGED <<code, caught>>
      BY <1>1 DEF ReadOptions, BuildClients, NewController, StartInformers, CachesSynced,
                  SyncCancelled, Proceed, sigVars
    <2> QED
      BY <2>1 DEF StopOrder, Alive
  <1>2. CASE Launch
    BY <1>2 DEF Launch, Proceed, StopOrder, Alive, sigVars
  <1>3. CASE OptionsUnreadable \/ QuitAfterVersion \/ BuildClientsFails \/ MainEnds
    <2>1. PICK n \in {0, 1, 2} : Exit(n) /\ UNCHANGED <<wqVars, stage, sigVars>>
      BY <1>3 DEF OptionsUnreadable, QuitAfterVersion, BuildClientsFails, MainEnds
    <2>2. code' # Running
      BY <2>1, LifecycleAssumption DEF Exit
    <2> QED
      BY <2>1, <2>2, StopFrame DEF Exit, wqVars, sigVars
  <1>4. CASE StopSelf
    <2>1. server'["self"] = "closed"
      BY <1>4 DEF StopSelf, ServerShutdown, TypeOK, Servers
    <2> QED
      BY <1>4, <2>1 DEF StopSelf, Proceed, Cancelled, StopOrder, Alive, TypeOK, sigVars
  <1>5. CASE StopMain
    <2>1. server'["main"] = "closed" /\ server'["self"] = server["self"]
      BY <1>5 DEF StopMain, ServerShutdown, TypeOK, Servers
    <2> QED
      BY <1>5, <2>1 DEF StopMain, Proceed, StopOrder, Alive, sigVars
  <1>6. CASE Return
    BY <1>6 DEF Return, Proceed, ShutDown, StopOrder, Alive, sigVars, srvVars
  <1> QED
    BY <1>1, <1>2, <1>3, <1>4, <1>5, <1>6 DEF MainStep

LEMMA LifeStopNext == TypeOK /\ StopOrder /\ [Next]_vars => StopOrder'
  <1> SUFFICES ASSUME TypeOK, StopOrder, [Next]_vars PROVE StopOrder'
    OBVIOUS
  <1>1. shuttingDown => shuttingDown'
    BY NextQueue, QueueStaysDown
  <1>2. CASE \/ \E k \in Kinds : Sync(k)
             \/ \E i \in Items : Enqueue(i)
             \/ \E w \in Workers : TakeItem(w) \/ FinishItem(w) \/ LoopEnds(w)
             \/ \E c \in Requests : Forward(c) \/ Respond(c) \/ \E s \in Servers : Request(c, s)
             \/ UNCHANGED vars
    <2>1. UNCHANGED <<stage, caught, code, server>>
      BY <1>2 DEF Sync, Enqueue, TakeItem, FinishItem, LoopEnds, Forward, Respond, Request, vars,
                  lifeVars, sigVars, srvVars
    <2> QED
      BY <1>1, <2>1, StopFrame
  <1>3. ASSUME NEW s \in Servers, Listen(s) PROVE StopOrder'
    <2>1. \A x \in Servers : server[x] = "closed" => server'[x] = "closed"
      BY <1>3 DEF Listen, TypeOK
    <2> QED
      BY <1>1, <1>3, <2>1, StopFrame DEF Listen, sigVars
  <1> QED
    BY <1>2, <1>3, SignalsStop, MainStop DEF Next

\* The two places that end with code 0.
LEMMA LifeExitNext ==
  TypeOK /\ StartOrder /\ StopOrder /\ CleanExit /\ [Next]_vars => CleanExit'
  <1> SUFFICES ASSUME TypeOK, StartOrder, StopOrder, CleanExit, [Next]_vars PROVE CleanExit'
    OBVIOUS
  <1> DEFINE Ends == CatchSecond \/ OptionsUnreadable \/ QuitAfterVersion \/ BuildClientsFails \/ MainEnds
  <1>1. ASSUME Alive, code' = code PROVE CleanExit'
    BY <1>1, LifecycleAssumption DEF Alive, CleanExit
  <1>2. CASE Ends
    <2>1. CASE CatchSecond \/ OptionsUnreadable \/ BuildClientsFails
      BY <2>1 DEF CatchSecond, OptionsUnreadable, BuildClientsFails, Exit, CleanExit
    <2>2. CASE QuitAfterVersion
      <3>1. OnlyVersion' /\ started' = {}
        BY <2>2 DEF QuitAfterVersion, Exit, OnlyVersion, StartOrder, optVars, infVars
      <3> QED
        BY <3>1 DEF CleanExit
    <2>3. CASE MainEnds
      <3>1. CASE stage = "error"
        BY <2>3, <3>1 DEF MainEnds, Exit, CleanExit
      <3>2. CASE stage = "end"
        <4>1. caught = 1 /\ shuttingDown /\ \A s \in Servers : server[s] = "closed"
          BY <2>3, <3>2 DEF MainEnds, StopOrder, TypeOK, Servers
        <4>2. UNCHANGED <<caught, shuttingDown, server>>
          BY <2>3 DEF MainEnds, Exit, wqVars, sigVars
        <4> QED
          BY <4>1, <4>2 DEF CleanExit
      <3> QED
        BY <2>3, <3>1, <3>2 DEF MainEnds
    <2> QED
      BY <1>2, <2>1, <2>2, <2>3
  <1>3. CASE Next /\ ~Ends
    <2>1. Alive /\ code' = code
      <3>1. CASE Signal \/ CatchFirst
        BY <3>1 DEF Signal, CatchFirst
      <3>2. CASE MainStep
        BY <1>3, <3>2 DEF MainStep, ReadOptions, BuildClients, NewController, StartInformers,
          CachesSynced, SyncCancelled, Launch, StopSelf, StopMain, Return
      <3>3. CASE \/ \E k \in Kinds : Sync(k)
                 \/ \E i \in Items : Enqueue(i)
                 \/ \E w \in Workers : TakeItem(w) \/ FinishItem(w) \/ LoopEnds(w)
                 \/ \E s \in Servers : Listen(s)
                 \/ \E c \in Requests : Forward(c) \/ Respond(c) \/ \E s \in Servers : Request(c, s)
        BY <3>3 DEF Sync, Enqueue, TakeItem, FinishItem, LoopEnds, Listen, Forward, Respond,
          Request, lifeVars
      <3> QED
        BY <1>3, <3>1, <3>2, <3>3 DEF Next
    <2> QED
      BY <1>1, <2>1
  <1>4. CASE UNCHANGED vars
    BY <1>4 DEF vars, wqVars, lifeVars, optVars, sigVars, infVars, srvVars, CleanExit, OnlyVersion
  <1> QED
    BY <1>2, <1>3, <1>4

-----------------------------------------------------------------------------
(* The theorems.                                                           *)

LEMMA LifeInit == Init => LifeInv
  <1> SUFFICES ASSUME Init PROVE LifeInv
    OBVIOUS
  <1>1. mapMade \in BOOLEAN
    BY Zenon DEF Init
  <1>2. WQTypeOK
    BY WQTypeInit DEF Init
  <1>3. TypeOK
    BY <1>1, <1>2, OptionsAssumption DEF Init, TypeOK, Stages, SignalBuffer, Servers
  <1>4. StartOrder
    BY DEF Init, WQInit, StartOrder, Past
  <1>5. StopOrder /\ OptionsRead
    BY DEF Init, StopOrder, OptionsRead
  <1>6. CleanExit
    BY LifecycleAssumption DEF Init, CleanExit
  <1> QED
    BY <1>3, <1>4, <1>5, <1>6 DEF LifeInv

\* The invariant holds in every run of the process.
THEOREM LifeInvariant == Spec => []LifeInv
  <1>1. LifeInv /\ [Next]_vars => LifeInv'
    BY LifeTypeNext, LifeStartNext, LifeStopNext, LifeOptionsNext, LifeExitNext DEF LifeInv
  <1> QED
    BY <1>1, LifeInit, PTL DEF Spec

\* Type correctness of the process.
THEOREM LifeTypeCorrect == Spec => []TypeOK
  <1>1. LifeInv => TypeOK
    BY DEF LifeInv
  <1> QED
    BY <1>1, LifeInvariant, PTL

\* Under every interleaving of main, the signal handler, the informer, the
\* workers and the servers, no worker has an item and no client has an answer
\* before the cache is complete and the map exists (the order of Run).
THEOREM LifeReady == Spec => []ReadyMeansRunning
  <1>1. LifeInv => ReadyMeansRunning
    BY DEF LifeInv, StartOrder, ReadyMeansRunning, Answered
  <1> QED
    BY <1>1, LifeInvariant, PTL

\* Exit code 0 only follows a complete shutdown on one signal, or a request for
\* the version alone that started nothing.
THEOREM LifeCleanExit == Spec => []CleanExit
  <1>1. LifeInv => CleanExit
    BY DEF LifeInv
  <1> QED
    BY <1>1, LifeInvariant, PTL

\* For every set of flags, defaults, command lines and environments: a flag that
\* is given a value other than its default keeps it, the environment only fills
\* in, and main works with these values until it ends.
THEOREM LifeFlagsPrecede == Spec => []FlagsPrecede
  <1>1. LifeInv => FlagsPrecede
    <2> SUFFICES ASSUME LifeInv, stage # "read", NEW f \in Flags
                 PROVE  FlagsPrecede!2!(f)
      BY DEF FlagsPrecede
    <2>1. cmdline \in Given /\ env \in Given
      BY LifecycleAssumption DEF LifeInv, TypeOK
    <2>2. value[f] = Effective(cmdline, env, f)
      BY DEF LifeInv, OptionsRead
    <2> QED
      BY <2>1, <2>2, EffectivePrecedence
  <1> QED
    BY <1>1, LifeInvariant, PTL
=============================================================================
