------------------------------ MODULE Lifecycle ------------------------------
(***************************************************************************)
(* The life of the process: main reads the options, builds the clients and *)
(* the controller, Run starts the informer, waits for its cache, launches  *)
(* workers and servers, and ends on a signal.  The work queue is that of   *)
(* module WorkQueue; here its items come from the informer once that is    *)
(* started, and its workers are those that Run has launched.               *)
(*                                                                         *)
(* The goroutines are main, the signal handler, the informer, the workers, *)
(* the two servers and one per request.  All end with the process.         *)
(***************************************************************************)
EXTENDS WorkQueue, Options

CONSTANTS
  Requests,   \* requests that clients may send to the servers
  Commands,   \* command lines
  Envs,       \* environments
  Running     \* the exit code of a process that has not ended

Servers == {"self", "main"}
Kinds == {"CRDMetricsResource"}  \* types that the program asks an informer for
SignalBuffer == 2  \* capacity of the channel that signals arrive on

VARIABLES
  cmdline, env,  \* what the process is started with
  value,         \* value[f]: the options as read
  stage,         \* where main is
  code,          \* exit code, or Running
  signals,       \* signals in the channel
  caught,        \* signals received by the handler; the first cancels the context
  informers,     \* informers the factory was asked for
  started,       \* informers the factory has started
  synced,        \* informers whose cache has synced
  mapMade,       \* the map of stores exists
  launched,      \* worker goroutines that were started
  server,        \* server[s]: state of the server
  req,           \* req[c]: state of a request
  at             \* at[c]: the server that request c was sent to

optVars == <<cmdline, env, value>>
sigVars == <<signals, caught>>
infVars == <<informers, started, synced>>
srvVars == <<server, req, at>>
lifeVars == <<optVars, stage, code, sigVars, infVars, mapMade, launched, srvVars>>
vars == <<wqVars, lifeVars>>

\* flag.Int also takes negative numbers of workers.  They start none, as 0 does
\* (Run's "for range"), and are left out.
ASSUME LifecycleAssumption ==
  /\ Workers = 1..Cardinality(Workers)
  /\ {"workers", "version"} \subseteq Flags
  /\ Values \subseteq 0..Cardinality(Workers)
  /\ Commands \subseteq Given /\ Envs \subseteq Given
  /\ Running \notin Nat

Stages == {"read", "clients", "controller", "start", "sync", "launch", "serve",
           "stopMain", "return", "end", "error"}
Open == {"metrics", "probe", "forwarded", "refused"}
Answered == {"ok", "unavailable"}

TypeOK ==
  /\ WQTypeOK
  /\ cmdline \in Commands /\ env \in Envs
  /\ value \in [Flags -> Values]
  /\ stage \in Stages
  /\ code \in {0, 1, 2, Running}
  /\ signals \in 0..SignalBuffer /\ caught \in 0..2
  /\ informers \in SUBSET Kinds /\ started \in SUBSET Kinds /\ synced \in SUBSET Kinds
  /\ mapMade \in BOOLEAN
  /\ launched \in SUBSET Workers
  /\ server \in [Servers -> {"none", "built", "listening", "failed", "closed"}]
  /\ req \in [Requests -> {"none", "cut"} \union Open \union Answered]
  /\ at \in [Requests -> Servers]

Init ==
  /\ WQInit
  /\ cmdline \in Commands /\ env \in Envs
  /\ value = Default
  /\ stage = "read"
  /\ code = Running
  /\ signals = 0 /\ caught = 0
  /\ informers = {} /\ started = {} /\ synced = {}
  /\ mapMade = FALSE
  /\ launched = {}
  /\ server = [s \in Servers |-> "none"]
  /\ req = [c \in Requests |-> "none"]
  /\ at = [c \in Requests |-> "main"]

Alive == code = Running
Cancelled == caught > 0

\* The process ends with an exit code; what clients still wait for is lost.
Exit(n) ==
  /\ code' = n
  /\ req' = [c \in Requests |-> IF req[c] \in Open THEN "cut" ELSE req[c]]
  /\ UNCHANGED <<optVars, infVars, mapMade, launched, server, at>>

\* main goes on.
Proceed(from, to) == stage = from /\ stage' = to

-----------------------------------------------------------------------------
(* Signals.                                                                *)

\* The operating system delivers SIGTERM or SIGINT (external); a signal that
\* finds the channel full is dropped.
Signal ==
  /\ Alive
  /\ signals < SignalBuffer
  /\ signals' = signals + 1
  /\ UNCHANGED <<wqVars, optVars, stage, code, caught, infVars, mapMade, launched, srvVars>>

\* The handler of SetupSignalHandler: the first signal cancels the context, the
\* second ends the process.
CatchFirst ==
  /\ Alive
  /\ caught = 0 /\ signals > 0
  /\ caught' = 1 /\ signals' = signals - 1
  /\ UNCHANGED <<wqVars, optVars, stage, code, infVars, mapMade, launched, srvVars>>

CatchSecond ==
  /\ Alive
  /\ caught = 1 /\ signals > 0
  /\ caught' = 2 /\ signals' = signals - 1
  /\ Exit(1)
  /\ UNCHANGED <<wqVars, stage>>

-----------------------------------------------------------------------------
(* main up to Run.                                                         *)

ReadOptions ==
  /\ Alive
  /\ Readable(cmdline, env)
  /\ Proceed("read", "clients")
  /\ value' = [f \in Flags |-> Effective(cmdline, env, f)]
  /\ UNCHANGED <<wqVars, cmdline, env, code, sigVars, infVars, mapMade, launched, srvVars>>

OptionsUnreadable ==
  /\ Alive
  /\ stage = "read"
  /\ ~Readable(cmdline, env)
  /\ Exit(2)
  /\ UNCHANGED <<wqVars, stage, sigVars>>

OnlyVersion == value["version"] # 0 /\ Cardinality(SetFlags(cmdline, env)) = 1

QuitAfterVersion ==
  /\ Alive
  /\ stage = "clients"
  /\ OnlyVersion
  /\ Exit(0)
  /\ UNCHANGED <<wqVars, stage, sigVars>>

BuildClients ==
  /\ Alive
  /\ ~OnlyVersion
  /\ Proceed("clients", "controller")
  /\ UNCHANGED <<wqVars, optVars, code, sigVars, infVars, mapMade, launched, srvVars>>

\* There is no usable kubeconfig.
BuildClientsFails ==
  /\ Alive
  /\ stage = "clients"
  /\ ~OnlyVersion
  /\ Exit(1)
  /\ UNCHANGED <<wqVars, stage, sigVars>>

\* The factory keeps one informer of a type, however often it is asked.
InformerFor(k) == informers' = informers \union {k}

\* Mutant of NewController: the informer is only asked for after Start.
NewControllerLazy ==
  /\ Alive
  /\ Proceed("controller", "start")
  /\ UNCHANGED <<wqVars, optVars, code, sigVars, infVars, mapMade, launched, srvVars>>

\* NewController sets its handlers up on the informer.
NewController ==
  /\ Alive
  /\ Proceed("controller", "start")
  /\ \E k \in Kinds : InformerFor(k)
  /\ UNCHANGED <<wqVars, optVars, code, sigVars, started, synced, mapMade, launched, srvVars>>

-----------------------------------------------------------------------------
(* Run.                                                                    *)

\* The factory starts the informers it was asked for and has not started yet.
StartInformers ==
  /\ Alive
  /\ Proceed("start", "sync")
  /\ started' = started \union informers
  /\ UNCHANGED <<wqVars, optVars, code, sigVars, informers, synced, mapMade, launched, srvVars>>

\* Mutant of CachesSynced: Run does not wait.
CachesUnsynced ==
  /\ Alive
  /\ Proceed("sync", "launch")
  /\ UNCHANGED <<wqVars, optVars, code, sigVars, infVars, mapMade, launched, srvVars>>

\* WaitForCacheSync looks at the informer first and then, now and then, at both
\* the informer and the context.
CachesSynced ==
  /\ Alive
  /\ \A k \in Kinds : k \in synced
  /\ Proceed("sync", "launch")
  /\ UNCHANGED <<wqVars, optVars, code, sigVars, infVars, mapMade, launched, srvVars>>

\* Run returns an error, after the deferred ShutDown of the queue.
SyncCancelled ==
  /\ Alive
  /\ Cancelled
  /\ Proceed("sync", "error")
  /\ ShutDown
  /\ UNCHANGED <<optVars, code, sigVars, infVars, mapMade, launched, srvVars>>

\* Mutant of LaunchedWorkers: one worker too few.
LaunchedLess == {w \in Workers : w < value["workers"]}

LaunchedWorkers == {w \in Workers : w <= value["workers"]}

\* Run makes the map, builds the servers and starts the goroutines.
Launch ==
  /\ Alive
  /\ Proceed("launch", "serve")
  /\ mapMade' = TRUE
  /\ server' = [s \in Servers |-> "built"]
  /\ launched' = LaunchedWorkers
  /\ UNCHANGED <<wqVars, optVars, code, sigVars, infVars, req, at>>

\* Mutant of ServerShutdown: it waits for open requests.
ServerShutdownWaits(s) ==
  /\ \A c \in Requests : at[c] = s => req[c] \notin Open
  /\ server' = [server EXCEPT ![s] = "closed"]

\* Shutdown is given the context that is already cancelled: it closes the
\* listener and does not wait for open requests.
ServerShutdown(s) == server' = [server EXCEPT ![s] = "closed"]

StopSelf ==
  /\ Alive
  /\ Cancelled
  /\ Proceed("serve", "stopMain")
  /\ ServerShutdown("self")
  /\ UNCHANGED <<wqVars, optVars, code, sigVars, infVars, mapMade, launched, req, at>>

StopMain ==
  /\ Alive
  /\ Proceed("stopMain", "return")
  /\ ServerShutdown("main")
  /\ UNCHANGED <<wqVars, optVars, code, sigVars, infVars, mapMade, launched, req, at>>

\* Mutant of Return: the queue is not shut down.
ReturnAtOnce ==
  /\ Alive
  /\ Proceed("return", "end")
  /\ UNCHANGED <<wqVars, optVars, code, sigVars, infVars, mapMade, launched, srvVars>>

\* Run returns nil, after the deferred ShutDown of the queue.
Return ==
  /\ Alive
  /\ Proceed("return", "end")
  /\ ShutDown
  /\ UNCHANGED <<optVars, code, sigVars, infVars, mapMade, launched, srvVars>>

\* main returns, or ends after an error of Run.
MainEnds ==
  /\ Alive
  /\ \/ stage = "end" /\ Exit(0)
     \/ stage = "error" /\ Exit(1)
  /\ UNCHANGED <<wqVars, stage, sigVars>>

-----------------------------------------------------------------------------
(* Informer and workers.                                                   *)

\* The first list of a started informer is handed over completely.
Sync(k) ==
  /\ Alive
  /\ k \in started
  /\ synced' = synced \union {k}
  /\ UNCHANGED <<wqVars, optVars, stage, code, sigVars, informers, started,
                 mapMade, launched, srvVars>>

\* The informer's handler queues an item; it does so from the first list on.
Enqueue(i) ==
  /\ Alive
  /\ started # {}
  /\ Add(i)
  /\ UNCHANGED lifeVars

TakeItem(w) == Alive /\ w \in launched /\ Get(w) /\ UNCHANGED lifeVars

FinishItem(w) == Alive /\ Done(w) /\ UNCHANGED lifeVars

LoopEnds(w) == Alive /\ w \in launched /\ GetShutdown(w) /\ UNCHANGED lifeVars

-----------------------------------------------------------------------------
(* Servers and requests.                                                   *)

\* ListenAndServe listens, or fails: the error is logged and nothing else.
Listen(s) ==
  /\ Alive
  /\ server[s] = "built"
  /\ \E outcome \in {"listening", "failed"} : server' = [server EXCEPT ![s] = outcome]
  /\ UNCHANGED <<wqVars, optVars, stage, code, sigVars, infVars, mapMade, launched, req, at>>

\* A client asks for metrics or sends a probe (external).
Request(c, s) ==
  /\ Alive
  /\ server[s] = "listening"
  /\ req[c] = "none"
  /\ \E kind \in {"metrics", "probe"} : req' = [req EXCEPT ![c] = kind]
  /\ at' = [at EXCEPT ![c] = s]
  /\ UNCHANGED <<wqVars, optVars, stage, code, sigVars, infVars, mapMade, launched, server>>

\* genericProbe asks the API server, with the context of the process.
Forward(c) ==
  /\ Alive
  /\ req[c] = "probe"
  /\ \/ ~Cancelled /\ req' = [req EXCEPT ![c] = "forwarded"]
     \/ req' = [req EXCEPT ![c] = "refused"]
  /\ UNCHANGED <<wqVars, optVars, stage, code, sigVars, infVars, mapMade, launched, server, at>>

\* The answer is written; metrics only as fast as the client reads.
Respond(c) ==
  /\ Alive
  /\ \/ req[c] \in {"metrics", "forwarded"} /\ req' = [req EXCEPT ![c] = "ok"]
     \/ req[c] = "refused" /\ req' = [req EXCEPT ![c] = "unavailable"]
  /\ UNCHANGED <<wqVars, optVars, stage, code, sigVars, infVars, mapMade, launched, server, at>>

MainStep ==
  \/ ReadOptions \/ OptionsUnreadable
  \/ QuitAfterVersion \/ BuildClients \/ BuildClientsFails \/ NewController
  \/ StartInformers \/ CachesSynced \/ SyncCancelled \/ Launch
  \/ StopSelf \/ StopMain \/ Return \/ MainEnds

Next ==
  \/ Signal \/ CatchFirst \/ CatchSecond
  \/ MainStep
  \/ \E k \in Kinds : Sync(k)
  \/ \E i \in Items : Enqueue(i)
  \/ \E w \in Workers : TakeItem(w) \/ FinishItem(w) \/ LoopEnds(w)
  \/ \E s \in Servers : Listen(s)
  \/ \E c \in Requests : Forward(c) \/ Respond(c) \/ \E s \in Servers : Request(c, s)

Spec == Init /\ [][Next]_vars

(***************************************************************************)
(* Fairness: main, the signal handler and the workers run; the informer    *)
(* lists until it succeeds.  Clients need not read what they asked for, so *)
(* no request has to be answered.                                          *)
(***************************************************************************)
Fairness ==
  /\ WF_vars(MainStep)
  /\ WF_vars(CatchFirst) /\ WF_vars(CatchSecond)
  /\ \A k \in Kinds : WF_vars(Sync(k))
  /\ \A w \in Workers : WF_vars(TakeItem(w)) /\ WF_vars(FinishItem(w))

FairSpec == Spec /\ Fairness

-----------------------------------------------------------------------------
(* Properties.                                                             *)

(***************************************************************************)
(* The order of a start: no worker holds an item, and no client has an     *)
(* answer, before the informer's cache is complete and the map of stores   *)
(* exists.  handleEvent writes to the map, syncHandler reads the cache,    *)
(* and an OK of /readyz says that the controller runs.                     *)
(***************************************************************************)
ReadyMeansRunning ==
  (\E w \in Workers : holding[w] # NoItem) \/ (\E c \in Requests : req[c] \in Answered)
    => mapMade /\ synced = Kinds

(***************************************************************************)
(* Exit code 0 means a complete shutdown on one signal, with both servers  *)
(* and the queue shut down, or a version that was asked for and nothing    *)
(* else (SetupSignalHandler, Run's deferred calls, main).                  *)
(***************************************************************************)
CleanExit ==
  code = 0 =>
    \/ OnlyVersion /\ started = {}
    \/ /\ caught = 1
       /\ shuttingDown
       /\ \A s \in Servers : server[s] = "closed"

(***************************************************************************)
(* "Environment variable do not take precedence over command-line flags"   *)
(* (internal/options.go), as far as the code keeps it: a flag with another *)
(* value than its default has it whatever the environment says, and one    *)
(* that is not given has the environment's value or its default.           *)
(***************************************************************************)
FlagsPrecede ==
  stage # "read" =>
    \A f \in Flags :
      /\ cmdline[f] \notin {Unset, Default[f]} => value[f] = cmdline[f]
      /\ cmdline[f] = Unset /\ env[f] # Unset => value[f] = env[f]
      /\ cmdline[f] = Unset /\ env[f] = Unset => value[f] = Default[f]

(***************************************************************************)
(* A signal ends the process, at any stage and even when clients never     *)
(* read their answers: the handler takes it from the channel, and neither  *)
(* the wait for the cache nor the shutdown of the servers can hang.        *)
(***************************************************************************)
SignalEnds == signals > 0 \/ Cancelled ~> ~Alive

(***************************************************************************)
(* A start comes to its end: the process serves or has exited.  The        *)
(* informer that Run waits for is one that the factory has started, since  *)
(* NewController asked for it before.                                      *)
(***************************************************************************)
StartEnds == <>(stage = "serve" \/ ~Alive)

(***************************************************************************)
(* What the informer queues is handled, from the options to the queue: an  *)
(* item marked at any time, also before the workers exist, gets its worker *)
(* unless the process ends.  Only workers set to 0 leaves it for ever.     *)
(***************************************************************************)
QueuedIsHandled ==
  \A i \in Items :
    i \in dirty ~> \/ \E w \in Workers : holding[w] = i
                   \/ ~Alive
                   \/ value["workers"] = 0
=============================================================================
