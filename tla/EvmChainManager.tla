-------------------------- MODULE EvmChainManager --------------------------
(***************************************************************************)
(* Which chains are watched: internal/worker/evm/worker.go.                *)
(*                                                                         *)
(* A monitor goroutine asks Mongo every minute which EVM chains have       *)
(* pending buy orders, then, under chainsMutex, stops the watchers of the  *)
(* other chains and starts those that are missing.  On a signal the main   *)
(* goroutine stops all watchers while the program's own signal handler     *)
(* cancels the context that every watcher's context comes from.  The two   *)
(* register for signals at different times: one that comes in between      *)
(* reaches the program's handler only.                                     *)
(*                                                                         *)
(* A watcher is the goroutine startChainWorker launches; what it does is   *)
(* the subject of EvmDeposits.  It runs until its context is done, then    *)
(* removes the key "evm:chain:<chain>:active" it was started with.         *)
(***************************************************************************)
EXTENDS Integers, FiniteSets

CONSTANTS
  Chains,    \* the SupportedChains
  MaxLives,  \* watchers of a chain that may exist at a time, old ones included
  MaxStops   \* signals and crashes

NoChain == "none"

ASSUME ManagerAssumption ==
  /\ NoChain \notin Chains
  /\ MaxLives \in Nat \ {0}
  /\ MaxStops \in Nat

Lives == 1..MaxLives
Watchers == Chains \X Lives

VARIABLES
  pending,    \* chains with pending buy orders
  up,         \* the process runs
  stops,      \* signals and crashes so far
  signalled,  \* SIGINT or SIGTERM has arrived at the program's handler
  heard,      \* and at waitForShutdown's channel
  stopChan,   \* waitForShutdown has closed stopChan
  rootDone,   \* the program's context is cancelled
  mainPc, monitorPc,
  mutex,      \* who holds chainsMutex
  required,   \* the monitor's answer from Mongo
  stopping,   \* the chain whose watcher the holder of the mutex waits for
  stopped,    \* chains stopAllChains is through with
  active,     \* activeChains: chain -> its watcher's number, 0 for none
  life,       \* watcher -> free, run or cleanup
  ctxDone,    \* watchers whose own context is cancelled
  keys        \* chains whose active key is in Redis

processVars == <<up, stops, signalled, heard>>
shutdownVars == <<stopChan, rootDone>>
mainVars == <<mainPc, stopped>>
monitorVars == <<monitorPc, required>>
lockVars == <<mutex, stopping>>
watcherVars == <<active, life, ctxDone, keys>>
managerVars == <<pending, processVars, shutdownVars, mainVars, monitorVars, lockVars,
                watcherVars>>

Active == {c \in Chains : active[c] # 0}

\* The context of a watcher is done when its own or the program's is.
Done(w) == w \in ctxDone \/ rootDone

\* A watcher that still schedules and handles jobs.
Live(w) == life[w] = "run" /\ ~Done(w)
-----------------------------------------------------------------------------
\* The process is gone: nothing in memory survives, the keys in Redis do.
LoseMemory ==
  /\ signalled' = FALSE /\ heard' = FALSE
  /\ stopChan' = FALSE /\ rootDone' = FALSE
  /\ mainPc' = "start" /\ stopped' = {}
  /\ monitorPc' = "query" /\ required' = {}
  /\ mutex' = "free" /\ stopping' = NoChain
  /\ active' = [c \in Chains |-> 0]
  /\ life' = [w \in Watchers |-> "free"]
  /\ ctxDone' = {}

ManagerInit ==
  /\ pending \in SUBSET Chains
  /\ up = TRUE /\ stops = 0 /\ signalled = FALSE /\ heard = FALSE
  /\ stopChan = FALSE /\ rootDone = FALSE
  /\ mainPc = "start" /\ stopped = {}
  /\ monitorPc = "query" /\ required = {}
  /\ mutex = "free" /\ stopping = NoChain
  /\ active = [c \in Chains |-> 0]
  /\ life = [w \in Watchers |-> "free"]
  /\ ctxDone = {}
  /\ keys = {}

\* Orders of a chain become pending, or the last of them no longer is.
OrdersChange(c) ==
  /\ pending' = IF c \in pending THEN pending \ {c} ELSE pending \cup {c}
  /\ UNCHANGED <<processVars, shutdownVars, mainVars, monitorVars, lockVars, watcherVars>>

\* The active key is set for a minute and never renewed.
KeyExpires(c) ==
  /\ c \in keys
  /\ keys' = keys \ {c}
  /\ UNCHANGED <<pending, processVars, shutdownVars, mainVars, monitorVars, lockVars>>
  /\ UNCHANGED <<active, life, ctxDone>>
-----------------------------------------------------------------------------
\* getChainsWithPendingOrders.  With the program's context done, or for any
\* other reason, the query fails and the check ends.
QueryOrders ==
  /\ up /\ monitorPc = "query"
  /\ \/ ~rootDone /\ required' = pending /\ monitorPc' = "lock"
     \/ monitorPc' = "select" /\ UNCHANGED required
  /\ UNCHANGED <<pending, processVars, shutdownVars, mainVars, lockVars, watcherVars>>

\* Mutant: chainsMatchCurrentState stops at its quick length check.
LockForCheckByLength ==
  /\ up /\ monitorPc = "lock" /\ mutex = "free"
  /\ IF Cardinality(required) = Cardinality(Active)
     THEN monitorPc' = "select" /\ required' = {} /\ UNCHANGED mutex
     ELSE monitorPc' = "stop" /\ mutex' = "monitor" /\ UNCHANGED required
  /\ UNCHANGED <<pending, processVars, shutdownVars, mainVars, stopping, watcherVars>>

\* manageChainsBasedOnOrders takes the mutex, and gives it back at once when
\* chainsMatchCurrentState.
LockForCheck ==
  /\ up /\ monitorPc = "lock" /\ mutex = "free"
  /\ IF required = Active
     THEN monitorPc' = "select" /\ required' = {} /\ UNCHANGED mutex
     ELSE monitorPc' = "stop" /\ mutex' = "monitor" /\ UNCHANGED required
  /\ UNCHANGED <<pending, processVars, shutdownVars, mainVars, stopping, watcherVars>>

\* Mutant: stopping a watcher does not cancel its context.
CancelNothing(c) == UNCHANGED ctxDone

\* stopChainWorker's first half.
CancelWatcher(c) == ctxDone' = ctxDone \cup {<<c, active[c]>>}

\* Mutant: every chain that is not required is stopped, running or not.
StopAnyChain(c) ==
  /\ up /\ monitorPc = "stop" /\ stopping = NoChain
  /\ c \notin required
  /\ CancelWatcher(c)
  /\ stopping' = c
  /\ UNCHANGED <<pending, processVars, shutdownVars, mainVars, monitorVars, mutex>>
  /\ UNCHANGED <<active, life, keys>>

\* A chain no longer required: cancel its watcher, wait for it half a minute
\* at most, take it out of the map.
StopIdleChain(c) ==
  /\ up /\ monitorPc = "stop" /\ stopping = NoChain
  /\ c \in Active \ required
  /\ CancelWatcher(c)
  /\ stopping' = c
  /\ UNCHANGED <<pending, processVars, shutdownVars, mainVars, monitorVars, mutex>>
  /\ UNCHANGED <<active, life, keys>>

ForgetChain ==
  /\ up /\ monitorPc = "stop" /\ stopping # NoChain
  /\ active' = [active EXCEPT ![stopping] = 0]
  /\ stopping' = NoChain
  /\ UNCHANGED <<pending, processVars, shutdownVars, mainVars, monitorVars, mutex>>
  /\ UNCHANGED <<life, ctxDone, keys>>

\* startChainWorker: set the active key, which fails without harm (and always
\* does once the program's context is done), and launch the watcher.
StartRequiredChain(c) ==
  /\ up /\ monitorPc = "stop" /\ stopping = NoChain
  /\ Active \subseteq required
  /\ c \in required \ Active
  /\ \E n \in Lives :
       /\ life[<<c, n>>] = "free"
       /\ active' = [active EXCEPT ![c] = n]
       /\ life' = [life EXCEPT ![<<c, n>>] = "run"]
       /\ ctxDone' = ctxDone \ {<<c, n>>}
  /\ \/ ~rootDone /\ keys' = keys \cup {c}
     \/ UNCHANGED keys
  /\ UNCHANGED <<pending, processVars, shutdownVars, mainVars, monitorVars, lockVars>>

\* Mutant: the mutex is not given back.
UnlockNothing ==
  /\ up /\ monitorPc = "stop" /\ stopping = NoChain
  /\ Active = required
  /\ monitorPc' = "select"
  /\ required' = {}
  /\ UNCHANGED <<pending, processVars, shutdownVars, mainVars, lockVars, watcherVars>>

UnlockAfterCheck ==
  /\ up /\ monitorPc = "stop" /\ stopping = NoChain
  /\ Active = required
  /\ monitorPc' = "select"
  /\ mutex' = "free"
  /\ required' = {}
  /\ UNCHANGED <<pending, processVars, shutdownVars, mainVars, stopping, watcherVars>>

\* startOrderMonitor's select.  Of several ready cases Go takes any, so a
\* tick that is due may win against a shutdown.
MonitorTick ==
  /\ up /\ monitorPc = "select"
  /\ monitorPc' = "query"
  /\ UNCHANGED <<pending, processVars, shutdownVars, mainVars, required, lockVars, watcherVars>>

MonitorStop ==
  /\ up /\ monitorPc = "select"
  /\ stopChan \/ rootDone
  /\ monitorPc' = "done"
  /\ UNCHANGED <<pending, processVars, shutdownVars, mainVars, required, lockVars, watcherVars>>
-----------------------------------------------------------------------------
\* Mutant: startScheduler returns on any error.
LeaveSchedulerOnError(w) ==
  /\ up /\ life[w] = "run"
  /\ life' = [life EXCEPT ![w] = "cleanup"]
  /\ UNCHANGED <<pending, processVars, shutdownVars, mainVars, monitorVars, lockVars>>
  /\ UNCHANGED <<active, ctxDone, keys>>

\* A watcher whose context is done leaves startScheduler ...
LeaveScheduler(w) ==
  /\ up /\ life[w] = "run" /\ Done(w)
  /\ life' = [life EXCEPT ![w] = "cleanup"]
  /\ UNCHANGED <<pending, processVars, shutdownVars, mainVars, monitorVars, lockVars>>
  /\ UNCHANGED <<active, ctxDone, keys>>

\* ... and removes the chain's active key, even if a later watcher set it.
RemoveKey(w) ==
  /\ up /\ life[w] = "cleanup"
  /\ life' = [life EXCEPT ![w] = "free"]
  /\ keys' = keys \ {w[1]} \/ UNCHANGED keys
  /\ UNCHANGED <<pending, processVars, shutdownVars, mainVars, monitorVars, lockVars>>
  /\ UNCHANGED <<active, ctxDone>>
-----------------------------------------------------------------------------
\* A signal reaches the handlers registered so far: the program's, which takes
\* one, and the worker's once Start waits for it.
Signal ==
  /\ up /\ stops < MaxStops
  /\ signalled' = TRUE
  /\ heard' = (heard \/ mainPc # "start")
  /\ stops' = stops + 1
  /\ UNCHANGED <<pending, up, shutdownVars, mainVars, monitorVars, lockVars, watcherVars>>

\* The goroutine of the program's main function.
CancelRoot ==
  /\ up /\ signalled /\ ~rootDone
  /\ rootDone' = TRUE
  /\ UNCHANGED <<pending, processVars, stopChan, mainVars, monitorVars, lockVars, watcherVars>>

\* waitForShutdown registers its channel, after the monitor was launched, ...
AwaitSignal ==
  /\ up /\ mainPc = "start"
  /\ mainPc' = "wait"
  /\ UNCHANGED <<pending, processVars, shutdownVars, stopped, monitorVars, lockVars, watcherVars>>

\* ... and closes stopChan when a signal comes through it.
CloseStopChan ==
  /\ up /\ mainPc = "wait" /\ heard
  /\ stopChan' = TRUE
  /\ mainPc' = "lock"
  /\ UNCHANGED <<pending, processVars, rootDone, stopped, monitorVars, lockVars, watcherVars>>

LockForStopAll ==
  /\ up /\ mainPc = "lock" /\ mutex = "free"
  /\ mutex' = "main"
  /\ mainPc' = "stop"
  /\ UNCHANGED <<pending, processVars, shutdownVars, stopped, monitorVars, stopping, watcherVars>>

\* stopAllChains: the watchers one after the other, each waited for, ...
StopActiveChain(c) ==
  /\ up /\ mainPc = "stop" /\ stopping = NoChain
  /\ c \in Active \ stopped
  /\ CancelWatcher(c)
  /\ stopping' = c
  /\ UNCHANGED <<pending, processVars, shutdownVars, mainVars, monitorVars, mutex>>
  /\ UNCHANGED <<active, life, keys>>

ChainStopped ==
  /\ up /\ mainPc = "stop" /\ stopping # NoChain
  /\ stopped' = stopped \cup {stopping}
  /\ stopping' = NoChain
  /\ UNCHANGED <<pending, processVars, shutdownVars, mainPc, monitorVars, mutex, watcherVars>>

\* ... then the map is emptied and Start returns.
ClearChains ==
  /\ up /\ mainPc = "stop" /\ stopping = NoChain
  /\ Active \subseteq stopped
  /\ active' = [c \in Chains |-> 0]
  /\ mutex' = "free"
  /\ mainPc' = "returned"
  /\ stopped' = {}
  /\ UNCHANGED <<pending, processVars, shutdownVars, monitorVars, stopping>>
  /\ UNCHANGED <<life, ctxDone, keys>>

\* The process ends with its goroutines: after a shutdown, once the health
\* checker has seen the program's context done, or by a crash.
Exit ==
  /\ up
  /\ \/ mainPc = "returned" /\ rootDone /\ UNCHANGED stops
     \/ stops < MaxStops /\ stops' = stops + 1
  /\ up' = FALSE
  /\ LoseMemory
  /\ UNCHANGED <<pending, keys>>

Boot ==
  /\ ~up
  /\ up' = TRUE
  /\ UNCHANGED <<pending, stops, signalled, heard, shutdownVars, mainVars, monitorVars,
                 lockVars, watcherVars>>
-----------------------------------------------------------------------------
Check ==
  \/ QueryOrders \/ LockForCheck \/ ForgetChain \/ UnlockAfterCheck
  \/ \E c \in Chains : StopIdleChain(c) \/ StartRequiredChain(c)

StopAllChains ==
  \/ AwaitSignal \/ CloseStopChan \/ LockForStopAll \/ ChainStopped \/ ClearChains
  \/ \E c \in Chains : StopActiveChain(c)

ManagerNext ==
  \/ \E c \in Chains : OrdersChange(c) \/ KeyExpires(c)
  \/ Check \/ MonitorTick \/ MonitorStop
  \/ \E w \in Watchers : LeaveScheduler(w) \/ RemoveKey(w)
  \/ Signal \/ CancelRoot \/ StopAllChains
  \/ Exit \/ Boot

ManagerSpec == ManagerInit /\ [][ManagerNext]_managerVars

\* Every goroutine gets on; the select does not overlook a closed channel for
\* ever; a query does not fail for ever.
ManagerFairness ==
  /\ WF_managerVars(Check) /\ WF_managerVars(MonitorTick)
  /\ SF_managerVars(MonitorStop)
  /\ SF_managerVars(QueryOrders /\ monitorPc' = "lock")
  /\ WF_managerVars(CancelRoot) /\ WF_managerVars(StopAllChains)
  /\ WF_managerVars(mainPc = "returned" /\ Exit) /\ WF_managerVars(Boot)
  /\ \A w \in Watchers : WF_managerVars(LeaveScheduler(w)) /\ WF_managerVars(RemoveKey(w))
  /\ \A c \in Chains : WF_managerVars(KeyExpires(c))

ManagerFairSpec == ManagerSpec /\ ManagerFairness
-----------------------------------------------------------------------------
ManagerTypeOK ==
  /\ pending \in SUBSET Chains /\ required \in SUBSET Chains
  /\ stopped \in SUBSET Chains /\ keys \in SUBSET Chains
  /\ up \in BOOLEAN /\ signalled \in BOOLEAN /\ heard \in BOOLEAN
  /\ stopChan \in BOOLEAN /\ rootDone \in BOOLEAN
  /\ stops \in 0..MaxStops
  /\ mainPc \in {"start", "wait", "lock", "stop", "returned"}
  /\ monitorPc \in {"query", "lock", "stop", "select", "done"}
  /\ mutex \in {"free", "monitor", "main"}
  /\ stopping \in Chains \cup {NoChain}
  /\ active \in [Chains -> {0} \cup Lives]
  /\ life \in [Watchers -> {"free", "run", "cleanup"}]
  /\ ctxDone \in SUBSET Watchers

\* A chain never has two live watchers: two schedulers would push its jobs
\* twice and its runs would overlap without need (manageChainsBasedOnOrders).
OneLiveWatcher ==
  \A c \in Chains, m, n \in Lives : Live(<<c, m>>) /\ Live(<<c, n>>) => m = n

\* A live watcher is in activeChains, where a later check or stopAllChains
\* finds it: none is ever leaked.
NoLeakedWatcher == \A c \in Chains, n \in Lives : Live(<<c, n>>) => active[c] = n

\* Whenever nobody is changing it, activeChains names live watchers only: a
\* dead one in it would keep its chain from ever being started again.
MapTellsTheTruth ==
  mutex = "free" /\ ~rootDone => \A c \in Active : Live(<<c, active[c]>>)

Watched(c) == \E n \in Lives : Live(<<c, n>>)

\* The watchers follow the orders: a chain with pending orders gets a watcher,
\* unless they are dealt with before, the process is told to stop or it is
\* down, and a chain without pending orders loses its watcher
\* (startOrderMonitor).
WatchersFollowOrders ==
  \A c \in Chains :
    /\ c \in pending ~> (Watched(c) \/ c \notin pending \/ signalled \/ ~up)
    /\ c \notin pending ~> (c \in pending \/ ~Watched(c))

\* A signal that waitForShutdown hears ends the process, whatever the monitor is
\* doing.  One that came before only cancels the program's context: nothing is
\* watched any more, and Start waits for a second signal.
SignalEndsProcess == heard /\ up ~> ~up
-----------------------------------------------------------------------------
\* The inductive strengthening of the invariants.  Who is at work under the
\* mutex,
LockInv ==
  /\ mutex = "monitor" <=> monitorPc = "stop"
  /\ mutex = "main" <=> mainPc = "stop"
  /\ mutex = "free" => stopping = NoChain
  /\ mainPc # "stop" => stopped = {}

\* whose watchers it has cancelled and not yet taken out of the map,
StopInv ==
  \A c \in Chains :
    c = stopping \/ c \in stopped => active[c] # 0 /\ <<c, active[c]>> \in ctxDone

\* and that it has cancelled no others.
MapInv ==
  ~rootDone =>
    \A c \in Active :
      IF <<c, active[c]>> \in ctxDone
      THEN c = stopping \/ c \in stopped
      ELSE life[<<c, active[c]>>] = "run"

WatcherInv == LockInv /\ StopInv /\ MapInv /\ NoLeakedWatcher
=============================================================================
