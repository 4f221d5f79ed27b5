---------------------------- MODULE BlockMonitors ----------------------------
(***************************************************************************)
(* The block monitors of managers/workers: Bitcoin, the EVM chains, Solana *)
(* and Tron.                                                               *)
(*                                                                         *)
(* A job says: look for new blocks.  Its handler reads the chain's cursor  *)
(* from Redis and the height of the chain, fetches every block in between, *)
(* publishes those it gets and moves the cursor to the height it read at   *)
(* first.  Without a cursor it stores the height and publishes nothing.    *)
(*                                                                         *)
(* Redis drops the cursor some time after it was written: whenever, here.  *)
(* What is done with a published block is not modelled; the only           *)
(* subscriber in the repository writes it to the log.                      *)
(***************************************************************************)
EXTENDS Integers, FiniteSets

CONSTANTS
  Chains,
  Kind,       \* chain -> "BTC", "EVM", "SOL" or "TRX"
  Workers,    \* goroutines that handle jobs
  Queue,      \* worker -> the kind whose list it pops
  Settings,   \* sets of kinds the configuration may enable
  BatchSize,  \* slots per batch, Solana
  MaxHeight, MaxJobs, MaxLag  \* bounds

ASSUME MonitorsAssumption ==
  /\ Chains # {}
  /\ Kind \in [Chains -> {"BTC", "EVM", "SOL", "TRX"}]
  /\ Queue \in [Workers -> {"BTC", "EVM", "SOL", "TRX"}]
  /\ Settings \subseteq SUBSET {"BTC", "EVM", "SOL", "TRX"}
  /\ BatchSize \in Nat \ {0}
  /\ {MaxHeight, MaxJobs, MaxLag} \subseteq Nat
  /\ MaxHeight > 0

VARIABLES
  enabled,   \* the kinds RegisterBlockchainWorkers is told to start
  head,      \* the height of each chain
  cursor,    \* <chain>BlockIdentifier in Redis; 0 when there is none
  jobs,      \* jobs for each chain on the list of its kind
  starting,  \* the height StartBlockMonitor has read and not yet stored, or 0
  at,        \* where each worker stands in ProcessBlockMonitorJob
  chain,     \* what its job is about
  last,      \* lastProcessedBlockHeight
  top,       \* currentHeight
  next,      \* the next height of the loop
  late,      \* processCtx has run out, Solana
  origin,    \* history: the highest cursor stored without a scan
  tried,     \* history: blocks some job has asked for
  dropped    \* history: slots given up between two batches

scan == <<last, top, next, late>>
locals == <<chain, scan>>
world == <<enabled, head>>
redis == <<cursor, origin>>
history == <<tried, dropped>>
vars == <<world, redis, jobs, starting, at, locals, history>>

Heights == 1..MaxHeight
Steps == {"idle", "cursor", "head", "fresh", "batch", "block", "save", "hung"}

TypeOK ==
  /\ enabled \in Settings
  /\ head \in [Chains -> Heights]
  /\ cursor \in [Chains -> 0..MaxHeight]
  /\ jobs \in [Chains -> 0..MaxJobs]
  /\ starting \in [Chains -> 0..MaxHeight]
  /\ at \in [Workers -> Steps]
  /\ chain \in [Workers -> Chains]
  /\ {last, top} \subseteq [Workers -> 0..MaxHeight]
  /\ next \in [Workers -> 0..MaxHeight + 1]
  /\ late \in [Workers -> BOOLEAN]
  /\ origin \in [Chains -> 0..MaxHeight]
  /\ {tried, dropped} \subseteq SUBSET (Chains \X Heights)

Init ==
  /\ enabled \in Settings
  /\ head = [c \in Chains |-> 1]
  /\ cursor = [c \in Chains |-> 0]
  /\ jobs = [c \in Chains |-> 0]
  /\ starting = [c \in Chains |-> 0]
  /\ at = [w \in Workers |-> "idle"]
  /\ chain = [w \in Workers |-> CHOOSE c \in Chains : TRUE]
  /\ last = [w \in Workers |-> 0]
  /\ top = [w \in Workers |-> 0]
  /\ next = [w \in Workers |-> 0]
  /\ late = [w \in Workers |-> FALSE]
  /\ origin = [c \in Chains |-> 0]
  /\ tried = {}
  /\ dropped = {}

Of(w) == Kind[chain[w]]
Higher(a, b) == IF a < b THEN b ELSE a
Goto(w, step) == at' = [at EXCEPT ![w] = step]

\* The handler returns.
Return(w) ==
  /\ Goto(w, "idle")
  /\ last' = [last EXCEPT ![w] = 0]
  /\ top' = [top EXCEPT ![w] = 0]
  /\ next' = [next EXCEPT ![w] = 0]
  /\ late' = [late EXCEPT ![w] = FALSE]
  /\ UNCHANGED chain
-----------------------------------------------------------------------------
\* A job is taken off the list.  Solana's handler is registered, but only its
\* test calls ProcessJobs for its list.
PopJob(w) ==
  /\ at[w] = "idle" /\ Queue[w] \in enabled
  /\ \E c \in Chains :
       /\ Kind[c] = Queue[w] /\ jobs[c] > 0
       /\ jobs' = [jobs EXCEPT ![c] = @ - 1]
       /\ chain' = [chain EXCEPT ![w] = c]
  /\ Goto(w, "cursor")
  /\ UNCHANGED <<world, redis, starting, scan, history>>

ReadCursor(w) ==
  /\ at[w] = "cursor"
  /\ last' = [last EXCEPT ![w] = cursor[chain[w]]]
  /\ Goto(w, "head")
  /\ UNCHANGED <<world, redis, jobs, starting, chain, top, next, late, history>>

\* What a node says of the chain's height: it may lag behind others.
Answers(c) == {h \in Heights : head[c] - MaxLag <= h /\ h <= head[c]}

\* The height decides: a fresh start, a scan, or nothing new.
ReadHead(w) ==
  /\ at[w] = "head"
  /\ \E h \in Answers(chain[w]) :
       IF 0 < last[w] /\ h <= last[w] THEN Return(w)
       ELSE /\ top' = [top EXCEPT ![w] = h]
            /\ next' = [next EXCEPT ![w] = last[w] + 1]
            /\ Goto(w, IF last[w] = 0 THEN "fresh" ELSE IF Of(w) = "SOL" THEN "batch" ELSE "block")
            /\ UNCHANGED <<chain, last, late>>
  /\ UNCHANGED <<world, redis, jobs, starting, history>>

SaveFresh(w) ==
  /\ at[w] = "fresh"
  /\ cursor' = [cursor EXCEPT ![chain[w]] = top[w]]
  /\ origin' = [origin EXCEPT ![chain[w]] = Higher(@, top[w])]
  /\ Return(w)
  /\ UNCHANGED <<world, jobs, starting, history>>

BatchStart(w) == (next[w] - last[w] - 1) % BatchSize = 0

\* The loop over the heights asks for the block and goes on whether it gets
\* one or not.
Ask(w) ==
  /\ tried' = tried \cup {<<chain[w], next[w]>>}
  /\ next' = [next EXCEPT ![w] = @ + 1]
  /\ UNCHANGED <<world, redis, jobs, starting, chain, last, top, late, dropped>>

TryBlock(w) ==
  /\ at[w] = "block" /\ Of(w) # "SOL"
  /\ Ask(w)
  /\ Goto(w, IF next[w] = top[w] THEN "save" ELSE "block")

\* Solana's slots come in batches; a slot without a block is fine as well.
TrySlot(w) ==
  /\ at[w] = "block" /\ Of(w) = "SOL"
  /\ ~late[w]
  /\ Ask(w)
  /\ Goto(w, IF next[w] = top[w] THEN "save"
             ELSE IF (next[w] - last[w]) % BatchSize = 0 THEN "batch"
             ELSE "block")

\* Solana looks at the time before each batch and, out of time, leaves the
\* loop with currentSlot as it is, so that the rest is never asked for;
NextBatch(w) ==
  /\ at[w] = "batch"
  /\ IF late[w]
     THEN /\ dropped' = dropped \cup {<<chain[w], h>> : h \in next[w]..top[w]}
          /\ Goto(w, "save")
     ELSE Goto(w, "block") /\ UNCHANGED dropped
  /\ UNCHANGED <<world, redis, jobs, starting, locals, tried>>

\* before each slot, where it takes currentSlot back; at the first slot of a
\* batch, whichever, to where the job began.
OutOfTime(w) ==
  /\ at[w] = "block"
  /\ late[w]
  /\ top' = [top EXCEPT ![w] = IF BatchStart(w) THEN last[w] ELSE next[w] - 1]
  /\ Goto(w, "save")
  /\ UNCHANGED <<world, redis, jobs, starting, chain, last, next, late, history>>

\* Mutant: the height is read again after the loop.
SaveLatest(w) ==
  /\ at[w] = "save"
  /\ cursor' = [cursor EXCEPT ![chain[w]] = head[chain[w]]]
  /\ Return(w)
  /\ UNCHANGED <<world, origin, jobs, starting, history>>

SaveCursor(w) ==
  /\ at[w] = "save"
  /\ cursor' = [cursor EXCEPT ![chain[w]] = top[w]]
  /\ Return(w)
  /\ UNCHANGED <<world, origin, jobs, starting, history>>

\* Mutant: the job starts again until nothing fails.
Retry(w) ==
  /\ at[w] \in {"cursor", "head", "fresh", "save"}
  /\ Goto(w, "cursor")
  /\ UNCHANGED <<world, redis, jobs, starting, locals, history>>

\* Redis or the node fails, or an EVM chain cannot be dialled: the job ends
\* with an error and is not retried.
Fail(w) ==
  /\ at[w] \in {"cursor", "head", "fresh", "save"}
  /\ Return(w)
  /\ UNCHANGED <<world, redis, jobs, starting, history>>

\* The 45 seconds of processCtx are over.
TimePasses(w) ==
  /\ at[w] \in {"batch", "block"}
  /\ Of(w) = "SOL" /\ ~late[w]
  /\ late' = [late EXCEPT ![w] = TRUE]
  /\ UNCHANGED <<world, redis, jobs, starting, at, chain, last, top, next, history>>

\* The clients of EVM chains have no timeout, nor has the context: a chain that
\* is not dialled yet, its height or a block may be waited for for ever.
Hang(w) ==
  /\ at[w] \in {"cursor", "head", "block"}
  /\ Of(w) = "EVM"
  /\ Goto(w, "hung")
  /\ UNCHANGED <<world, redis, jobs, starting, locals, history>>
-----------------------------------------------------------------------------
\* StartBlockMonitor of Solana and Tron stores the height before it schedules
\* its job.
StartBlockMonitor(c) ==
  /\ Kind[c] \in enabled \cap {"SOL", "TRX"} /\ starting[c] = 0
  /\ \E h \in Answers(c) : starting' = [starting EXCEPT ![c] = h]
  /\ UNCHANGED <<world, redis, jobs, at, locals, history>>

StoreStart(c) ==
  /\ starting[c] > 0
  /\ \/ /\ cursor' = [cursor EXCEPT ![c] = starting[c]]
        /\ origin' = [origin EXCEPT ![c] = Higher(@, starting[c])]
     \/ UNCHANGED redis
  /\ starting' = [starting EXCEPT ![c] = 0]
  /\ UNCHANGED <<world, jobs, at, locals, history>>

\* The process ends, by itself or because three EVM workers write one map of
\* clients without a lock.
Crash ==
  /\ (\E w \in Workers : at[w] # "idle") \/ (\E c \in Chains : starting[c] > 0)
  /\ at' = [w \in Workers |-> "idle"]
  /\ last' = [w \in Workers |-> 0]
  /\ top' = [w \in Workers |-> 0]
  /\ next' = [w \in Workers |-> 0]
  /\ late' = [w \in Workers |-> FALSE]
  /\ starting' = [c \in Chains |-> 0]
  /\ UNCHANGED <<world, redis, jobs, chain, history>>

\* Redis drops the cursor.
ExpireCursor(c) ==
  /\ cursor[c] > 0
  /\ cursor' = [cursor EXCEPT ![c] = 0]
  /\ UNCHANGED <<world, origin, jobs, starting, at, locals, history>>

\* The heights of chains that are not enabled play no part.
MineBlock(c) ==
  /\ Kind[c] \in enabled
  /\ head[c] < MaxHeight
  /\ head' = [head EXCEPT ![c] = @ + 1]
  /\ UNCHANGED <<enabled, redis, jobs, starting, at, locals, history>>

\* A program adds a job.
PushJob(c) ==
  /\ Kind[c] \in enabled
  /\ jobs[c] < MaxJobs
  /\ jobs' = [jobs EXCEPT ![c] = @ + 1]
  /\ UNCHANGED <<world, redis, starting, at, locals, history>>

Work(w) ==
  \/ ReadCursor(w) \/ ReadHead(w) \/ SaveFresh(w) \/ TryBlock(w) \/ TrySlot(w)
  \/ NextBatch(w) \/ OutOfTime(w) \/ SaveCursor(w) \/ Fail(w)

Next ==
  \/ \E w \in Workers : PopJob(w) \/ Work(w) \/ TimePasses(w) \/ Hang(w)
  \/ \E c \in Chains :
       StartBlockMonitor(c) \/ StoreStart(c) \/ ExpireCursor(c) \/ MineBlock(c) \/ PushJob(c)
  \/ Crash

Spec == Init /\ [][Next]_vars /\ \A w \in Workers : WF_vars(Work(w))
-----------------------------------------------------------------------------
\* The blocks up to height k, above the highest cursor written without a scan,
\* have been asked for, or given up on.
Passed(c, k) ==
  \A h \in Heights :
    origin[c] < h /\ h <= k =>
      <<c, h>> \in tried \/ (Kind[c] = "SOL" /\ <<c, h>> \in dropped)

\* Every block at or below a cursor that a scan has written, above the highest
\* one written without, has been asked for, whatever jobs overlap, fail, start
\* afresh or die.  Solana may have given up a batch for want of time: then the
\* rest up to the height is passed over (ProcessBlockMonitorJob).
NothingSkippedUnnoticed == \A c \in Chains : Passed(c, cursor[c])

\* What makes it hold of every step: so has every block below the one a job is
\* to ask for next, which is never above the height it stores in the end.
JobInv(w) ==
  /\ at[w] = "head" => Passed(chain[w], last[w])
  /\ at[w] \in {"batch", "block"} =>
       last[w] < next[w] /\ next[w] <= top[w] /\ Passed(chain[w], next[w] - 1)
  /\ at[w] = "batch" => Of(w) = "SOL"
  /\ at[w] = "save" => Passed(chain[w], top[w])
MonitorsInv == TypeOK /\ NothingSkippedUnnoticed /\ \A w \in Workers : JobInv(w)

\* A job ends, however many of its blocks cannot be had and however far the
\* chain grows meanwhile, unless an EVM node leaves it without an answer.
JobEnds ==
  \A w \in Workers : at[w] # "idle" ~> at[w] \in {"idle", "hung"}
=============================================================================
