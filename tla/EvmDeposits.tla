---------------------------- MODULE EvmDeposits ----------------------------
(***************************************************************************)
(* The deposit watcher of one EVM chain: internal/worker/evm/processor.go. *)
(*                                                                         *)
(* A ticker pushes a job on the chain's Redis list every Interval minutes  *)
(* (startScheduler).  Workers, the goroutines ProcessJobs starts, pop jobs *)
(* and run ProcessChain: read the chain's head, read the cursor            *)
(* "evm:<chain>:last-block-height" from the cache, scan the blocks between *)
(* them and write the cursor back with a time to live.  Scanning a block   *)
(* looks for a PENDING order of the recipient's account and then, in a     *)
(* separate call, sets it to DEPOSIT_CONFIRMING.  Other programs create,   *)
(* open and settle orders in the same collection meanwhile.                *)
(*                                                                         *)
(* One Tick is one minute.  A transfer is a native payment or one ERC-20   *)
(* Transfer log; amounts are not modelled here.                            *)
(***************************************************************************)
EXTENDS Integers, Sequences, FiniteSets

CONSTANTS
  Workers,         \* consumers of the chain's job list
  Orders,          \* documents of the orders collection
  Accounts,        \* documents of the accounts collection
  Addresses,       \* wallet addresses, compared without case
  Transfers,       \* what a block may contain
  Bodies,          \* the block bodies considered: [native, logs]
  None,
  AccountAddress,  \* account -> its walletAddress
  StoredLower,     \* accounts whose walletAddress is stored in lower case
  DepositAccounts, \* order -> its depositAccountIds
  To,              \* transfer -> recipient
  Interval,        \* EVM_SCHEDULED_TIME, minutes between jobs
  FreshTTL,        \* minutes the cursor lives after a fresh start
  UpdateTTL,       \* minutes the cursor lives after a catch-up
  MaxLag,          \* blocks an answer of the RPC service may lag behind
  MaxHangs,        \* requests to that service that may hang at a time
  MaxBlocks, MaxJobs, MaxFaults  \* bounds

BlockBody == [native : Seq(Transfers), logs : Seq(Transfers)]

ASSUME ConstantsAssumption ==
  /\ AccountAddress \in [Accounts -> Addresses]
  /\ StoredLower \subseteq Accounts
  /\ DepositAccounts \in [Orders -> SUBSET Accounts]
  /\ To \in [Transfers -> Addresses]
  /\ Bodies \subseteq BlockBody
  /\ None \notin Accounts \cup Orders \cup Transfers
  /\ {Interval, FreshTTL, UpdateTTL} \subseteq Nat \ {0}
  /\ {MaxLag, MaxHangs, MaxBlocks, MaxJobs, MaxFaults} \subseteq Nat

VARIABLES
  chain,        \* the blocks mined so far; block b is chain[b]
  status,       \* orders[o].status
  latestTx,     \* orders[o].latestTxHash
  cursor, ttl,  \* cached last-block-height (0: no key) and its minutes left
  timer, jobs,  \* minutes to the next job; jobs waiting in the list
  faults,       \* failures and restarts so far
  pc,           \* where each worker stands in ProcessChain
  latest, last, \* latestBlockNumber and lastProcessedBlockNumber of the run
  next,         \* the block being scanned
  todo,         \* its transfers still to match, natives first
  accountMap,   \* address -> deposit account found for it
  target,       \* the order found for Head(todo)
  attempted,    \* history: blocks some run has scanned or tried to
  failed,       \* history: blocks in which some read or write failed
  freshStarts,  \* history: cursors written by a run that found none
  overtaken     \* history: workers whose run has read the cursor before
                \* another one has written it

chainVars == <<chain>>
orderVars == <<status, latestTx>>
cacheVars == <<cursor, ttl>>
queueVars == <<timer, jobs>>
runVars   == <<pc, latest, last, next, todo, accountMap, target>>
histVars  == <<attempted, failed, freshStarts, overtaken>>
vars == <<chain, orderVars, cacheVars, queueVars, faults, runVars, histVars>>

OrderStatus == {"CREATED", "PENDING", "DEPOSIT_CONFIRMING", "SETTLED"}
Steps == {"idle", "head", "cursor", "block", "match", "update", "save", "hung"}
\* The steps of a run that has read the cursor and goes through blocks.
Scanning == {"block", "match", "update", "save"}

NoAccounts == [a \in Addresses |-> None]
-----------------------------------------------------------------------------
BodyTransfers(body) ==
  {body.native[i] : i \in DOMAIN body.native} \cup
  {body.logs[i] : i \in DOMAIN body.logs}

Mined == UNION {BodyTransfers(chain[b]) : b \in DOMAIN chain}

\* What eth_blockNumber may answer.  The service has many nodes, and one of
\* them may be behind the others.
Heads == {h \in 1..Len(chain) : Len(chain) - h <= MaxLag}

\* Mutant: the lookup does not lower the addresses it is given.
DepositAccountsUnlowered(addrs) ==
  {a \in Accounts \ StoredLower : AccountAddress[a] \in addrs}

\* findDepositAccountsByAddresses: exact lower-case matches, and only when
\* there is none at all the case-insensitive ones.
DepositAccountsFor(addrs) ==
  LET matching == {a \in Accounts : AccountAddress[a] \in addrs}
      exact    == matching \cap StoredLower
  IN  IF exact # {} THEN exact ELSE matching

\* The address-to-account map of processBlock.  Of several accounts with one
\* address the last in Mongo's unspecified order stays.
AccountMapsFor(accounts) ==
  {m \in [Addresses -> Accounts \cup {None}] :
     \A addr \in Addresses :
       LET here == {a \in accounts : AccountAddress[a] = addr}
       IN  IF here = {} THEN m[addr] = None ELSE m[addr] \in here}

\* Mutants: the query forgets the account, or the status.
PendingOrdersOfAnyone(account) ==
  {o \in Orders : account # None /\ status[o] = "PENDING"}
OrdersOf(account) == {o \in Orders : account \in DepositAccounts[o]}

\* findOrderByDepositAccount: FindOne may return any document that matches.
PendingOrdersOf(account) ==
  {o \in Orders : account \in DepositAccounts[o] /\ status[o] = "PENDING"}

\* A run without a cursor scans the latest block only.
Fresh(w) == last[w] = 0

Fault == faults < MaxFaults /\ faults' = faults + 1
NoFault == UNCHANGED faults

Goto(w, step) == pc' = [pc EXCEPT ![w] = step]
KeepRun == UNCHANGED <<latest, last, next, todo, accountMap, target>>

\* The run's local variables are of no more use.
Leave(w, step) ==
  /\ Goto(w, step)
  /\ latest' = [latest EXCEPT ![w] = 0]
  /\ last' = [last EXCEPT ![w] = 0]
  /\ next' = [next EXCEPT ![w] = 0]
  /\ todo' = [todo EXCEPT ![w] = <<>>]
  /\ accountMap' = [accountMap EXCEPT ![w] = NoAccounts]
  /\ target' = [target EXCEPT ![w] = None]

\* The handler returns; the worker goes back to BLPop.
Finish(w) == Leave(w, "idle")

\* Mutant: the loop stops one block short of the head.
NextBlockShort(w) ==
  /\ IF next[w] + 1 < latest[w]
     THEN Goto(w, "block") /\ next' = [next EXCEPT ![w] = @ + 1]
     ELSE Goto(w, "save") /\ UNCHANGED next
  /\ accountMap' = [accountMap EXCEPT ![w] = NoAccounts]
  /\ UNCHANGED <<latest, last, todo, target>>

\* The loop over blocks: the next one, or on to writing the cursor.
NextBlock(w) ==
  /\ IF next[w] < latest[w]
     THEN Goto(w, "block") /\ next' = [next EXCEPT ![w] = @ + 1]
     ELSE Goto(w, "save") /\ UNCHANGED next
  /\ accountMap' = [accountMap EXCEPT ![w] = NoAccounts]
  /\ UNCHANGED <<latest, last, todo, target>>
-----------------------------------------------------------------------------
Init ==
  /\ chain = <<[native |-> <<>>, logs |-> <<>>]>>
  /\ status \in [Orders -> {"CREATED", "PENDING"}]
  /\ latestTx = [o \in Orders |-> None]
  /\ cursor = 0 /\ ttl = 0
  /\ timer = 0 /\ jobs = 0
  /\ faults = 0
  /\ pc = [w \in Workers |-> "idle"]
  /\ latest = [w \in Workers |-> 0]
  /\ last = [w \in Workers |-> 0]
  /\ next = [w \in Workers |-> 0]
  /\ todo = [w \in Workers |-> <<>>]
  /\ accountMap = [w \in Workers |-> NoAccounts]
  /\ target = [w \in Workers |-> None]
  /\ attempted = {} /\ failed = {} /\ freshStarts = {} /\ overtaken = {}

\* The chain grows by a block of transfers not seen before.
MineBlock(body) ==
  /\ Len(chain) < MaxBlocks
  /\ BodyTransfers(body) \cap Mined = {}
  /\ chain' = Append(chain, body)
  /\ UNCHANGED <<orderVars, cacheVars, queueVars, faults, runVars, histVars>>

\* The node server opens an order for deposits.
OpenOrder(o) ==
  /\ status[o] = "CREATED"
  /\ status' = [status EXCEPT ![o] = "PENDING"]
  /\ UNCHANGED <<chainVars, latestTx, cacheVars, queueVars, faults, runVars, histVars>>

\* Any later status written by another program: confirmed, filled, failed,
\* expired and so on.
SettleOrder(o) ==
  /\ status[o] \in {"PENDING", "DEPOSIT_CONFIRMING"}
  /\ status' = [status EXCEPT ![o] = "SETTLED"]
  /\ UNCHANGED <<chainVars, latestTx, cacheVars, queueVars, faults, runVars, histVars>>

\* A minute passes; Redis drops the cursor when its time is up.
Tick ==
  /\ timer > 0
  /\ timer' = timer - 1
  /\ ttl' = IF ttl > 0 THEN ttl - 1 ELSE 0
  /\ cursor' = IF ttl > 1 THEN cursor ELSE 0
  /\ UNCHANGED <<chainVars, orderVars, jobs, faults, runVars, histVars>>

\* startScheduler's ticker, and the job it pushes at once when it starts.
\* The Redis client sends an LPush again whose answer is lost, so that a job
\* may be pushed more than once; a failed one is logged and forgotten.
EnqueueEVMJob ==
  /\ timer = 0
  /\ jobs < MaxJobs
  /\ timer' = Interval
  /\ \/ jobs' = jobs + 1 /\ NoFault
     \/ jobs' \in jobs..MaxJobs /\ Fault
  /\ UNCHANGED <<chainVars, orderVars, cacheVars, runVars, histVars>>

\* BLPop: the job leaves the list before it is handled.
PopJob(w) ==
  /\ pc[w] = "idle"
  /\ jobs > 0
  /\ jobs' = jobs - 1
  /\ Goto(w, "head")
  /\ KeepRun
  /\ UNCHANGED <<chainVars, orderVars, cacheVars, timer, faults, histVars>>

\* A head that lags counts among the failures, which bounds how often it does.
GetLatestBlockNumber(w) ==
  /\ pc[w] = "head"
  /\ \/ /\ \E head \in Heads :
             /\ latest' = [latest EXCEPT ![w] = head]
             /\ IF head = Len(chain) THEN NoFault ELSE Fault
        /\ Goto(w, "cursor")
        /\ UNCHANGED <<last, next, todo, accountMap, target>>
     \/ Fault /\ Finish(w)
  /\ UNCHANGED <<chainVars, orderVars, cacheVars, queueVars, histVars>>

\* Mutant: a cursor at or above the head read does not end the run.
ReadCursorUnguarded(w) ==
  /\ pc[w] = "cursor"
  /\ NoFault
  /\ last' = [last EXCEPT ![w] = cursor]
  /\ next' = [next EXCEPT ![w] = IF cursor = 0 THEN latest[w] ELSE cursor + 1]
  /\ Goto(w, IF cursor < latest[w] THEN "block" ELSE "save")
  /\ overtaken' = overtaken \ {w}
  /\ UNCHANGED <<latest, todo, accountMap, target>>
  /\ UNCHANGED <<chainVars, orderVars, cacheVars, queueVars, attempted, failed, freshStarts>>

\* The cached height decides between a fresh start, a catch-up and nothing.
ReadCursor(w) ==
  /\ pc[w] = "cursor"
  /\ \/ /\ NoFault
        /\ cursor = 0
        /\ next' = [next EXCEPT ![w] = latest[w]]
        /\ Goto(w, "block")
        /\ UNCHANGED <<latest, last, todo, accountMap, target>>
     \/ /\ NoFault
        /\ cursor > 0 /\ latest[w] > cursor
        /\ last' = [last EXCEPT ![w] = cursor]
        /\ next' = [next EXCEPT ![w] = cursor + 1]
        /\ Goto(w, "block")
        /\ UNCHANGED <<latest, todo, accountMap, target>>
     \/ NoFault /\ cursor > 0 /\ latest[w] <= cursor /\ Finish(w)
     \/ Fault /\ Finish(w)
  /\ overtaken' = overtaken \ {w}
  /\ UNCHANGED <<chainVars, orderVars, cacheVars, queueVars, attempted, failed, freshStarts>>

\* A call made for the block being scanned fails.
BlockFault(w) == Fault /\ failed' = failed \cup {next[w]}

\* processBlock from the account lookup to its loops over the transfers.
StartMatching(w, transfers) ==
  /\ \E m \in AccountMapsFor(DepositAccountsFor(
                {To[transfers[i]] : i \in DOMAIN transfers})) :
       accountMap' = [accountMap EXCEPT ![w] = m]
  /\ todo' = [todo EXCEPT ![w] = transfers]
  /\ Goto(w, "match")
  /\ UNCHANGED <<latest, last, next, target>>

\* processBlock up to the account map.  Failing to read the block or the
\* accounts fails the block: a fresh start gives up, a catch-up goes on with
\* the next one.  A block the node does not know yet counts as done, and so
\* does one whose token logs could not be read.
ScanBlock(w) ==
  /\ pc[w] = "block"
  /\ attempted' = attempted \cup {next[w]}
  /\ LET body == chain[next[w]]
     IN  \/ NoFault /\ UNCHANGED failed /\ StartMatching(w, body.native \o body.logs)
         \/ BlockFault(w) /\ StartMatching(w, body.native)
         \/ BlockFault(w) /\ NextBlock(w)
         \/ BlockFault(w) /\ Fresh(w) /\ Finish(w)
  /\ UNCHANGED <<chainVars, orderVars, cacheVars, queueVars, freshStarts, overtaken>>

BlockDone(w) ==
  /\ pc[w] = "match"
  /\ todo[w] = <<>>
  /\ NextBlock(w)
  /\ UNCHANGED <<chainVars, orderVars, cacheVars, queueVars, faults, histVars>>

DropTransfer(w) == todo' = [todo EXCEPT ![w] = Tail(@)]

\* The deposit account the transfer in hand pays, None for most transfers.
Recipient(w) == accountMap[w][To[Head(todo[w])]]

\* processMatchedTransaction and processMatchedTokenTransfer up to FindOne.
MatchTransfer(w) ==
  /\ pc[w] = "match"
  /\ todo[w] # <<>>
  /\ \/ /\ \E o \in PendingOrdersOf(Recipient(w)) :
             target' = [target EXCEPT ![w] = o]
        /\ Goto(w, "update")
        /\ NoFault
        /\ UNCHANGED <<todo, failed>>
     \/ /\ PendingOrdersOf(Recipient(w)) = {}
        /\ DropTransfer(w)
        /\ NoFault
        /\ UNCHANGED <<pc, target, failed>>
     \/ /\ Recipient(w) # None
        /\ DropTransfer(w)
        /\ BlockFault(w)
        /\ UNCHANGED <<pc, target>>
  /\ UNCHANGED <<latest, last, next, accountMap>>
  /\ UNCHANGED <<chainVars, orderVars, cacheVars, queueVars, attempted, freshStarts, overtaken>>

\* processOrderTransaction: UpdateByID sets status and latestTxHash of the
\* order found, whatever its status has become since.
ProcessOrderTransaction(w) ==
  /\ pc[w] = "update"
  /\ \/ /\ status' = [status EXCEPT ![target[w]] = "DEPOSIT_CONFIRMING"]
        /\ latestTx' = [latestTx EXCEPT ![target[w]] = Head(todo[w])]
        /\ NoFault
        /\ UNCHANGED failed
     \/ BlockFault(w) /\ UNCHANGED orderVars
  /\ DropTransfer(w)
  /\ target' = [target EXCEPT ![w] = None]
  /\ Goto(w, "match")
  /\ UNCHANGED <<latest, last, next, accountMap>>
  /\ UNCHANGED <<chainVars, cacheVars, queueVars, attempted, freshStarts, overtaken>>

\* The runs under way have read a cursor that is no longer the one stored.
Overtake(w) ==
  overtaken' = (overtaken \cup {v \in Workers : pc[v] \in Scanning}) \ {w}

\* Mutant: the cursor is set to the block before the last one scanned.
SaveCursorBehind(w) ==
  /\ pc[w] = "save"
  /\ NoFault
  /\ cursor' = latest[w] - 1
  /\ ttl' = IF Fresh(w) THEN FreshTTL ELSE UpdateTTL
  /\ freshStarts' = freshStarts \cup (IF Fresh(w) THEN {latest[w]} ELSE {})
  /\ Overtake(w)
  /\ Finish(w)
  /\ UNCHANGED <<chainVars, orderVars, queueVars, attempted, failed>>

\* The cursor is set to the head read at the start of the run, however many
\* blocks failed, and with another time to live after a fresh start.
SaveCursor(w) ==
  /\ pc[w] = "save"
  /\ \/ /\ NoFault
        /\ cursor' = latest[w]
        /\ ttl' = IF Fresh(w) THEN FreshTTL ELSE UpdateTTL
        /\ freshStarts' = freshStarts \cup (IF Fresh(w) THEN {latest[w]} ELSE {})
        /\ Overtake(w)
     \/ Fault /\ UNCHANGED <<cacheVars, freshStarts, overtaken>>
  /\ Finish(w)
  /\ UNCHANGED <<chainVars, orderVars, queueVars, attempted, failed>>

\* A request to the RPC service is never answered: createHTTPClient sets no
\* timeout and the job's context has no deadline, so the worker waits on.
Hang(w) ==
  /\ pc[w] \in {"head", "block"}
  /\ Cardinality({v \in Workers : pc[v] = "hung"}) < MaxHangs
  /\ IF pc[w] = "head"
     THEN Fault /\ UNCHANGED <<attempted, failed>>
     ELSE BlockFault(w) /\ attempted' = attempted \cup {next[w]}
  /\ Leave(w, "hung")
  /\ UNCHANGED <<chainVars, orderVars, cacheVars, queueVars, freshStarts, overtaken>>

\* The process dies, or the chain's worker is stopped, and starts again: runs
\* under way are lost with the jobs they had popped, Redis and Mongo stay.
Restart ==
  /\ Fault
  /\ pc' = [w \in Workers |-> "idle"]
  /\ latest' = [w \in Workers |-> 0]
  /\ last' = [w \in Workers |-> 0]
  /\ next' = [w \in Workers |-> 0]
  /\ todo' = [w \in Workers |-> <<>>]
  /\ accountMap' = [w \in Workers |-> NoAccounts]
  /\ target' = [w \in Workers |-> None]
  /\ timer' = 0
  /\ UNCHANGED <<chainVars, orderVars, cacheVars, jobs, histVars>>

\* A worker's own steps once it has a job: ProcessChain.
ProcessChain(w) ==
  \/ GetLatestBlockNumber(w) \/ ReadCursor(w)
  \/ ScanBlock(w) \/ MatchTransfer(w) \/ ProcessOrderTransaction(w) \/ BlockDone(w)
  \/ SaveCursor(w)

Next ==
  \/ \E body \in Bodies : MineBlock(body)
  \/ \E o \in Orders : OpenOrder(o) \/ SettleOrder(o)
  \/ Tick \/ EnqueueEVMJob \/ Restart
  \/ \E w \in Workers : PopJob(w) \/ ProcessChain(w) \/ Hang(w)

Spec == Init /\ [][Next]_vars

\* Time goes on, the ticker fires, and every worker takes jobs and gets on
\* with them: Redis and Mongo calls return or fail, and so do requests to the
\* RPC service that do not hang.
Fairness ==
  /\ WF_vars(Tick)
  /\ WF_vars(EnqueueEVMJob)
  /\ \A w \in Workers : WF_vars(PopJob(w)) /\ WF_vars(ProcessChain(w))

FairSpec == Spec /\ Fairness
-----------------------------------------------------------------------------
\* Types of what the programs share, and of each worker's run.
SharedOK ==
  /\ chain \in Seq(BlockBody) \ {<<>>}
  /\ status \in [Orders -> OrderStatus]
  /\ latestTx \in [Orders -> Transfers \cup {None}]
  /\ cursor \in Nat /\ ttl \in Nat
  /\ timer \in Nat /\ jobs \in Nat /\ faults \in Nat
  /\ attempted \in SUBSET Nat
  /\ failed \in SUBSET Nat
  /\ freshStarts \in SUBSET Nat
  /\ overtaken \in SUBSET Workers

RunsOK ==
  /\ pc \in [Workers -> Steps]
  /\ latest \in [Workers -> Nat]
  /\ last \in [Workers -> Nat]
  /\ next \in [Workers -> Nat]
  /\ todo \in [Workers -> Seq(Transfers)]
  /\ accountMap \in [Workers -> [Addresses -> Accounts \cup {None}]]
  /\ target \in [Workers -> Orders \cup {None}]

\* Besides types: a run that is about to write has an order to write to, and
\* a block that is scanned exists.
RunShape(w) ==
  /\ pc[w] = "update" => todo[w] # <<>> /\ target[w] \in Orders
  /\ pc[w] \in {"cursor"} \cup Scanning => latest[w] \in 1..Len(chain)
  /\ pc[w] \in Scanning => next[w] \in 1..latest[w]

TypeOK == SharedOK /\ RunsOK /\ \A w \in Workers : RunShape(w)

PaysTo(t, o) == \E a \in DepositAccounts[o] : AccountAddress[a] = To[t]

\* An order marked DEPOSIT_CONFIRMING records a transfer of a mined block to
\* an address of one of its own deposit accounts, whichever runs overlapped
\* between finding the order and writing it (processOrderTransaction).
ConfirmedByOwnDeposit ==
  \A o \in Orders :
    status[o] = "DEPOSIT_CONFIRMING" =>
      latestTx[o] \in Mined /\ PaysTo(latestTx[o], o)

\* ProcessChain leaves no gap behind the cursor: a block at or below it that
\* no run ever tried was jumped over by a run that found no cursor.  Holds
\* for overlapping runs, failed blocks, expiry and restarts.
NoGapAboveFreshStart ==
  \A b \in 1..cursor :
    b \notin attempted => \E f \in freshStarts : b < f

\* The watcher and its neighbours implement the ledger: only transfers that
\* are mined and pay an opened order are ever recorded on it.
Ledger == INSTANCE DepositLedger WITH
  mined <- Mined,
  Pays  <- {p \in Transfers \X Orders : PaysTo(p[1], p[2])}

LedgerSpec == Ledger!Spec

\* The cursor goes back to an earlier block only when a run writes its head
\* after another one has written the cursor it had read, and never as far as
\* the block it had read itself (ProcessChain's two cache writes).
CursorGoesBackByOverlap ==
  [][cursor' # 0 /\ cursor' < cursor =>
       \E w \in overtaken :
         pc[w] = "save" /\ cursor' = latest[w] /\ cursor' > last[w]]_cursor

\* Time and again the cursor is at the head of the chain: however often it
\* expires, a worker that lags behind catches up or starts afresh.
CursorReachesHead == []<>(cursor = Len(chain))

\* t pays o and no other order, and every account with its address is one of
\* o's, stored in lower case.
SurelyMatched(t, o) ==
  /\ PaysTo(t, o)
  /\ \A p \in Orders : PaysTo(t, p) => p = o
  /\ \A a \in Accounts :
       AccountAddress[a] = To[t] => a \in DepositAccounts[o] \cap StoredLower

\* The watcher's purpose: a deposit mined while its order is PENDING takes
\* the order out of PENDING, unless some read or write of its block failed or
\* a fresh start jumped over the block.
DepositNoticed ==
  \A b \in 1..MaxBlocks, t \in Transfers, o \in Orders :
    SurelyMatched(t, o) =>
      (/\ b \in DOMAIN chain /\ b \notin attempted
       /\ t \in BodyTransfers(chain[b]) /\ status[o] = "PENDING")
      ~> (\/ status[o] # "PENDING" \/ b \in failed
          \/ \E f \in freshStarts : b < f)
-----------------------------------------------------------------------------
\* What the log line of ProcessChain says after a fresh start, "will process
\* new blocks going forward": every block from there to the cursor is tried.
NewBlocksGoingForward ==
  \A f \in freshStarts : f..cursor \subseteq attempted

-----------------------------------------------------------------------------
\* The inductive strengthenings of the two invariants.
Covered(n) ==
  \A b \in 1..n : b \notin attempted => \E f \in freshStarts : b < f

\* A run has tried the blocks from the cursor it read up to the present one.
RunCover(w) ==
  /\ pc[w] \notin Scanning => last[w] = 0
  /\ Covered(last[w])
  /\ last[w] # 0 => \A b \in (last[w] + 1)..(next[w] - 1) : b \in attempted
  /\ last[w] = 0 /\ pc[w] \in Scanning => next[w] = latest[w]
  /\ pc[w] \in {"match", "update", "save"} => next[w] \in attempted
  /\ pc[w] = "save" => next[w] = latest[w]

CoverInv == Covered(cursor) /\ \A w \in Workers : RunCover(w)

\* A run that scans is on its way to a head above the cursor it has read, and
\* above the one stored as long as nobody else has written that.
RunBehind(w) ==
  IF pc[w] \in Scanning
  THEN last[w] < latest[w] /\ (w \in overtaken \/ cursor < latest[w])
  ELSE last[w] = 0

BehindInv == \A w \in Workers : RunBehind(w)

\* A run handles mined transfers only, knows whose address they pay, and the
\* order it is about to write owns that account and has been opened.
RunDeposit(w) ==
  /\ \A i \in DOMAIN todo[w] : todo[w][i] \in Mined
  /\ \A addr \in Addresses :
       accountMap[w][addr] # None => AccountAddress[accountMap[w][addr]] = addr
  /\ pc[w] = "update" =>
       /\ Recipient(w) \in DepositAccounts[target[w]]
       /\ status[target[w]] # "CREATED"

DepositInv ==
  /\ \A o \in Orders :
       /\ latestTx[o] # None => latestTx[o] \in Mined /\ PaysTo(latestTx[o], o)
       /\ status[o] = "DEPOSIT_CONFIRMING" => latestTx[o] # None
  /\ \A w \in Workers : RunDeposit(w)
=============================================================================
