# TLA+ models of the blockchain watchers

This directory holds TLA+ models of the Go programs in this repository, the
TLC configurations that check them on small instances and TLAPS proofs of the
properties that matter most. Paths below are relative to the repository.
`PROJECT.json` lists the runs, the source lines every definition models, the
hazards of the code with the properties that cover them, and the theorems.

    tlc -workers 2 -config evm_single.cfg MCEvmDeposits     # one run
    tlapm EvmWorker_proofs.tla                              # one proof module

## The system

Wallet accounts and buy/sell orders live in MongoDB, which several programs
share: a Node server that owns the orders, an HTTP/gRPC server (`main.go`) and
two worker programs (`cmd/workers/`). The workers watch blockchains for
deposits to the accounts of pending orders and set these orders to
`DEPOSIT_CONFIRMING`. Redis carries job lists and cached values with a time to
live.

| Component | State | Operations | Hard because | Correct when |
|---|---|---|---|---|
| EVM deposit watcher, `internal/worker/evm/processor.go`, `ankr_client.go` | block cursor in Redis (TTL), job list in Redis, a run's local variables; writes orders in Mongo | scheduler tick, pop, `ProcessChain`, `processBlock`, find and update of an order | two consumers per chain, runs longer than the interval, cursor expiry, RPC failures, lag and hanging requests, crash between scan and cursor write, find-then-update race | no block is lost unnoticed; an order is confirmed by a deposit of its own only; the watcher keeps up with the head |
| EVM chain manager, `internal/worker/evm/worker.go`, `cmd/workers/evmChangeNow` | `activeChains` under `chainsMutex`, `stopChan`, contexts, "active" keys in Redis | monitor check, start and stop of a chain's watcher, shutdown | stale answers, stop timeout, two signal handlers, mutex held through sleeps and waits | one live watcher per chain with pending orders, none leaked, a signal that `waitForShutdown` hears ends the process |
| Queue manager, `managers/queue` | handlers map; Bull-style keys and plain lists in Redis | `AddJob`, `GetJob`, `RegisterHandler`, `ProcessJobs`, `processQueue`, repeat jobs, `ClearQueue` | destructive pop, pipelines that are no transactions and are sent again, two naming schemes for lists | an added job is handled once or its loss is known, unless the Redis client lists it twice |
| Order use case and repository, `src/usecases/order_usecase.go`, `config/mongodb` | order documents | create, update (read, merge, replace), status, soft delete | read-modify-write against the watchers' updates | a write changes no field its caller did not give, and never the deposit or the mark of deletion |
| ChangeNow worker, `internal/worker/changenow` | none of its own | periodic status check, queued status check | stale status, unguarded FAILED, popped jobs not retried, webhook retries | an order is failed and a webhook sent only for a cause; an outcome is acted on |
| Socket manager and clients, `managers/socket` | clients, rooms, user registry, send channels | register, unregister, rooms, emit, shutdown, pumps | goroutines per client, maps and slices used outside the lock, closing channels | registries agree; an emission comes to everyone it is meant for; a dead client's goroutines end |
| Node connection, `managers/socket/node_adapter.go` | one socket, flags without lock, `Done` | connect, pumps, reconnect, close | no lock: reconnect, an old writer and close work on the same fields | at most one connection; while it is up somebody reads and writes; a broken one is replaced |
| Account pollers, `internal/worker/{btc,sol,trx}`, `solBTCTrx` | account balances, transactions and new accounts in Mongo; TRX's list of accounts | poll, worker pool, balance, history, accounts for recipients | pools, one account of several failing, requests that hang, panics, find-then-insert | every listed transaction is stored, as the ledger has it; a balance does not go back |
| Request manager, `managers/http` | none | retried HTTP requests | retry of a non-idempotent request | |
| Block monitors, `managers/workers` | a cursor per chain in Redis (TTL), job lists, a job's local variables | `ProcessBlockMonitorJob`, `StartBlockMonitor` | three workers for all EVM chains, lag, failures, Solana's time limit, cursor expiry, crash | no block at or below the cursor is left out unnoticed; a job ends |
| Account, wallet, portfolio use cases, `src/usecases`, `src/services` | account documents | import, balance refresh, update, delete, find-or-create | requests that overlap, check-then-create, read-then-write-back, a list of currencies that changes between batches, recovered panics | one account per address and currency, unless imports overlap; a reported success is one; deleted stays deleted |
| Cache, Redis client, events | keys with TTL; singleton; subscribers | get/set/delete; once/close; publish | expiry, once after close | |
| Providers, interfaces, config, logger, models | none | API clients, decoding | | |

## Modules

| Module | Models |
|---|---|
| `DepositLedger` | abstract: what the EVM watcher promises about the orders collection |
| `EvmDeposits` | `processor.go`: queue, cursor, runs and order updates of one chain |
| `MCEvmDeposits` | constants of its runs |
| `EvmChainManager` | `worker.go`: monitor, watchers, mutex, shutdown, crash |
| `MCEvmChainManager` | constants of its runs |
| `EvmWorker_proofs` | theorems of `EvmDeposits` and of `EvmChainManager` |
| `ChangeNowOrders` | `internal/worker/changenow/worker.go` with the webhook's retries (`managers/http`): status checks, webhooks and FAILED updates |
| `MCChangeNowOrders` | constants of its runs |
| `ChangeNowOrders_proofs` | its theorems |
| `BullQueue` | `managers/queue/queue.go` under Bull's keys: `AddJob`, `processQueue`, repeat jobs, `ClearQueue` |
| `MCBullQueue` | constants of its runs |
| `BullQueue_proofs` | its theorems |
| `AccountPoller` | `internal/worker/btc`, `sol`, `trx` and `solBTCTrx`: polls, pools, balances, history; `CreateOrFindAccount` |
| `MCAccountPoller` | constants of its runs |
| `AccountPoller_proofs` | its theorems |
| `SocketManager` | `managers/socket/manager.go`, `client.go`: tables, pumps, rooms, emissions, eviction, shutdown |
| `MCSocketManager` | constants of its run |
| `SocketManager_proofs` | its theorems |
| `NodeConnection` | `managers/socket/node_adapter.go`: connect, pumps, reconnect, emit, close |
| `MCNodeConnection` | its run |
| `NodeConnection_proofs` | its theorems |
| `Accounts` | `account_usecase.go`, `portfolio_usecase.go`: import, refresh, delete |
| `OrderStore` | `order_usecase.go`, its adapter and repository |
| `UseCases` | both of them over one database, as the requests of one server |
| `MCUseCases` | constants of its run |
| `UseCases_proofs` | its theorems |
| `BlockMonitors` | `managers/workers`: the monitors of Bitcoin, the EVM chains, Solana and Tron |
| `MCBlockMonitors` | constants of its run |
| `BlockMonitors_proofs` | its theorems |

### EvmDeposits

A worker is one of the goroutines that `ProcessJobs` starts for the chain's
list (two in production). `pc[w]` says where it stands in `ProcessChain`, and
there is one action per remote call, since between two of them everything else
may move:

| Action | Code |
|---|---|
| `EnqueueEVMJob`, `Tick` | `startScheduler`'s ticker and immediate job; a minute passes and the cursor's key ages |
| `PopJob` | `BLPop` in `ProcessJobs` |
| `GetLatestBlockNumber` | `eth_blockNumber`; the answer may lag by `MaxLag` blocks or fail |
| `ReadCursor` | `cacheManager.Get` and the branches of `ProcessChain`: fresh start, catch-up, nothing new |
| `ScanBlock` | `processBlock` up to the address-to-account map: block read, logs read, account lookup, each of which can fail |
| `MatchTransfer` | `processMatchedTransaction` / `processMatchedTokenTransfer` up to `FindOne` |
| `ProcessOrderTransaction` | `UpdateByID` on the order found |
| `BlockDone`, `SaveCursor` | the end of `processBlock`; `cacheManager.Set` and return |
| `Hang` | a request without timeout is never answered |
| `Restart` | crash, or the chain's watcher stopped and started: memory is lost, Redis and Mongo stay |
| `MineBlock`, `OpenOrder`, `SettleOrder` | the chain and the other programs (external) |

A block body has native payments and token logs, since a failure to read the
logs leaves the native ones. Account matching is by the sets that the two
queries return; the account that wins when several have one address is a
nondeterministic choice, like the order `FindOne` returns. `attempted`,
`failed`, `freshStarts` and `overtaken` are history variables: no action reads
them.

Not in the model: amounts (every order is confirmed whatever the amount), a
`Set` of the cursor that the Redis client sends again or that comes late,
`EnsureOptimalIndexes` (no effect on results), parsing of RPC answers (a
malformed one is a failure).

`DepositLedger` knows orders, transfers and the set of mined transfers only. Its
`RecordDeposit` is the watcher's one write and says what the write may do: the
transfer is mined, it pays the order, and the order has been opened, though it
need not be pending any more. `EvmDeposits` implements it under the refinement
mapping that takes the mined transfers from the chain and "pays" from deposit
accounts and addresses.

### EvmChainManager

Three kinds of goroutine: the monitor (`monitorPc`), main (`mainPc`), and one
watcher per started chain (`life`). A watcher is numbered so that an old one
that outlives its stop timeout and its successor exist side by side; `active[c]`
is the number of the one in `activeChains`. `StopIdleChain` and
`StopActiveChain` cancel a watcher's context, `ForgetChain` and `ChainStopped`
are the end of the wait, which the 30-second timeout may bring about at any
time, so they do not ask whether the watcher has gone. The signal reaches two
handlers: `CancelRoot` (the program) and `CloseStopChan` (the worker), in either
order, once both are registered. The program's is from the start, the worker's
only when `Start` has come to `waitForShutdown` (`AwaitSignal`,
`worker.go:637`), after it launched the monitor. A signal in between reaches the
first alone (`signalled` without `heard`): the context is cancelled, monitor and
watchers end, and `Start` waits for a second signal. `Exit` is the end of a
shutdown or a crash, `Boot` the next start. The sleep between starts is time the
mutex is held and no more.

### ChangeNowOrders

Workers are the checker, which `runPeriodicCheck` runs at once and every two
minutes, and the consumers that pop jobs. ChangeNow's transaction of an order is
its deal; a late deposit may move an old one on. Between the answer about a deal
and the write it calls for there are other remote calls, so each is an action:

| Action | Code |
|---|---|
| `StartCheck`, `CheckOrder` | `checkBTCBuyOrders`: the query; the status question for one of the orders found, in any order |
| `PopJob`, `AskForJob`, `LoadOrder` | `BLPop`; `processChangeNowTransaction`: the status question, `FindOne`, the switch |
| `PostWebhook`, `GiveUpWebhook` | one attempt of `makeRequest`, which a failure may follow although the request was received; the end of its loop |
| `RetryWithoutBody` | a later attempt sends the same request, whose body an attempt has read (`request_manager.go:80,121`): it fails |
| `FailOrder` | `UpdateByID` with FAILED, whatever the status is by then |
| `Restart` | the process dies and starts again |
| `MoveDeal`, `GrowOld`, `ConfirmDeposit`, `SettleOrder`, `PushJob` | ChangeNow, the clock, a chain's watcher, the node server, a program that adds jobs (external but for `ConfirmDeposit`) |

No program starts this worker today: `internal/worker/evmChangeNow/worker.go:76`
has it commented out, so that `cmd/workers/evmChangeNow` runs the EVM worker and
a health check. The model says what the worker does when it is started.

`overdue` is a history variable. The deposit amount, which
`extractTransactionAmount` reads for a log line only, is not in the model.

### BullQueue

One queue. A go-redis pipeline is a batch of commands and no transaction: others
may come in between. `AddJob` is therefore two actions for its two commands
(`PushJob`, `StoreJob`), between which a processor may pop the id. The pipelines
of `processQueue` are one action each (`ActivateJob`, `FinishJob`) as long as they
are answered: what others do between their commands they could do before or
after.

When no answer comes, the client closes the connection and sends the whole
pipeline again on another one, up to three times (`config/redis/client.go:47`).
Redis may have executed the commands of the first connection, or none, or may
execute them later, in their order. `late` holds what was sent through the
connections given up, and `Arrive` executes the next command of one. A step that
gets no answer puts its pipeline there (`Unanswered`) and either tries again or
gives up with an error. So a pipeline may be executed twice or in part, and a
command may come after the job has moved on. Every unanswered step counts as a
failure; the number of re-sends is bounded by `MaxFaults` and not by three.
`readded` and `reactivated` are history: jobs for which `AddJob`'s pipeline, or
the one that marks them active, was sent again. `HandledOnce` leaves out the
first, because `RPush` then lists the id twice; `FiledByState` leaves out both,
because a late `Set` may undo the state a job has since been given.

`ClearQueue` is one action per deleted list. The mapping of the other actions to
`processQueue` follows its loop: `PopJob`, `GetJob`, `ActivateJob`, `HandleJob`,
`FinishJob` or `RescheduleJob`.

The lists active, completed and failed are sets: their order plays no part, and
that an id can be on one of them twice, after a pipeline was executed twice, is
not told apart. A repeat job's id is its hash and a second, so two made in one
second are the same id; the wait list is a sequence, in which it may occur
twice.

`AddJob` and `ClearQueue` are reached through the HTTP interface. No program
starts `processQueue` today; the workers pop plain lists with `ProcessJobs`,
which `EvmDeposits` and `ChangeNowOrders` model. Nor does anything in the
repository consume Bull's wait list, so what `AddJob` adds waits there.
`BullQueue` says what `processQueue` guarantees when it is used. Priorities,
delays and attempts are stored with a job and read by no code.

### AccountPoller

The program `cmd/workers/solBTCTrx`: three workers in one process. A consumer
is a goroutine of `ProcessJobs` for one chain's list; its handler fills the
channel (`todo`) and waits for one result per account (`awaited`). A record in
`tasks` is an account in the hands of one of the pool's goroutines, which has
come as far as `at`:

| Action | Code |
|---|---|
| `StartUp` | `solBTCTrx.Worker.Start`; TRX reads its accounts here, once |
| `Enqueue` | `startScheduler` |
| `StartRun`, `StartTrxRun` | `BLPop` and the handler: the accounts of active users, or TRX's list |
| `Take` | a goroutine receives an account, checks its address, asks for its currency |
| `FindOrders` | `FindOrdersWithMatchingDepositAddress`, `ProcessWatchedAddress` (SOL, TRX) |
| `AskBalance`, `AskSolBalance`, `SaveBalance` | the chain's answer; the update of the account |
| `ListTransactions`, `Lookup` | the chain's list of transactions; is one in the database? |
| `CountAccounts`, `FindAccount`, `CreateAccount` | `CreateOrFindAccount` |
| `InsertTransaction` | the document is stored |
| `Hang` | a request through `http.DefaultClient` is never answered |
| `Crash` | the process is killed; `Die` is also the end of a panic |
| `Mine`, `OrderChanges`, `UserChanges`, `DeleteAccount` | the chains, the node server, the API |

The three copies of the code are one model whose actions differ by chain where
the code does. A job is lost when the answer to `BLPop` is, or when BTC or SOL
cannot read the accounts for it. Two panics are in the model: an order found by
a deposit address has no document `order`, which `ProcessWatchedAddress` asserts
(`sol/worker.go:798`, `trx/worker.go`), and the default currency has no
`currencyId`, which BTC and SOL assert. A transaction's hash is its place in the
ledger and a balance the height of the ledger it was computed from, so that a
stale balance is a smaller one. A list of transactions is the newest of those
`Involving` the account that the chain's limit allows (`Newest`). The chains'
answers about balances are up to date in the model, so that an older balance can
only come from the order of two runs.

For SOL the list has every transaction that mentions the address
(`Concerned`, `sol/worker.go:1193-1354`). Its two sides are what the last transfer
instruction says, which for a token are token accounts
(`sol/worker.go:1637-1715`), and it is stored as SEND whenever the account is not
the recipient, also when it is neither side (`Direction`). `HistoryFollowsLedger`
says what that leaves: a stored SOL transaction mentions the account, and is a
RECEIVE just when it was paid to it. `MadeAccountsAreRecipients` likewise bounds
the accounts made to recipients of transactions that mention an account of the
user, though such a recipient may be a token account of strangers.

`PollerAssumption` says that the sides of a SOL transaction are among the
accounts it mentions, that no address is the hexadecimal form of one, and that a
transaction without a recipient is a SOL one: BTC lists outputs to the account,
TRX keeps transfers only (`TransferContract`, `trx/worker.go:843`), and only SOL
guesses at the recipient from the instructions. The proof of `TypeOK` needs it,
since TRX stores recipients raw.

The transactions collection is a set: storing a document again, which every poll
does (`pollers_twice`), leaves it as it is. SOL is not part of
`BalanceNeverOlder`, because it stores 0 when the chain does not answer
(`sol/worker.go:449`).

### SocketManager

The manager's three tables change under one mutex, so each change is one action;
what is done with a reference read under it is not. An emission to a user ranges
over the slice it has read, whose array `Unregister` shifts in place: `view` is
what it sees through that slice, `shared` whether it still is the table's array,
which `append` keeps while there is room. An emission to a room ranges over the
room's own map, and a map written meanwhile may end the process. A room that
becomes empty is dropped and a later one of that name is another map, which the
emission does not see (`RangesOver`).

| Action | Code |
|---|---|
| `Register` | `HandleWebSocket` up to the start of the pumps |
| `ReaderUnregisters`, `CloseSend` | `ReadPump`'s deferred calls |
| `WriterLeaves` | `WritePump`'s end and its deferred `Close` |
| `HandlerJoins`, `HandlerLeaves` | a message's handler in a goroutine of its own, `clientJoinRoom`, `clientLeaveRoom` |
| `EmitToUser`, `EmitToRoom`, `EmitToAll`, `CreateUserRoom` | the start of an emission; `NextClient`, `Send`, `Evict`, `JoinUserRoom`, `Finish` are its steps |
| `Greet` | the "connected" event that `HandleWebSocket` sends after it has started the pumps |
| `Shutdown` | `Shutdown` |

`main.go` mounts this server under `/ws` (`interfaces/http/index.go:38`) but calls
no `Initialize`, so the manager has no `authFunc` and `HandleWebSocket` panics in
every request, which gin recovers: as the repository stands no client ever
connects. The model is of a manager that has been initialised.

What a channel holds is left out: it may be full at any time. `owed`, `told`,
`twice` and `shifted` are history. The properties allow what the code does: a
client that a shift moved under an emission's feet may be passed over, one that
joins a room after it was unregistered stays a member.

### NodeConnection

The successful dials are numbered, and the goroutines a dial starts carry its
number. `chain[n]` is the readPump of dial `n` and the reconnect it turns into,
`writer[n]` its writePump, which writes to the socket of the day and so outlives
its own connection. Flag reads and writes of `reconnect` are actions of their
own (`CheckFlag`, `SetFlag`, `ResetFlag`), since no lock is held. A second
`Close`, a send on a closed channel of ping intervals and two writers at once
are panics. `lost` is history: why nobody will dial again. No program makes a
node connection today: `main.go:112-143` has it commented out.

### Accounts, OrderStore and UseCases

A request is a goroutine that serves one call. `Accounts` has the import, one
action per remote call: `CheckOriginal` and `CreateOriginal` for the accounts it
is given, `FetchBatch`, `CheckCurrency` and `CreateCurrency` for the supported
currencies on their chains. A batch is taken as the database has it; a currency
one of the originals has, or on whose chain none of them is, is passed over when
its turn comes (`Added`, `PassedOver`). Then there are the read and the write of
an account that is refreshed or deleted (`ReadAccount`, `WriteAccount`). `Abort`
is the end of the context or a failed call, `FetchPanics` the panic that
`ImportAccounts` recovers. `SuccessIsComplete` leaves out an import that
panicked, which both handlers report as a success. `mark`, `by`, `offered`,
`missed` and `moved` are history. `SetAccount` is the `$set` of a whole account.
`convertAccountDomainToModel` does not fill `IsPlayer`, the inflow and outflow
limits and `BenchStatus`, which have no `omitempty`, so that a write-back resets
them: these fields are not in the model.

`OrderStore` has the five operations that write an order: `CreateOrder`, and
`Read` and `Write` with what the operation makes of the order in between
(`Merge`, `SetFields`, `UpdateStatus`, `MarkAsDeleted`). `SetOrder` is the
conversion of the domain order to a document and Mongo's `$set`: a field that
`omitempty` leaves out stays. `MaxOrders` is at least one, since one order may be
there from the start. `RecordDeposit` is the EVM watcher's write.

`UseCases` composes the two over `call`, with INSTANCE: a step of a request is a
step of one of them that leaves the other's documents alone. No program calls
the operations of the order use case or `DeleteAccount` today; the model says
what they guarantee when they are called.

### BlockMonitors

The four monitors are copies of one loop: `ReadCursor`, `ReadHead`, then
`SaveFresh` or the loop over the heights (`TryBlock`; `TrySlot` and `NextBatch`
for Solana's batches) and `SaveCursor`. A block that cannot be had is passed over
as in the code; `Fail` is an error that ends the job. `OutOfTime` and `NextBatch`
are what the 45 seconds of Solana's context do: between slots the cursor is taken
back to the last slot done, between batches it is not. `StartBlockMonitor` and
`StoreStart` store a height without a scan. Redis may drop the cursor at any
moment (`ExpireCursor`): its time to live, 120 seconds for Bitcoin, is shorter
than a block interval. `tried`, `dropped` and `origin` are history.

`RegisterBlockchainWorkers` is called by no program today. The jobs of
Bitcoin's, the EVM chains' and Tron's monitors are popped from plain lists; those
of Solana's by its test alone, since `RegisterSolanaBlockMonitor`
(`solana_block_monitor.go:905`) calls no `ProcessJobs`. What `StartBlockMonitor`
schedules goes to a Bull list that no monitor reads, so jobs are pushed by an
external program here.

## Runs

| Run | Shows |
|---|---|
| `evm_orders` | type invariant; racing workers confirm orders by their own deposits only; the ledger is implemented; the cursor goes back only by a run that another one has overtaken |
| `evm_single` | the cursor covers no block that was neither tried nor jumped over by a fresh start, and reaches the head again and again; a deposit to a pending order is noticed |
| `chains` | type invariant; no watcher leaked, no dead one listed; chains with orders are watched, others released; a signal that `waitForShutdown` hears ends the process |
| `changenow` | type invariant, retries included; orders are failed and webhooks sent only for a cause; finished and failed transactions of open orders are acted on |
| `queue_jobs` | type invariant; a job is handled at most once and filed under its state, but for one whose pipeline was sent again, and is handled unless it is known to be lost |
| `pollers` | type invariant; a consumer waits for exactly the results to come; stored transactions are what the ledger says of their accounts, accounts are made for recipients only, balances never go back, and a transaction that stays listed is stored |
| `sockets` | type invariant; the tables agree; an emission comes to everyone it is meant for; a dead peer's goroutines end |
| `node` | type invariant; one connection at a time, served while it is up, replaced when it breaks |
| `usecases` | type invariant; duplicates come from overlapping imports only; a success is complete; deleted accounts stay deleted; a write of an order changes only what was given |
| `monitors` | no block is left out that the cursor says was asked for; every job ends |
| `evm_ttl` (violation) | blocks after a fresh start are skipped |
| `pollers_twice` (violation) | a transaction is stored again by the next poll |

The shipped program has two consumers per chain, and with two the cursor may go
back: a slow run writes an older head. `CursorGoesBackByOverlap` says that this
is the only way, and how far it goes. The cover of the cursor
(`NoGapAboveFreshStart`) does not depend on it and is proved for any number of
consumers. Two things that a reader might expect do not hold: that a recorded
deposit is never overwritten (two runs may both have found an order pending),
and that nothing of a socket client is left behind (a handler may let it join a
room later).

### Bounds

`MaxBlocks`, `MaxJobs` and `MaxFaults` bound the chain, the list and the number
of failures and restarts; `MaxHangs` the requests that hang at a time;
`MaxLives` the watchers of a chain that exist at a time; `MaxStops` signals and
crashes, two in `chains`: a second signal is what ends a process whose worker
missed the first. The bounds are the smallest with which the cases of interest
happen: two overlapping runs need two workers and a second job while the first
runs (a job popped makes room for the next, so `MaxJobs = 1` is enough); the
cursor goes back when a run that has read its head waits while another one
catches up with a block mined since, which needs two blocks; the order race
needs two orders that share an account and two transfers to it. Times are scaled
in most runs: what matters is whether a cursor outlives the interval
(`FreshTTL > Interval`) or not (`UpdateTTL < Interval`). `evm_ttl` uses the
repository's own numbers, 3, 60 and 1 minutes. Runs with a liveness property use
no symmetry.

`MaxLives` is a bound in a guard: with `MaxLives = 1` in `chains` a watcher
is not started before its predecessor has removed its key, which a fair
predecessor does. So this run has no old watcher that outlives its stop timeout
beside its successor; with two lives the liveness check does not end in
reasonable time. `NoLeak` and `OneWatcher` are proved for any number of lives.

`changenow` has one order the periodic check selects and one it does not, so
that the checker and a consumer work on the same order and the consumer on
another one too; three failures exhaust a webhook's two attempts and leave one
for a crash.

`queue_jobs` has one regular job, one repeat job, two processors and room for
two waiting jobs: enough for a job that waits behind one that repeats, for a pop
between `PushJob` and `StoreJob`, and for `ClearQueue` to meet a job in every
stage. The clock moves once, so that a repeat job gets a second id. One failure
is one step without an answer, so at most one pipeline is sent again or has
commands that come late. Two failures were checked in smaller instances: one
processor with the repeat job, and two processors without it. The theorems have
no bound.

`pollers` lets the program poll one chain at a time, with two transactions and
room for new accounts: two transactions, because which of them a limit of one
leaves out, and the order of TRX's two batches, shows only then. One failure,
hang or crash and one change by another program meet a poll at any point. That
consumers share nothing but the process, and count their own results, is proved
for any number of them (`ResultsAlwaysAddUp`).

`sockets` has two connections of one user, a room and one emission: enough for a
slice that is shifted under it, a member that joins or leaves meanwhile, an
eviction of the other client, and the end of a client whose peer is gone. `node`
has three dials and two attempts: a reconnect that succeeds after a failure, a
break right after it, and writePumps of three connections that meet.

`usecases` has two requests, three currencies on two chains fetched one at a
time, imports of one and of two originals, one of them without a currency, room
for four accounts and one order, and one change by other programs: two imports
overlap at every step, a currency is added or withdrawn between two batches, and
an order is changed between its read and its write.

`monitors` enables one kind of chain at a time, since the kinds share nothing,
with two workers for the EVM chain. Four heights make a scan of three, hence two
batches of Solana's; a node lags by one; a job waits while another runs.

### Fairness

`EvmDeposits`: weak fairness of the clock, the ticker, each worker's pop and
each worker's own steps. Goroutines are scheduled, calls to Redis and Mongo
return or fail, and requests to the RPC service do unless they are among the
`MaxHangs` that hang. Failures are bounded by `MaxFaults`, so a fair behaviour
has a suffix without new ones; an answer that lags behind the head counts as a
failure. Mining stops at `MaxBlocks`: that the cursor reaches the head says that
it catches up once the chain has stopped growing. `evm_single`, which checks
progress, has no hanging request (`MaxHangs = 0`), since one that hangs for ever
keeps its consumer for ever. Nothing is assumed of the other programs.

`EvmChainManager`: weak fairness of every goroutine. Two assumptions are
strong: `MonitorStop`, because a Go select that has several ready cases picks
one at random and does not overlook one for ever; and a query that succeeds,
because it does not fail for ever. Orders may change at any time and
signals need not arrive; `Start` comes to `waitForShutdown` in the end.

`ChangeNowOrders`: weak fairness of the checker and of each consumer. The ticker
goes on, and every call returns, since the clients of the provider and of the
request manager have timeouts of 30 and 10 seconds. Failures are bounded.

`BullQueue`: weak fairness of each processor's loop and of starting it again
after a shutdown or a crash, both of which count as failures and are bounded.
Nothing is assumed of producers and of `ClearQueue`.

`AccountPoller`: weak fairness of starting the program, of the tickers, of each
consumer's pop and of each consumer's goroutines, except one whose request
hangs. BTC's requests have a timeout of 10 seconds; those of SOL and TRX have
none, which is why `HistoryIsKept` asks that none hangs for ever.

`SocketManager`: weak fairness of each client's two pumps: their read deadline
and pings make a dead peer known. Nothing is assumed of handlers and emissions.

`NodeConnection`: weak fairness of the readPump with the reconnect it starts, of
the writePump, and of `Close` once it has begun. A dial returns in the end; that
one succeeds is not assumed.

`BlockMonitors`: weak fairness of each worker inside a job. Solana's, Bitcoin's
and Tron's requests have timeouts; an EVM node may leave one without an answer,
which is `Hang`. Nothing is assumed of jobs, and `UseCases` needs no fairness.

## What is proved

The proof modules prove `Spec => []Inv` by an inductive strengthening that TLC
has checked first. The only assumptions are the named ones on the constants;
the bounds are arbitrary naturals, so the theorems cover
every number of workers, blocks, accounts, requests and failures.

- `TypeCorrect`: `TypeOK` of `EvmDeposits`, which is inductive. `RunShape` is
  part of it because no step of a run is well typed without it: `Head(todo)`
  must exist and the block scanned must be in the chain.
- `NoGap`: `NoGapAboveFreshStart` says nothing of a run under way, so `CoverInv`
  adds `RunCover`: what a run may assume of the cursor it read (it was covered
  then, and covered blocks stay so, since `attempted` and `freshStarts` only
  grow) and that it has tried every block from there to the present one. When it
  writes the head, the two parts join.
- `CursorOnlyOvertaken`: `CursorGoesBackByOverlap`, for any number of consumers.
  `BehindInv` says that the cursor a scanning run has read is below its head,
  and that the stored one is too, unless another run has written meanwhile; a
  run to which that has happened is in `overtaken`, a history variable.
- `Confirmed`: `DepositInv` carries the fact that a transfer pays an account
  from the lookup to the update: what is in `todo` is mined, the account map
  names accounts with the right address, and the order about to be written owns
  the account and is no longer `CREATED`, whatever others did to it since.
- `Implements`: `Spec => LedgerSpec`, from the same two invariants: every action
  that touches orders or the chain is a ledger action, every other stutters.
- `ManagerTypeCorrect`, `NoLeak`, `OneWatcher`, `MapIsTrue`: from `WatcherInv`.
  `LockInv` says who works under the mutex, `StopInv` that the watchers being
  stopped are in the map and cancelled, `MapInv` that no others are cancelled.
  The first two are needed because a watcher taken out of the map must be dead
  by then, the third for the converse. `EvmWorker_proofs` extends both modules
  of the EVM worker, which is why the manager's specification and type invariant
  have names of their own (`ManagerSpec`, `ManagerTypeOK`).
- `WorkerTypeCorrect`; `NoFalseAlarms`: `AlarmInv` adds to `NoFalseAlarm` that
  an old deal still waiting is known to be overdue (`OldKnown`) and that a
  verdict in hand is true (`VerdictTrue`). It stays true however long the worker
  takes, because deals that failed or finished do not change and `overdue` only
  grows.
- `ResultsAlwaysAddUp`: `PoolInv` adds to `ResultsAddUp` that what is counted is
  finite (a run's accounts are ids, and the accounts stay a sequence) and that a
  task keeps its consumer and its account. A consumer that pops a job has
  nothing left to do, and every step of a goroutine moves, ends or starts one
  task of one consumer, or ends them all with the process.
- `PollerTypeCorrect`, `HistoryAlwaysFollows`, `StrangersAreRecipients`,
  `BalancesGetNewer`: `PollerInv`. `WorkInv` carries what the lists are chosen
  by to the insertion: a consumer has accounts of its chain only, the
  transactions a task has left concern its account, and the recipient's account
  it is about to write has that address. What is stored stays as the ledger has
  it because ledger entries, chains and addresses of accounts never change.
  `BalanceInv` is about a consumer that is alone on its chain: the height a task
  asked at is not below that of the stored balance, since every account is with
  one task at a time. That `Newest` exists (a finite set of places can be put in
  descending order) is a lemma, by the well-foundedness of strict inclusion on
  finite sets.
- `QueueTypeCorrect`, `AlwaysHandledOnce`, `AlwaysFiledByState`: `QueueInv`. Its
  part `PlaceInv` follows a regular job: one producer adds it, in person or by
  commands still under way, never both; nobody has handled or filed it before it
  is popped, at most one processor holds it, and while one does it is neither
  waiting nor settled. `FileInv` says that what is still under way about a job
  gives it the state it has or is about to have: commands that mark it active
  come late only if their processor has dropped it, commands that file it have
  the one result its handler returned. Both are stated of the jobs whose
  pipelines were not sent again.
- `ConnectionTypeCorrect`, `AlwaysOneConnection`, `AlwaysServed`:
  `ConnectionInv` adds that a dial's chain begins when the dial succeeds, that a
  chain past its `Socket.Close` has closed its own dial's socket, that while
  `Connected` is true the last dial's readPump reads, and that while the socket
  lives its own writePump runs. The last is why an old writePump's
  `Socket.Close` cannot hit a live connection unnoticed.
- `MonitorsTypeCorrect`, `NothingSkipped`: `MonitorsInv`. `JobInv` carries
  through a job that everything below the next height was asked for, from the
  cursor it read, and that the height it stores is not below. `tried`, `dropped`
  and `origin` only grow, so other jobs, expiry and crashes cannot take it away.
- `DuplicatesOnlyFromOverlap`, `DeletedAccountsStay`, `WritesKeepTheRest`:
  `UseCasesInv`. `ImportInv` says of a request about to create an account that
  the documents up to its mark are unlike it and those after it are not its own;
  `WriteInv` and `StoreInv` say that what a request has read is still there,
  with the same keys, and was not deleted when it was read. A step of one
  request leaves what the others know, because documents are only added, and
  keys and marks of deletion never change back.
- `UseCasesTypeCorrect`, `SuccessAlwaysComplete`: `ImportsInv`, that is
  `UseCasesInv` and `SuccessInv`. `SuccessIsComplete` is about a call that is
  over; `MadeInv` follows it from its start (the accounts it has made are those
  it will name, but for those whose currency it has given up on), and
  `ProgressInv` says that there are accounts for the originals passed, and that
  a currency listed from the start is settled, in the batch or still to be
  fetched. Batches that shift are the case `moved`, for which the code promises
  nothing.
- `SocketTypeCorrect`, `TablesAlwaysAgree`, `EveryoneIsToldOnce`: `SocketInv`.
  The tables agree by themselves, as the mutex lets one change pass at a time;
  what needs an invariant is the emission outside it. `SliceInv` says of an
  unshifted one that its view has nobody twice, that those it owes are still
  ahead, and that its places are those of the table while the array is shared;
  `MapInv` says the same of a room. An emission only sees clients that have been
  registered once (`Known`), so what `append` writes into the array is new to
  it.

Every safety property of a passing run is stated by a theorem. Model-checked
only: liveness under fairness (`DepositNoticed`, `CursorReachesHead`,
`WatchersFollowOrders`, `SignalEndsProcess`, `OutcomeIsActedOn`,
`WaitingIsHandled`, `HistoryIsKept`, `DeadPeerIsReleased`, `BrokenIsReplaced`,
`JobEnds`), which is out of the prover's reach. There are no recursive
operators. A sequence that the code makes of another one is chosen by what it
must satisfy (`Newest`, `WithdrawCurrency`), because nothing can be proved of
`SelectSeq` without induction over sequences.

## What the models found

Checked by a run that TLC ends with a counterexample:

1. The cursor is kept 60 seconds after a catch-up (`processor.go:242`, whose
   comment says one hour), while jobs come every 3 minutes: every second run is
   a fresh start that scans the head alone, and the blocks in between are never
   scanned (`evm_ttl`).
2. The pollers look a transaction up by `signature` and store it with `hash`, so
   each poll stores every listed transaction again (`pollers_twice`).

Part of the models, and allowed for by their properties:

3. The case-insensitive account lookup is used only if no account of the block
   matches exactly (`processor.go:651`).
4. A watcher can be started after `stopAllChains` has returned; it dies when the
   program's context is cancelled (`worker.go:467`).
5. A queued ChangeNow job whose status question fails is not retried, though its
   handler returns nil "so job will retry" (`changenow/worker.go:499`).
6. A repeat job's definition is stored under its first id, so the second
   occurrence is not rescheduled, and its handler is given no data:
   `getRepeatJob` looks under another key (`managers/queue/queue.go`).
7. An order PENDING on an address that SOL or TRX polls ends the program, and
   does so again after each start until the order moves on
   (`sol/worker.go:798`).
8. Each poll makes a new account for a SOL transaction without a recipient: the
   empty address is not stored, so the account is not found again.
9. TRX asks the API for transactions without asking for base58 addresses: the
   accounts it makes for recipients of the coin have addresses it rejects later,
   and a coin it sends is stored as received.
10. `DeleteOrder` does not delete: `MarkAsDeleted` sets the zero time
    (`src/types/order.go:88`), which the driver leaves out of the `$set`.
11. A panic in `ImportAccounts` is recovered into nil and nil, which both
    handlers report as success with no ids, although accounts may exist.
12. `CheckDuplicateAccount` never finds an account without a currency: the filter
    asks for the zero id and the document has no such field.
13. A currency added or withdrawn between two batches of an import shifts the
    next batch: one comes twice, or none.
14. When Solana's 45 seconds are over between two batches, the slots left are
    never asked for, though the comment says "Update currentSlot to the last
    fully processed slot" (`solana_block_monitor.go`); at the first slot of a
    later batch, the whole job is done again.
15. Bitcoin's cursor is kept 120 seconds, blocks come every ten minutes: most
    jobs are a fresh start, which publishes nothing.
16. A break of the node connection that finds the flag of the reconnect before
    still set is not followed by another one; nor is the last failed attempt.
17. An emission to a user passes over a client whose place in the slice moved
    down meanwhile; a handler may put an unregistered client into a room, where
    it stays; an event sent after the channel was closed panics.
18. A SIGTERM that arrives while the EVM worker starts up is heard by the program
    alone; the worker's `Start` then waits for a second one (`worker.go:637`).
19. A run that another one has overtaken takes the cursor back, and the blocks in
    between are scanned again (`processor.go:242`).
20. `AddJob` lists a job twice when its pipeline is sent again, and the job is
    handled twice; a pipeline that is sent again, or comes late, may undo a later
    state (`queue.go:173`, `config/redis/client.go:47`).
21. SOL stores a transaction that only mentions the account as sent by it, and
    makes accounts for token accounts (`sol/worker.go:1433`, `1702`).
22. The retries of a webhook whose request went out have no body
    (`request_manager.go:80,121`).
23. ChangeNow's FAILED overwrites whatever the order has become meanwhile
    (`changenow/worker.go:327`).

## Not modelled

- Amounts and their conversions, in the watcher, the pollers and the providers.
- `CreateAccount` and the wallet operations, which no program calls; the sums of
  portfolios, which are read-only.
- What handlers of socket messages do, beyond joining and leaving rooms; the
  diagnostics of the node connection; what is done with a published block; the
  backup jobs of the block monitors, which do nothing, and `StopBlockMonitor`,
  which touches a list that no monitor reads.
- The event manager (a goroutine per handler, the one handler logs), the event
  service (one request, without state), the Redis client's singleton (asked for
  once), the remote API clients of the providers, the HTTP and gRPC handlers
  beyond the use cases they start, configuration, secrets and logging: they keep
  no state that two steps could disagree about. The answers, failures and delays
  of the remote APIs are in the models of their callers.

## Plan

1. `EvmDeposits`, `DepositLedger`, `EvmChainManager`, `ChangeNowOrders`, each with
   proofs: done.
2. `BullQueue`, `AccountPoller`, `NodeConnection`, `BlockMonitors`, `OrderStore`,
   `Accounts` and their composition `UseCases`, each with proofs: done.
3. `SocketManager`, the whole of `AccountPoller` and the imports of `UseCases`,
   each with proofs: done.
4. Left: the chain manager composed with the watchers it starts, so that stopping
   a chain, its cursor's expiry and its restart are one behaviour.
