--------------------------- MODULE AccountPoller ---------------------------
(***************************************************************************)
(* The program solBTCTrx: internal/worker/btc, sol and trx in one process. *)
(*                                                                         *)
(* Each of the three pushes a job on its Redis list every few minutes.  A  *)
(* consumer that pops one reads the chain's accounts (TRX reads them once, *)
(* when it starts) and hands them through a channel to a pool of           *)
(* goroutines.  A goroutine stores the account's balance and copies its    *)
(* recent transactions into the database, making an account for each       *)
(* recipient it does not find; it sends one result per account, and the    *)
(* consumer waits for all of them.  A panic in any goroutine ends the      *)
(* program.                                                                *)
(*                                                                         *)
(* A task is an account in the hands of a goroutine.  A transaction's hash *)
(* is its place in the ledger, and a balance is the height of the ledger   *)
(* it was computed from: amounts are not modelled, nor are transfers of    *)
(* nothing, which TRX skips.  The portfolio keys BTC and TRX delete after  *)
(* storing a balance are read by no program of the repository.             *)
(***************************************************************************)
EXTENDS Integers, Sequences, FiniteSets, SequencesExt

CONSTANTS
  Consumers,   \* goroutines that pop jobs
  Settings,    \* sets of consumers the program may be told to start
  ChainOf,     \* consumer -> the chain it works for
  PoolSize,    \* chain -> maxWorkers
  Addresses, NoAddress,
  Users,
  Imported,    \* the accounts there are at first
  Transfers,   \* what the ledgers may contain
  Signed,      \* transfers another program stores under their signature
  Limit,       \* transactions listed per poll, by chain and kind
  Watched,     \* addresses orders may wait for
  MaxLedger, MaxAccounts, MaxJobs, MaxFaults, MaxChanges  \* bounds

Chains == {"BTC", "SOL", "TRX"}
Kinds == {"coin", "token"}

\* The addresses in raw_data of a TRX transaction are in hexadecimal form,
\* those of accounts and of token transfers in base58.
Hex(a) == <<"hex", a>>
StoredAddresses == Addresses \cup {Hex(a) : a \in Addresses} \cup {NoAddress}

\* currency: what getSupportedCurrency finds; "none" for the default document,
\* which has no currencyId.
Account ==
  [chain : Chains, user : Users, addr : StoredAddresses,
   currency : Kinds \cup {"none"}, deleted : BOOLEAN, balance : 0..MaxLedger]

\* from and to: what the poller makes of a transaction.  For SOL they are the
\* sides of its last transfer instruction, wallets or token accounts, or, if it
\* has none, the payer of the fee and nobody; mentions: the accounts it uses.
Transfer ==
  [chain : Chains, kind : Kinds, from : Addresses, to : Addresses \cup {NoAddress},
   mentions : SUBSET Addresses]

ASSUME PollerAssumption ==
  /\ IsFiniteSet(Consumers)
  /\ \A a \in Addresses : Hex(a) \notin Addresses
  /\ ChainOf \in [Consumers -> Chains]
  /\ Settings \subseteq SUBSET Consumers
  /\ PoolSize \in [Chains -> Nat \ {0}]
  /\ Imported \in Seq(Account)
  /\ \A i \in DOMAIN Imported :
       /\ Imported[i].addr \in Addresses
       /\ Imported[i].balance = 0 /\ ~Imported[i].deleted
  /\ Transfers \subseteq Transfer
  /\ \A tr \in Transfers :
       /\ tr.to = NoAddress => tr.chain = "SOL"
       /\ tr.chain = "SOL" => {tr.from, tr.to} \subseteq tr.mentions \cup {NoAddress}
  /\ Signed \subseteq Transfers
  /\ Limit \in [Chains \X Kinds -> Nat]
  /\ Watched \subseteq Addresses
  /\ {MaxLedger, MaxAccounts, MaxJobs, MaxFaults, MaxChanges} \subseteq Nat
  /\ Len(Imported) <= MaxAccounts

VARIABLES
  ledger,      \* the transactions mined so far, of all chains
  accounts,    \* the accounts collection; an id is an index
  active,      \* users active in the last three days
  waiting,     \* addresses a PENDING order has a deposit account with
  history,     \* the transactions collection, each document once
  jobs,        \* jobs on the Redis list of each chain
  changes,     \* changes of users, orders and deletions of accounts so far
  started,     \* the consumers the settings ask for
  up,          \* the program runs
  trxAccounts, \* the accounts TRX read when it started
  todo,        \* the channel jobs of each consumer's run
  awaited,     \* results a consumer still waits for; 0 when it has no run
  tasks,       \* accounts in the hands of goroutines
  faults       \* failed calls and crashes so far

world == <<ledger, active, waiting, changes, started>>
run == <<todo, awaited>>
program == <<up, trxAccounts>>
vars == <<world, accounts, history, jobs, program, run, tasks, faults>>

Height == Len(ledger)
Ids == 1..Len(accounts)
Addr(id) == accounts[id].addr
ChainFor(t) == ChainOf[t.by]
TasksOf(k) == {t \in tasks : t.by = k}
TaskSteps == {"orders", "balance", "save", "list", "lookup", "count", "find", "create", "insert", "hung"}
Task ==
  [by : Consumers, id : 1..MaxAccounts, at : TaskSteps, height : 0..MaxLedger,
   batch : Kinds, left : Seq(1..MaxLedger), receiver : 0..MaxAccounts]

Fault == faults < MaxFaults /\ faults' = faults + 1
NoFault == UNCHANGED faults

At(t, step) == up /\ t.at = step
Continue(t, next) == tasks' = (tasks \ {t}) \cup {next} /\ UNCHANGED run
Goto(t, step) == Continue(t, [t EXCEPT !.at = step])

\* The goroutine sends the account's result, an error or nil, and takes the
\* next account.
Result(t) ==
  /\ tasks' = tasks \ {t}
  /\ awaited' = [awaited EXCEPT ![t.by] = @ - 1]
  /\ UNCHANGED todo

\* The end of the process: what is in memory is gone.
Die ==
  /\ up' = FALSE
  /\ trxAccounts' = {}
  /\ todo' = [k \in Consumers |-> {}]
  /\ awaited' = [k \in Consumers |-> 0]
  /\ tasks' = {}
  /\ UNCHANGED <<world, accounts, history, jobs>>

\* getActiveAccountsByChainId.
ActiveAccounts(c) ==
  {id \in Ids : accounts[id].chain = c /\ ~accounts[id].deleted /\ accounts[id].user \in active}

\* What CountByAddress and GetByAddress match.  The account made for an empty
\* address has no field walletAddress, so it is not found again.
Living(a) == {id \in Ids : Addr(id) = a /\ a # NoAddress /\ ~accounts[id].deleted}
-----------------------------------------------------------------------------
Init ==
  /\ ledger = <<>>
  /\ accounts = Imported
  /\ active = Users
  /\ waiting = {}
  /\ history = {}
  /\ jobs = [c \in Chains |-> 0]
  /\ changes = 0
  /\ started \in Settings
  /\ up = FALSE
  /\ trxAccounts = {}
  /\ todo = [k \in Consumers |-> {}]
  /\ awaited = [k \in Consumers |-> 0]
  /\ tasks = {}
  /\ faults = 0

\* The three workers start; each scheduler pushes its first job.  If TRX
\* cannot read its accounts, Start cancels the others and the program ends.
StartUp ==
  /\ ~up
  /\ \/ /\ NoFault
        /\ up' = TRUE
        /\ trxAccounts' = ActiveAccounts("TRX")
        /\ jobs' = [c \in Chains |-> IF jobs[c] < MaxJobs THEN jobs[c] + 1 ELSE jobs[c]]
     \/ Fault /\ UNCHANGED <<program, jobs>>
  /\ UNCHANGED <<world, accounts, history, run, tasks>>

\* The ticker of startScheduler.  The client sends a push whose reply is lost
\* again, which adds the job once more, as the next tick does.
Enqueue(c) ==
  /\ up
  /\ jobs[c] < MaxJobs
  /\ jobs' = [jobs EXCEPT ![c] = @ + 1]
  /\ UNCHANGED <<world, accounts, history, program, run, tasks, faults>>

\* Mutant: the handler returns while its goroutines still work.
ConsumerFree(k) == todo[k] = {}

ConsumerIdle(k) == awaited[k] = 0

\* A consumer pops a job and its handler fills the channel.  Without accounts
\* there is no run.
Run(k, ids) ==
  /\ todo' = [todo EXCEPT ![k] = ids]
  /\ awaited' = [awaited EXCEPT ![k] = @ + Cardinality(ids)]

Pop(k) ==
  /\ up
  /\ k \in started
  /\ ConsumerIdle(k)
  /\ jobs[ChainOf[k]] > 0
  /\ jobs' = [jobs EXCEPT ![ChainOf[k]] = @ - 1]
  /\ UNCHANGED <<world, accounts, history, program, tasks>>

\* The handlers of BTC and SOL read the accounts now, and may fail to.  A pop
\* whose reply is lost loses its job.
StartRun(k) ==
  /\ ChainOf[k] # "TRX"
  /\ Pop(k)
  /\ \/ NoFault /\ Run(k, ActiveAccounts(ChainOf[k]))
     \/ Fault /\ UNCHANGED run

\* The handler of TRX has them in its closure.
StartTrxRun(k) ==
  /\ ChainOf[k] = "TRX"
  /\ Pop(k)
  /\ \/ NoFault /\ Run(k, trxAccounts)
     \/ Fault /\ UNCHANGED run
-----------------------------------------------------------------------------
\* isValidTronAddress accepts the base58 form alone; BTC's check of the form
\* refuses no account there is but one with an empty address, as SOL's does.
Valid(c, a) == IF c = "TRX" THEN a \in Addresses ELSE a # NoAddress

FirstStep(c) == IF c = "BTC" THEN "balance" ELSE "orders"
FirstTask(k, id) ==
  [by |-> k, id |-> id, at |-> FirstStep(ChainOf[k]), height |-> 0,
   batch |-> "coin", left |-> <<>>, receiver |-> 0]

\* Mutant: an account with a bad address is passed over, without a result.
TakeOrSkip(k, id) ==
  /\ up
  /\ id \in todo[k]
  /\ Cardinality(TasksOf(k)) < PoolSize[ChainOf[k]]
  /\ NoFault
  /\ todo' = [todo EXCEPT ![k] = @ \ {id}]
  /\ tasks' = IF Valid(ChainOf[k], Addr(id)) THEN tasks \cup {FirstTask(k, id)} ELSE tasks
  /\ UNCHANGED <<awaited, world, accounts, history, jobs, program>>

\* A goroutine receives an account, checks its address and asks for its
\* supported currency; if one of them fails, the result is an error.
Take(k, id) ==
  /\ up
  /\ id \in todo[k]
  /\ Cardinality(TasksOf(k)) < PoolSize[ChainOf[k]]
  /\ todo' = [todo EXCEPT ![k] = @ \ {id}]
  /\ \/ /\ NoFault
        /\ Valid(ChainOf[k], Addr(id))
        /\ tasks' = tasks \cup {FirstTask(k, id)}
        /\ UNCHANGED awaited
     \/ /\ IF Valid(ChainOf[k], Addr(id)) THEN Fault ELSE NoFault
        /\ awaited' = [awaited EXCEPT ![k] = @ - 1]
        /\ UNCHANGED tasks
  /\ UNCHANGED <<world, accounts, history, jobs, program>>

\* FindOrdersWithMatchingDepositAddress, and ProcessWatchedAddress if there are
\* some: it asserts that the field "order" of an order is a document, which no
\* order has, and panics.
FindOrders(t) ==
  /\ At(t, "orders")
  /\ \/ NoFault /\ Addr(t.id) \notin waiting /\ Goto(t, "balance") /\ UNCHANGED program
     \/ Fault /\ Result(t) /\ UNCHANGED program
     \/ NoFault /\ Addr(t.id) \in waiting /\ Die
  /\ UNCHANGED <<world, accounts, history, jobs>>

Answered(t) ==
  NoFault /\ Continue(t, [t EXCEPT !.at = "save", !.height = Height])

\* The chain is asked for the balance.  BTC and TRX give up if it does not
\* answer.
AskBalance(t) ==
  /\ At(t, "balance")
  /\ ChainFor(t) # "SOL"
  /\ Answered(t) \/ (Fault /\ Result(t))
  /\ UNCHANGED <<world, accounts, history, jobs, program>>

\* SOL logs the error and goes on with a balance of 0, that of an empty ledger.
AskSolBalance(t) ==
  /\ At(t, "balance")
  /\ ChainFor(t) = "SOL"
  /\ Answered(t) \/ (Fault /\ Goto(t, "save"))
  /\ UNCHANGED <<world, accounts, history, jobs, program>>

SaveBalance(t) ==
  /\ At(t, "save")
  /\ \/ /\ NoFault
        /\ accounts' = [accounts EXCEPT ![t.id].balance = t.height]
        /\ Continue(t, [t EXCEPT !.at = "list", !.height = 0])
     \/ Fault /\ Result(t) /\ UNCHANGED accounts
  /\ UNCHANGED <<world, history, jobs, program>>
-----------------------------------------------------------------------------
\* Places of the ledger, newest first.
Newest(S) ==
  CHOOSE s \in [1..Cardinality(S) -> S] : \A i, j \in DOMAIN s : i < j => s[i] > s[j]
FirstOf(s, n) == SubSeq(s, 1, IF Len(s) < n THEN Len(s) ELSE n)

\* Whom a chain lists a transaction for.
Concerned(p) ==
  IF ledger[p].chain = "SOL" THEN ledger[p].mentions ELSE {ledger[p].from, ledger[p].to}

Involving(c, kind, a) ==
  {p \in 1..Height : ledger[p].chain = c /\ ledger[p].kind = kind /\ a \in Concerned(p)}

\* BTC lists the address's unspent outputs; a later transfer of its own spends
\* them all.
Unspent(a) ==
  {p \in 1..Height :
    /\ ledger[p].chain = "BTC" /\ ledger[p].to = a
    /\ \A q \in p+1..Height : ledger[q].chain = "BTC" => ledger[q].from # a}

\* SOL lists the newest transactions with the address among their accounts,
\* whatever they do with it.
Signatures(a) == Involving("SOL", "coin", a)

\* TRX lists transfers of the coin and, in a second batch, of the account's token.
NativeTransactions(a) == Involving("TRX", "coin", a)
TokenTransactions(a) == Involving("TRX", "token", a)

Found(c, kind, a) ==
  CASE c = "BTC" -> Unspent(a)
    [] c = "SOL" -> Signatures(a)
    [] c = "TRX" /\ kind = "coin" -> NativeTransactions(a)
    [] c = "TRX" /\ kind = "token" -> TokenTransactions(a)
Listed(c, kind, a) == FirstOf(Newest(Found(c, kind, a)), Limit[<<c, kind>>])

\* Mutant: an account without transfers of the coin is done.
NextBatchAfterTransfers(t) ==
  /\ ChainFor(t) = "TRX" /\ t.batch = "coin" /\ accounts[t.id].currency = "token"
  /\ t.left # <<>>

\* The end of a batch, or a failure to list it, which only TRX survives.
HasNextBatch(t) ==
  ChainFor(t) = "TRX" /\ t.batch = "coin" /\ accounts[t.id].currency = "token"

EndBatch(t) ==
  IF HasNextBatch(t)
  THEN Continue(t, [t EXCEPT !.at = "list", !.batch = "token", !.left = <<>>, !.receiver = 0])
  ELSE Result(t)

ListTransactions(t) ==
  LET found == Listed(ChainFor(t), t.batch, Addr(t.id))
  IN  /\ At(t, "list")
      /\ \/ NoFault /\ found # <<>> /\ Continue(t, [t EXCEPT !.at = "lookup", !.left = found])
         \/ NoFault /\ found = <<>> /\ EndBatch(t)
         \/ Fault /\ EndBatch(t)
      /\ UNCHANGED <<world, accounts, history, jobs, program>>

\* Mutant: the loop goes on after the last transaction.
NextOrNone(t) ==
  IF Len(t.left) > 0
  THEN Continue(t, [t EXCEPT !.at = "lookup", !.left = Tail(@), !.receiver = 0])
  ELSE EndBatch(t)

\* The loop goes on with the next transaction.
NextTransaction(t) ==
  IF Len(t.left) > 1
  THEN Continue(t, [t EXCEPT !.at = "lookup", !.left = Tail(@), !.receiver = 0])
  ELSE EndBatch(t)

\* Is it in the database already?  The lookup is by "signature", a field the
\* pollers' own documents do not have.  If not, its details are asked for.
Lookup(t) ==
  /\ At(t, "lookup")
  /\ \/ NoFault /\ ledger[Head(t.left)] \notin Signed /\ Goto(t, "count")
     \/ NoFault /\ ledger[Head(t.left)] \in Signed /\ NextTransaction(t)
     \/ Fault /\ NextTransaction(t)
  /\ UNCHANGED <<world, accounts, history, jobs, program>>
-----------------------------------------------------------------------------
\* The recipient whose account CreateOrFindAccount is asked for.  An output's
\* is the account's own address; SOL takes what it makes of the instructions,
\* a token account for a token and perhaps no address at all; TRX the raw one.
Recipient(p) ==
  IF ledger[p].chain = "TRX" /\ ledger[p].kind = "coin" THEN Hex(ledger[p].to) ELSE ledger[p].to

\* CountByAddress, whatever the chain and the user.
CountAccounts(t) ==
  /\ At(t, "count")
  /\ \/ NoFault /\ Goto(t, IF Living(Recipient(Head(t.left))) = {} THEN "create" ELSE "find")
     \/ Fault /\ NextTransaction(t)
  /\ UNCHANGED <<world, accounts, history, jobs, program>>

\* GetByAddress: any account with the address, if there still is one.
FindAccount(t) ==
  LET found == Living(Recipient(Head(t.left)))
  IN  /\ At(t, "find")
      /\ \/ /\ NoFault
            /\ \E id \in found : Continue(t, [t EXCEPT !.at = "insert", !.receiver = id])
         \/ NoFault /\ found = {} /\ NextTransaction(t)
         \/ Fault /\ NextTransaction(t)
      /\ UNCHANGED <<world, accounts, history, jobs, program>>

\* Mutant: the new account belongs to the recipient's side of the transfer,
\* but has the sender's address.
SenderAccount(t) ==
  [chain |-> ChainFor(t), user |-> accounts[t.id].user, addr |-> ledger[Head(t.left)].from,
   currency |-> "coin", deleted |-> FALSE, balance |-> 0]

\* The recipient's account is given to the user whose account is polled.  It
\* has no currency of its own: the chain's first one will be found for it.
NewAccount(t) ==
  [chain |-> ChainFor(t), user |-> accounts[t.id].user, addr |-> Recipient(Head(t.left)),
   currency |-> "coin", deleted |-> FALSE, balance |-> 0]

\* Beyond the bound on accounts none is created.
CreateAccount(t) ==
  /\ At(t, "create")
  /\ \/ /\ NoFault
        /\ Len(accounts) < MaxAccounts
        /\ accounts' = Append(accounts, NewAccount(t))
        /\ Continue(t, [t EXCEPT !.at = "insert", !.receiver = Len(accounts) + 1])
     \/ NoFault /\ Len(accounts) = MaxAccounts /\ NextTransaction(t) /\ UNCHANGED accounts
     \/ Fault /\ NextTransaction(t) /\ UNCHANGED accounts
  /\ UNCHANGED <<world, history, jobs, program>>

\* Mutant: SOL takes what the account has not sent for received, as TRX does.
DirectionBySender(t) ==
  IF ChainFor(t) = "BTC" \/ ledger[Head(t.left)].from # Addr(t.id) THEN "RECEIVE" ELSE "SEND"

\* BTC takes outputs for received; SOL a transaction whose recipient is the
\* account, and any other for sent; TRX one whose sender is not the account.
Direction(t) ==
  LET tr == ledger[Head(t.left)]
      addr == Addr(t.id)
  IN  CASE ChainFor(t) = "BTC" -> "RECEIVE"
        [] ChainFor(t) = "SOL" -> IF tr.to = addr THEN "RECEIVE" ELSE "SEND"
        [] ChainFor(t) = "TRX" /\ tr.kind = "coin" -> IF Hex(tr.from) = addr THEN "SEND" ELSE "RECEIVE"
        [] ChainFor(t) = "TRX" /\ tr.kind = "token" -> IF tr.from = addr THEN "SEND" ELSE "RECEIVE"

Document(t) ==
  [hash |-> Head(t.left), sender |-> t.id, receiver |-> t.receiver, direction |-> Direction(t)]

\* BTC and SOL assert that the currency has an id, and panic if it has none.
NeedsCurrencyId(t) == ChainFor(t) # "TRX" /\ accounts[t.id].currency = "none"

InsertTransaction(t) ==
  /\ At(t, "insert")
  /\ \/ /\ NoFault /\ ~NeedsCurrencyId(t)
        /\ history' = history \cup {Document(t)}
        /\ NextTransaction(t)
        /\ UNCHANGED program
     \/ Fault /\ ~NeedsCurrencyId(t) /\ NextTransaction(t) /\ UNCHANGED <<history, program>>
     \/ NoFault /\ NeedsCurrencyId(t) /\ Die
  /\ UNCHANGED <<world, accounts, jobs>>

\* SOL and TRX ask the chain through http.DefaultClient, which waits for ever
\* for an answer that does not come.
Hang(t) ==
  /\ up
  /\ t.at \in {"balance", "list"} \/ (t.at = "lookup" /\ ChainFor(t) = "SOL")
  /\ ChainFor(t) # "BTC"
  /\ Fault
  /\ Goto(t, "hung")
  /\ UNCHANGED <<world, accounts, history, jobs, program>>

Hung == \E t \in tasks : t.at = "hung"
-----------------------------------------------------------------------------
\* The process is killed; one that hangs may be at any time.
Crash == up /\ (Fault \/ (Hung /\ NoFault)) /\ Die

\* What happens on chains that are not polled is left out.
IsPolled(c) == \E k \in started : ChainOf[k] = c

Mine(tr) ==
  /\ IsPolled(tr.chain)
  /\ Height < MaxLedger
  /\ ledger' = Append(ledger, tr)
  /\ UNCHANGED <<active, waiting, changes, started, accounts, history, jobs, program, run, tasks, faults>>

Change == changes < MaxChanges /\ changes' = changes + 1

\* An order with a deposit account at the address is PENDING, or no longer.
OrderChanges(a) ==
  /\ Change
  /\ waiting' \in {waiting \cup {a}, waiting \ {a}}
  /\ waiting' # waiting
  /\ UNCHANGED <<ledger, active, started, accounts, history, jobs, program, run, tasks, faults>>

\* A user has been away for three days, or comes back.
UserChanges(u) ==
  /\ Change
  /\ active' = IF u \in active THEN active \ {u} ELSE active \cup {u}
  /\ UNCHANGED <<ledger, waiting, started, accounts, history, jobs, program, run, tasks, faults>>

\* DeleteAccount, for the API.
DeleteAccount(id) ==
  /\ Change
  /\ IsPolled(accounts[id].chain)
  /\ ~accounts[id].deleted
  /\ accounts' = [accounts EXCEPT ![id].deleted = TRUE]
  /\ UNCHANGED <<ledger, active, waiting, started, history, jobs, program, run, tasks, faults>>

\* The supported currency of an account is withdrawn: the default document is
\* found for it from now on.  A goroutine at work keeps what it found.
WithdrawCurrency(id) ==
  /\ Change
  /\ IsPolled(accounts[id].chain)
  /\ \A t \in tasks : t.id # id
  /\ accounts[id].currency # "none"
  /\ accounts' = [accounts EXCEPT ![id].currency = "none"]
  /\ UNCHANGED <<ledger, active, waiting, started, history, jobs, program, run, tasks, faults>>

Environment ==
  \/ \E tr \in Transfers : Mine(tr)
  \/ \E a \in Watched : OrderChanges(a)
  \/ \E u \in Users : UserChanges(u)
  \/ \E id \in Ids : DeleteAccount(id) \/ WithdrawCurrency(id)

ProcessAccount(t) ==
  \/ FindOrders(t) \/ AskBalance(t) \/ AskSolBalance(t) \/ SaveBalance(t)
  \/ ListTransactions(t) \/ Lookup(t)
  \/ CountAccounts(t) \/ FindAccount(t) \/ CreateAccount(t) \/ InsertTransaction(t)

Pool(k) ==
  \/ \E id \in todo[k] : Take(k, id)
  \/ \E t \in tasks : t.by = k /\ ProcessAccount(t)

Next ==
  \/ StartUp \/ Crash \/ Environment
  \/ \E t \in tasks : Hang(t)
  \/ \E c \in Chains : Enqueue(c)
  \/ \E k \in Consumers : StartRun(k) \/ StartTrxRun(k) \/ Pool(k)

Spec == Init /\ [][Next]_vars

\* The program is started again when it ends, tickers tick, consumers pop and
\* goroutines whose request is answered go on.
FairSpec ==
  /\ Spec
  /\ WF_vars(StartUp)
  /\ \A c \in Chains : WF_vars(Enqueue(c))
  /\ \A k \in Consumers : WF_vars(StartRun(k) \/ StartTrxRun(k)) /\ WF_vars(Pool(k))
-----------------------------------------------------------------------------
TypeOK ==
  /\ ledger \in Seq(Transfers) /\ Height <= MaxLedger
  /\ accounts \in Seq(Account) /\ Len(accounts) <= MaxAccounts
  /\ active \subseteq Users
  /\ waiting \subseteq Watched
  /\ history \subseteq [hash : 1..Height, sender : Ids, receiver : Ids, direction : {"SEND", "RECEIVE"}]
  /\ jobs \in [Chains -> 0..MaxJobs]
  /\ up \in BOOLEAN
  /\ trxAccounts \subseteq Ids
  /\ todo \in [Consumers -> SUBSET Ids]
  /\ awaited \in [Consumers -> Nat]
  /\ tasks \subseteq Task
  /\ faults \in 0..MaxFaults /\ changes \in 0..MaxChanges
  /\ started \in Settings
  /\ \A t \in tasks :
       /\ t.id \in Ids /\ t.receiver \in 0..Len(accounts)
       /\ t.left \in Seq(1..Height)
       /\ t.at \in {"lookup", "count", "find", "create", "insert"} => t.left # <<>>
       /\ t.at = "insert" => t.receiver \in Ids

\* A consumer waits for exactly the results that are still to come, whatever
\* goes wrong with an account: with one too few it would start the next run
\* over the goroutines of this one, with one too many it would wait for ever.
ResultsAddUp ==
  \A k \in Consumers :
    /\ awaited[k] = Cardinality(todo[k]) + Cardinality(TasksOf(k))
    /\ Cardinality(TasksOf(k)) <= PoolSize[ChainOf[k]]
    /\ \A t \in TasksOf(k) : t.id \notin todo[k]
    /\ \A t, u \in TasksOf(k) : t.id = u.id => t = u

\* Where the queue has one consumer a balance is never replaced by an older
\* one, though it is asked for and stored in separate steps by goroutines that
\* a crash may stop in between.
BalanceNeverOlder ==
  [][\A c \in {"BTC", "TRX"} :
       Cardinality({k \in started : ChainOf[k] = c}) = 1 =>
         \A id \in Ids : accounts[id].chain = c => accounts'[id].balance >= accounts[id].balance]_accounts

\* A stored transaction is one of the account's chain that concerns its
\* address; the receiving account has the address of the recipient as the chain
\* gives it.  What is stored as received was paid to the account, except for
\* coins of TRX, whose addresses never equal the account's.  What is stored as
\* sent was sent by it, except on SOL, where it was only not paid to it.
HistoryFollowsLedger ==
  \A d \in history :
    LET tr == ledger[d.hash]
        own == accounts[d.sender]
    IN  /\ tr.chain = own.chain
        /\ own.addr \in Concerned(d.hash)
        /\ accounts[d.receiver].addr = Recipient(d.hash)
        /\ d.direction = "SEND" =>
             IF tr.chain = "SOL" THEN own.addr # tr.to ELSE own.addr = tr.from
        /\ d.direction = "RECEIVE" => own.addr = tr.to \/ <<tr.chain, tr.kind>> = <<"TRX", "coin">>

\* Polling gives a user accounts of strangers, but only for the recipients of
\* transactions that concern an account of the same user on the same chain.  On
\* SOL that account need be neither side, and the recipient no wallet.
MadeAccountsAreRecipients ==
  \A id \in Len(Imported) + 1..Len(accounts) :
    \E p \in 1..Height, own \in 1..id - 1 :
      /\ accounts[id].addr = Recipient(p)
      /\ accounts[id].chain = ledger[p].chain
      /\ accounts[own].chain = accounts[id].chain
      /\ accounts[own].user = accounts[id].user
      /\ accounts[own].addr \in Concerned(p)

\* An account polled again and again, and a transaction listed for it.
Polled(id) ==
  /\ id \in Ids
  /\ IsPolled(accounts[id].chain)
  /\ Valid(accounts[id].chain, Addr(id))
  /\ id \in IF accounts[id].chain = "TRX" THEN trxAccounts ELSE ActiveAccounts(accounts[id].chain)
Listing(id, p) ==
  \E kind \in Kinds :
    /\ kind = "token" => accounts[id].chain = "TRX" /\ accounts[id].currency = "token"
    /\ \E i \in DOMAIN Listed(accounts[id].chain, kind, Addr(id)) :
         Listed(accounts[id].chain, kind, Addr(id))[i] = p

\* If the program stays up and no request hangs, a transaction that stays on the list of an account
\* that stays polled is stored in the end, unless another program has done it
\* or the bound on accounts leaves no room for the recipient.
HistoryIsKept ==
  \A id \in 1..MaxAccounts, p \in 1..MaxLedger :
    <>[](up /\ ~Hung /\ Polled(id) /\ Listing(id, p)) =>
      <>(\/ \E d \in history : d.sender = id /\ d.hash = p
         \/ p \in 1..Height /\ ledger[p] \in Signed
         \/ p \in 1..Height /\ Len(accounts) = MaxAccounts /\ Living(Recipient(p)) = {})

\* "Check if this transaction is already in the database": one that is there
\* with its hash, stored for the same account, is not stored once more.  The
\* run has one consumer and no failing call, so nobody stores it in between.
StoredOnce ==
  [][\A t \in tasks :
       InsertTransaction(t) /\ up' => \A d \in history : ~(d.hash = Head(t.left) /\ d.sender = t.id)]_vars
-----------------------------------------------------------------------------
\* The inductive strengthening of ResultsAddUp: what is counted is finite, and
\* a task keeps its consumer and its account.
TasksShape ==
  /\ IsFiniteSet(tasks)
  /\ \A t \in tasks :
       /\ DOMAIN t = {"by", "id", "at", "height", "batch", "left", "receiver"}
       /\ t.by \in Consumers

RunsShape ==
  /\ DOMAIN todo = Consumers
  /\ \A k \in Consumers : IsFiniteSet(todo[k])
  /\ awaited \in [Consumers -> Nat]

PoolInv ==
  /\ accounts \in Seq(Range(accounts))
  /\ IsFiniteSet(trxAccounts)
  /\ TasksShape
  /\ RunsShape
  /\ ResultsAddUp

\* The inductive strengthening of TypeOK and the other properties: a consumer
\* works on accounts of its chain, and a task keeps transactions of its account
\* and the recipient's account it has found or made.
OfChain(ids, c) == \A id \in ids : accounts[id].chain = c
Touches(p, id) ==
  /\ ledger[p].chain = accounts[id].chain
  /\ Addr(id) \in Concerned(p)
  /\ ledger[p].chain = "BTC" => ledger[p].to = Addr(id)

WorkInv ==
  /\ OfChain(trxAccounts, "TRX")
  /\ \A k \in Consumers :
       OfChain(todo[k], ChainOf[k]) /\ (todo[k] # {} => k \in started)
  /\ \A t \in tasks :
       /\ accounts[t.id].chain = ChainFor(t) /\ t.by \in started
       /\ \A i \in DOMAIN t.left : Touches(t.left[i], t.id)
       /\ t.at = "insert" => accounts[t.receiver].addr = Recipient(Head(t.left))

\* Where nobody else works for the chain, the balance a task is about to store
\* is as new as the one that is there.
Alone(t) == {k \in started : ChainOf[k] = ChainFor(t)} = {t.by}
BalanceInv ==
  /\ \A id \in Ids : accounts[id].balance <= Height
  /\ \A t \in tasks :
       /\ t.height <= Height
       /\ t.at = "save" /\ ChainFor(t) # "SOL" /\ Alone(t) => accounts[t.id].balance <= t.height

PollerInv ==
  TypeOK /\ PoolInv /\ WorkInv /\ BalanceInv /\ HistoryFollowsLedger /\ MadeAccountsAreRecipients
=============================================================================
