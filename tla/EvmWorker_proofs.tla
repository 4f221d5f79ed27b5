-------------------------- MODULE EvmWorker_proofs --------------------------
(***************************************************************************)
(* Proofs about the two parts of the EVM worker: EvmDeposits, what one     *)
(* watcher of a chain does, for any number of workers, orders, accounts    *)
(* and blocks; and EvmChainManager, which chains have a watcher, for any   *)
(* set of chains and any number of lingering watchers, signals and         *)
(* crashes.  Each specification leaves the other's variables alone: the    *)
(* theorems are about one of them at a time.                               *)
(***************************************************************************)
EXTENDS EvmDeposits, EvmChainManager, TLAPS

LEMMA NoAccountsIsMap == NoAccounts \in [Addresses -> Accounts \cup {None}]
BY DEF NoAccounts

\* The two ways a run moves on, for the worker that takes the step and for
\* the others.
LEMMA LeaveRun ==
  ASSUME RunsOK, NEW w \in Workers, NEW s \in {"idle", "hung"}, Leave(w, s)
  PROVE  /\ RunsOK'
         /\ pc'[w] = s /\ last'[w] = 0
         /\ todo'[w] = <<>> /\ accountMap'[w] = NoAccounts
<1>1. RunsOK'
  BY NoAccountsIsMap DEF RunsOK, Steps, Leave, Goto
<1>2. QED
  BY <1>1 DEF RunsOK, Leave, Goto

\* A run ends by finishing or by hanging.
Ended(w) == \E s \in {"idle", "hung"} : Leave(w, s)

LEMMA EndedRun ==
  ASSUME RunsOK, NEW w \in Workers, Ended(w)
  PROVE  /\ RunsOK'
         /\ pc'[w] \in {"idle", "hung"} /\ last'[w] = 0
         /\ todo'[w] = <<>> /\ accountMap'[w] = NoAccounts
BY LeaveRun DEF Ended

LEMMA FinishEnds ==
  ASSUME NEW w \in Workers, Finish(w) \/ Hang(w)
  PROVE  Ended(w)
BY DEF Finish, Hang, Ended

LEMMA NextBlockRun ==
  ASSUME RunsOK, NEW w \in Workers, NextBlock(w)
  PROVE  /\ RunsOK'
         /\ UNCHANGED <<latest, last, todo, target>>
         /\ accountMap' = [accountMap EXCEPT ![w] = NoAccounts]
         /\ \/ /\ next[w] < latest[w]
               /\ pc' = [pc EXCEPT ![w] = "block"]
               /\ next' = [next EXCEPT ![w] = next[w] + 1]
            \/ /\ ~(next[w] < latest[w])
               /\ pc' = [pc EXCEPT ![w] = "save"]
               /\ next' = next
<1>1. /\ UNCHANGED <<latest, last, todo, target>>
      /\ accountMap' = [accountMap EXCEPT ![w] = NoAccounts]
  BY DEF NextBlock
<1>2. \/ /\ next[w] < latest[w]
         /\ pc' = [pc EXCEPT ![w] = "block"]
         /\ next' = [next EXCEPT ![w] = next[w] + 1]
      \/ /\ ~(next[w] < latest[w])
         /\ pc' = [pc EXCEPT ![w] = "save"]
         /\ next' = next
  BY DEF NextBlock, Goto
<1>3. RunsOK'
  <2>1. pc' \in [Workers -> Steps]
    BY <1>2 DEF RunsOK, Steps
  <2>2. next' \in [Workers -> Nat]
    <3>1. next[w] + 1 \in Nat
      BY DEF RunsOK
    <3>2. QED
      BY <1>2, <3>1 DEF RunsOK
  <2>3. accountMap' \in [Workers -> [Addresses -> Accounts \cup {None}]]
    BY <1>1, NoAccountsIsMap DEF RunsOK
  <2>4. QED
    BY <1>1, <2>1, <2>2, <2>3 DEF RunsOK
<1>4. QED
  BY <1>1, <1>2, <1>3

-----------------------------------------------------------------------------
LEMMA BlockOutcome ==
  ASSUME TypeOK, NEW w \in Workers,
         BlockFault(w) \/ (NoFault /\ UNCHANGED failed)
  PROVE  faults' \in Nat /\ failed' \in SUBSET Nat
<1>1. faults \in Nat /\ faults + 1 \in Nat /\ failed \in SUBSET Nat
  BY DEF TypeOK, SharedOK
<1>2. next[w] \in Nat
  BY DEF TypeOK, RunsOK
<1>3. QED
  BY <1>1, <1>2 DEF BlockFault, Fault, NoFault

LEMMA SharedStep ==
  ASSUME TypeOK, Next
  PROVE  SharedOK'
<1>0. SharedOK
  BY DEF TypeOK
<1>1. ASSUME NEW body \in Bodies, MineBlock(body) PROVE SharedOK'
  <2>1. body \in BlockBody
    BY ConstantsAssumption
  <2>2. chain' \in Seq(BlockBody) \ {<<>>}
    BY <1>0, <1>1, <2>1 DEF MineBlock, SharedOK
  <2>3. QED
    BY <1>0, <1>1, <2>2
       DEF MineBlock, SharedOK, orderVars, cacheVars, queueVars, histVars
<1>2. ASSUME NEW o \in Orders, OpenOrder(o) \/ SettleOrder(o) PROVE SharedOK'
  <2>1. status' \in [Orders -> OrderStatus]
    BY <1>0, <1>2 DEF OpenOrder, SettleOrder, SharedOK, OrderStatus
  <2>2. QED
    BY <1>0, <1>2, <2>1
       DEF OpenOrder, SettleOrder, SharedOK, chainVars, cacheVars, queueVars, histVars
<1>3. CASE Tick
  <2>1. timer' \in Nat /\ ttl' \in Nat /\ cursor' \in Nat
    BY <1>0, <1>3 DEF Tick, SharedOK
  <2>2. QED
    BY <1>0, <1>3, <2>1 DEF Tick, SharedOK, chainVars, orderVars, histVars
<1>4. CASE EnqueueEVMJob
  <2>1. /\ Interval \in Nat /\ jobs + 1 \in Nat /\ faults + 1 \in Nat
        /\ jobs..MaxJobs \subseteq Nat
    BY <1>0, ConstantsAssumption DEF SharedOK
  <2>2. timer' \in Nat /\ jobs' \in Nat /\ faults' \in Nat
    BY <1>0, <1>4, <2>1 DEF EnqueueEVMJob, Fault, NoFault, SharedOK
  <2>3. QED
    BY <1>0, <1>4, <2>2
       DEF EnqueueEVMJob, SharedOK, chainVars, orderVars, cacheVars, histVars
<1>5. CASE Restart
  <2>1. timer' \in Nat /\ faults' \in Nat
    BY <1>0, <1>5 DEF Restart, Fault, SharedOK
  <2>2. QED
    BY <1>0, <1>5, <2>1
       DEF Restart, SharedOK, chainVars, orderVars, cacheVars, histVars
<1> USE DEF TypeOK, SharedOK, OrderStatus, Fault, NoFault,
            chainVars, orderVars, cacheVars, queueVars, runVars, histVars
<1>6. ASSUME NEW w \in Workers, PopJob(w) PROVE SharedOK'
  BY <1>6 DEF PopJob
<1>7. ASSUME NEW w \in Workers, ProcessChain(w) PROVE SharedOK'
  <2> USE DEF RunsOK, BlockFault
  <2>1. CASE GetLatestBlockNumber(w)
    BY <2>1 DEF GetLatestBlockNumber
  <2>2. CASE ReadCursor(w)
    BY <2>2 DEF ReadCursor
  <2>3. CASE ScanBlock(w)
    <3>1. faults' \in Nat /\ failed' \in SUBSET Nat
      BY <2>3, BlockOutcome DEF ScanBlock
    <3>2. next[w] \in Nat /\ attempted' \in SUBSET Nat
      BY <2>3 DEF ScanBlock
    <3>3. UNCHANGED <<chain, status, latestTx, cursor, ttl, timer, jobs, freshStarts,
                      overtaken>>
      BY <2>3 DEF ScanBlock
    <3>4. QED
      BY <3>1, <3>2, <3>3
  <2>4. CASE MatchTransfer(w)
    <3>1. faults' \in Nat /\ failed' \in SUBSET Nat
      BY <2>4, BlockOutcome DEF MatchTransfer
    <3>2. QED
      BY <2>4, <3>1 DEF MatchTransfer
  <2>5. CASE ProcessOrderTransaction(w)
    <3>1. faults' \in Nat /\ failed' \in SUBSET Nat
      BY <2>5, BlockOutcome DEF ProcessOrderTransaction
    <3>2. target[w] \in Orders /\ Head(todo[w]) \in Transfers
      BY <2>5 DEF ProcessOrderTransaction, RunShape
    <3>3. status' \in [Orders -> OrderStatus]
          /\ latestTx' \in [Orders -> Transfers \cup {None}]
      BY <2>5, <3>2 DEF ProcessOrderTransaction
    <3>4. QED
      BY <2>5, <3>1, <3>3 DEF ProcessOrderTransaction
  <2>6. CASE BlockDone(w)
    BY <2>6 DEF BlockDone
  <2>7. CASE SaveCursor(w)
    <3>1. latest[w] \in Nat /\ FreshTTL \in Nat /\ UpdateTTL \in Nat /\ faults + 1 \in Nat
      BY ConstantsAssumption
    <3>2. cursor' \in Nat /\ ttl' \in Nat /\ faults' \in Nat
      BY <2>7, <3>1 DEF SaveCursor
    <3>3. freshStarts' \in SUBSET Nat
      BY <2>7, <3>1 DEF SaveCursor
    <3>4. overtaken' \in SUBSET Workers
      BY <2>7 DEF SaveCursor, Overtake
    <3>5. QED
      BY <2>7, <3>2, <3>3, <3>4 DEF SaveCursor
  <2>8. QED
    BY <1>7, <2>1, <2>2, <2>3, <2>4, <2>5, <2>6, <2>7 DEF ProcessChain
<1>8. ASSUME NEW w \in Workers, Hang(w) PROVE SharedOK'
  <2>1. next[w] \in Nat
    BY DEF RunsOK
  <2>2. faults' \in Nat /\ failed' \in SUBSET Nat /\ attempted' \in SUBSET Nat
    <3>1. faults + 1 \in Nat
      OBVIOUS
    <3>2. CASE pc[w] = "head"
      BY <1>8, <3>1, <3>2 DEF Hang
    <3>3. CASE pc[w] # "head"
      BY <1>8, <2>1, <3>1, <3>3 DEF Hang, BlockFault
    <3>4. QED
      BY <3>2, <3>3
  <2>3. UNCHANGED <<chain, status, latestTx, cursor, ttl, timer, jobs, freshStarts,
                    overtaken>>
    BY <1>8 DEF Hang
  <2>4. QED
    BY <2>2, <2>3
<1>9. QED
  BY <1>1, <1>2, <1>3, <1>4, <1>5, <1>6, <1>7, <1>8 DEF Next

LEMMA StartMatchingRun ==
  ASSUME RunsOK, NEW w \in Workers, NEW ts \in Seq(Transfers),
         StartMatching(w, ts)
  PROVE  /\ RunsOK'
         /\ UNCHANGED <<latest, last, next, target>>
         /\ pc' = [pc EXCEPT ![w] = "match"]
         /\ todo' = [todo EXCEPT ![w] = ts]
         /\ \E m \in AccountMapsFor(DepositAccountsFor(
                      {To[ts[i]] : i \in DOMAIN ts})) :
              accountMap' = [accountMap EXCEPT ![w] = m]
<1>1. PICK m \in AccountMapsFor(DepositAccountsFor(
                   {To[ts[i]] : i \in DOMAIN ts})) :
             accountMap' = [accountMap EXCEPT ![w] = m]
  BY DEF StartMatching
<1>2. m \in [Addresses -> Accounts \cup {None}]
  BY DEF AccountMapsFor
<1>3. /\ UNCHANGED <<latest, last, next, target>>
      /\ pc' = [pc EXCEPT ![w] = "match"]
      /\ todo' = [todo EXCEPT ![w] = ts]
  BY DEF StartMatching, Goto
<1>4. RunsOK'
  BY <1>1, <1>2, <1>3 DEF RunsOK, Steps
<1>5. QED
  BY <1>1, <1>3, <1>4

\* The block a run scans is a block of the chain.
LEMMA BlockExists ==
  ASSUME TypeOK, NEW w \in Workers, pc[w] = "block"
  PROVE  /\ next[w] \in DOMAIN chain
         /\ chain[next[w]].native \in Seq(Transfers)
         /\ chain[next[w]].logs \in Seq(Transfers)
         /\ chain[next[w]].native \o chain[next[w]].logs \in Seq(Transfers)
<1>1. next[w] \in 1..latest[w] /\ latest[w] \in 1..Len(chain)
  BY DEF TypeOK, RunShape, Scanning
<1>2. next[w] \in DOMAIN chain
  BY <1>1 DEF TypeOK, SharedOK
<1>3. chain[next[w]] \in BlockBody
  BY <1>2 DEF TypeOK, SharedOK
<1>4. QED
  BY <1>2, <1>3 DEF BlockBody

LEMMA RunsStep ==
  ASSUME TypeOK, Next
  PROVE  RunsOK'
<1> USE DEF runVars
<1>0. RunsOK
  BY DEF TypeOK
<1>1. CASE UNCHANGED runVars
  BY <1>0, <1>1 DEF RunsOK
<1>2. CASE Restart
  BY <1>2, NoAccountsIsMap DEF Restart, RunsOK, Steps
<1>3. ASSUME NEW w \in Workers, PopJob(w) PROVE RunsOK'
  BY <1>0, <1>3 DEF PopJob, Goto, KeepRun, RunsOK, Steps
<1>4. ASSUME NEW w \in Workers, ProcessChain(w) PROVE RunsOK'
  <2>1. CASE Finish(w)
    BY <1>0, <2>1, FinishEnds, EndedRun
  <2>2. CASE NextBlock(w)
    BY <1>0, <2>2, NextBlockRun
  <2>3. CASE GetLatestBlockNumber(w) /\ ~Finish(w)
    <3>1. Heads \subseteq Nat
      BY DEF Heads
    <3>2. QED
      BY <1>0, <2>3, <3>1 DEF GetLatestBlockNumber, Goto, RunsOK, Steps
  <2>4. CASE ReadCursor(w) /\ ~Finish(w)
    <3>1. cursor \in Nat /\ cursor + 1 \in Nat
      BY DEF TypeOK, SharedOK
    <3>2. QED
      <4>1. /\ pc' = [pc EXCEPT ![w] = "block"]
            /\ next' = [next EXCEPT ![w] = latest[w]] \/ next' = [next EXCEPT ![w] = cursor + 1]
            /\ last' = last \/ last' = [last EXCEPT ![w] = cursor]
            /\ UNCHANGED <<latest, accountMap, todo, target>>
        BY <2>4 DEF ReadCursor, Goto
      <4>2. pc' \in [Workers -> Steps]
        BY <1>0, <4>1 DEF RunsOK, Steps
      <4>3. next' \in [Workers -> Nat] /\ last' \in [Workers -> Nat]
        BY <1>0, <3>1, <4>1 DEF RunsOK
      <4>4. QED
        BY <1>0, <4>1, <4>2, <4>3 DEF RunsOK
  <2>5. CASE ScanBlock(w) /\ ~Finish(w) /\ ~NextBlock(w)
    <3>1. PICK ts \in Seq(Transfers) : StartMatching(w, ts)
      BY <2>5, BlockExists DEF ScanBlock
    <3>2. QED
      BY <1>0, <3>1, StartMatchingRun
  <2>6. CASE MatchTransfer(w)
    <3>1. PendingOrdersOf(Recipient(w)) \subseteq Orders
      BY DEF PendingOrdersOf
    <3>2. Tail(todo[w]) \in Seq(Transfers)
      BY <1>0, <2>6 DEF MatchTransfer, RunsOK
    <3>3. UNCHANGED <<latest, last, next, accountMap>>
      BY <2>6 DEF MatchTransfer
    <3>4. pc' \in [Workers -> Steps]
      BY <1>0, <2>6 DEF MatchTransfer, Goto, RunsOK, Steps
    <3>5. todo' \in [Workers -> Seq(Transfers)]
      BY <1>0, <2>6, <3>2 DEF MatchTransfer, DropTransfer, RunsOK
    <3>6. target' \in [Workers -> Orders \cup {None}]
      BY <1>0, <2>6, <3>1 DEF MatchTransfer, RunsOK
    <3>7. QED
      BY <1>0, <3>3, <3>4, <3>5, <3>6 DEF RunsOK
  <2>7. CASE ProcessOrderTransaction(w)
    <3>1. Tail(todo[w]) \in Seq(Transfers)
      BY <1>0, <2>7 DEF ProcessOrderTransaction, TypeOK, RunShape, RunsOK, Scanning
    <3>2. QED
      BY <1>0, <2>7, <3>1 DEF ProcessOrderTransaction, DropTransfer, Goto, RunsOK, Steps
  <2>8. QED
    BY <1>4, <2>1, <2>2, <2>3, <2>4, <2>5, <2>6, <2>7
       DEF ProcessChain, BlockDone, SaveCursor
<1>5. ASSUME NEW w \in Workers, Hang(w) PROVE RunsOK'
  BY <1>0, <1>5, FinishEnds, EndedRun
<1>6. QED
  BY <1>1, <1>2, <1>3, <1>4, <1>5
     DEF Next, MineBlock, OpenOrder, SettleOrder, Tick, EnqueueEVMJob

\* The chain only ever grows at its end.
LEMMA ChainGrows ==
  ASSUME TypeOK, [Next]_vars
  PROVE  /\ Len(chain') \in Nat /\ Len(chain) \in Nat
         /\ Len(chain) <= Len(chain')
         /\ \A b \in DOMAIN chain : b \in DOMAIN chain' /\ chain'[b] = chain[b]
<1>1. chain \in Seq(BlockBody)
  BY DEF TypeOK, SharedOK
<1>2. CASE chain' = chain
  BY <1>1, <1>2
<1>3. ASSUME NEW body \in Bodies, MineBlock(body)
      PROVE  chain' = Append(chain, body) /\ body \in BlockBody
  BY <1>3, ConstantsAssumption DEF MineBlock
<1>4. ASSUME NEW body \in BlockBody, chain' = Append(chain, body)
      PROVE  /\ Len(chain') \in Nat /\ Len(chain) \in Nat
             /\ Len(chain) <= Len(chain')
             /\ \A b \in DOMAIN chain : b \in DOMAIN chain' /\ chain'[b] = chain[b]
  BY <1>1, <1>4
<1>5. chain' = chain \/ \E body \in Bodies : MineBlock(body)
  BY DEF Next, vars, chainVars, OpenOrder, SettleOrder, Tick, EnqueueEVMJob,
         Restart, PopJob, Hang, ProcessChain, GetLatestBlockNumber, ReadCursor,
         ScanBlock, MatchTransfer, ProcessOrderTransaction, BlockDone, SaveCursor
<1>6. QED
  BY <1>2, <1>3, <1>4, <1>5

\* A worker's step leaves the other workers' runs alone.
LEMMA OthersKeep ==
  ASSUME TypeOK, NEW w \in Workers, NEW v \in Workers \ {w},
         PopJob(w) \/ ProcessChain(w) \/ Hang(w)
  PROVE  /\ pc'[v] = pc[v] /\ latest'[v] = latest[v] /\ last'[v] = last[v]
         /\ next'[v] = next[v] /\ todo'[v] = todo[v]
         /\ accountMap'[v] = accountMap[v] /\ target'[v] = target[v]
<1> DEFINE Kept ==
      /\ pc'[v] = pc[v] /\ latest'[v] = latest[v] /\ last'[v] = last[v]
      /\ next'[v] = next[v] /\ todo'[v] = todo[v]
      /\ accountMap'[v] = accountMap[v] /\ target'[v] = target[v]
<1>0. RunsOK
  BY DEF TypeOK
<1>1. CASE Finish(w) \/ Hang(w)
  <2>1. PICK s \in {"idle", "hung"} : Leave(w, s)
    BY <1>1, FinishEnds DEF Ended
  <2>2. QED
    BY <1>0, <2>1 DEF Leave, Goto, RunsOK
<1>2. CASE NextBlock(w)
  <2>1. /\ UNCHANGED <<latest, last, todo, target>>
        /\ accountMap' = [accountMap EXCEPT ![w] = NoAccounts]
    BY <1>2 DEF NextBlock
  <2>2. \E s \in Steps : pc' = [pc EXCEPT ![w] = s]
    BY <1>2 DEF NextBlock, Goto, Steps
  <2>3. next' = next \/ next' = [next EXCEPT ![w] = next[w] + 1]
    BY <1>2 DEF NextBlock
  <2>4. QED
    BY <1>0, <2>1, <2>2, <2>3 DEF RunsOK
<1>3. CASE ScanBlock(w) /\ ~Finish(w) /\ ~NextBlock(w)
  <2>1. PICK ts \in Seq(Transfers) : StartMatching(w, ts)
    BY <1>3, BlockExists DEF ScanBlock
  <2>2. /\ UNCHANGED <<latest, last, next, target>>
        /\ pc' = [pc EXCEPT ![w] = "match"]
        /\ todo' = [todo EXCEPT ![w] = ts]
        /\ \E m : accountMap' = [accountMap EXCEPT ![w] = m]
    BY <2>1 DEF StartMatching, Goto
  <2>3. QED
    BY <1>0, <2>2 DEF RunsOK
<1>4. CASE PopJob(w)
  BY <1>0, <1>4 DEF PopJob, Goto, KeepRun, RunsOK
<1>5. CASE (GetLatestBlockNumber(w) \/ ReadCursor(w)) /\ ~Finish(w)
  BY <1>0, <1>5 DEF GetLatestBlockNumber, ReadCursor, Goto, RunsOK
<1>6. CASE MatchTransfer(w) \/ ProcessOrderTransaction(w)
  BY <1>0, <1>6 DEF MatchTransfer, ProcessOrderTransaction, DropTransfer, Goto, RunsOK
<1>7. QED
  BY <1>1, <1>2, <1>3, <1>4, <1>5, <1>6 DEF ProcessChain, BlockDone, SaveCursor

LEMMA ShapeStep ==
  ASSUME TypeOK, Next, NEW v \in Workers
  PROVE  RunShape(v)'
<1>0. /\ RunsOK /\ RunsOK' /\ SharedOK /\ RunShape(v)
      /\ Len(chain) \in Nat /\ Len(chain') \in Nat /\ Len(chain) <= Len(chain')
  BY ChainGrows, RunsStep DEF TypeOK
<1>1. ASSUME /\ pc'[v] = pc[v] /\ latest'[v] = latest[v] /\ next'[v] = next[v]
             /\ todo'[v] = todo[v] /\ target'[v] = target[v]
      PROVE  RunShape(v)'
  <2>1. latest[v] \in Nat /\ next[v] \in Nat
    BY <1>0 DEF RunsOK
  <2>2. QED
    BY <1>0, <1>1, <2>1 DEF RunShape, Scanning
<1>2. CASE UNCHANGED runVars
  BY <1>1, <1>2 DEF runVars
<1>3. CASE Restart
  BY <1>3 DEF Restart, RunShape, Scanning
<1>4. ASSUME NEW w \in Workers, PopJob(w) \/ ProcessChain(w) \/ Hang(w)
      PROVE  RunShape(v)'
  <2>1. CASE v # w
    BY <1>1, <1>4, <2>1, OthersKeep
  <2>2. CASE v = w
    <3>1. CASE Finish(w) \/ Hang(w)
      BY <1>0, <2>2, <3>1, FinishEnds, EndedRun DEF RunShape, Scanning
    <3>2. CASE NextBlock(w) /\ (ScanBlock(w) \/ BlockDone(w))
      <4>1. pc[w] \in {"block", "match"}
        BY <3>2 DEF ScanBlock, BlockDone
      <4>2. next[w] \in 1..latest[w] /\ latest[w] \in 1..Len(chain)
        BY <1>0, <2>2, <4>1 DEF RunShape, Scanning
      <4>3. latest'[w] = latest[w]
        BY <3>2 DEF NextBlock
      <4>4. CASE next[w] < latest[w]
        <5>1. pc'[w] = "block" /\ next'[w] = next[w] + 1
          BY <1>0, <3>2, <4>4 DEF NextBlock, Goto, RunsOK
        <5>2. next'[w] \in 1..latest'[w] /\ latest'[w] \in 1..Len(chain')
          BY <1>0, <4>2, <4>3, <4>4, <5>1
        <5>3. QED
          BY <2>2, <5>1, <5>2 DEF RunShape, Scanning
      <4>5. CASE ~(next[w] < latest[w])
        <5>1. pc'[w] = "save" /\ next'[w] = next[w]
          BY <1>0, <3>2, <4>5 DEF NextBlock, Goto, RunsOK
        <5>2. next'[w] \in 1..latest'[w] /\ latest'[w] \in 1..Len(chain')
          BY <1>0, <4>2, <4>3, <5>1
        <5>3. QED
          BY <2>2, <5>1, <5>2 DEF RunShape, Scanning
      <4>6. QED
        BY <4>4, <4>5
    <3>3. CASE PopJob(w)
      BY <1>0, <2>2, <3>3 DEF PopJob, Goto, RunsOK, RunShape, Scanning
    <3>4. CASE GetLatestBlockNumber(w) /\ ~Finish(w)
      <4>1. Heads \subseteq 1..Len(chain) /\ chain' = chain
        BY <3>4 DEF GetLatestBlockNumber, Heads, chainVars
      <4>2. pc'[w] = "cursor" /\ latest'[w] \in Heads
        BY <1>0, <3>4 DEF GetLatestBlockNumber, Goto, RunsOK
      <4>3. QED
        BY <2>2, <4>1, <4>2 DEF RunShape, Scanning
    <3>5. CASE ReadCursor(w) /\ ~Finish(w)
      <4>1. latest[w] \in 1..Len(chain) /\ latest'[w] = latest[w] /\ chain' = chain
        BY <1>0, <2>2, <3>5 DEF ReadCursor, RunShape, RunsOK, Scanning, chainVars
      <4>2. cursor \in Nat
        BY <1>0 DEF SharedOK
      <4>3. pc'[w] = "block" /\ next'[w] \in 1..latest[w]
        BY <1>0, <3>5, <4>1, <4>2 DEF ReadCursor, Goto, RunsOK
      <4>4. QED
        BY <2>2, <4>1, <4>3 DEF RunShape, Scanning
    <3>6. CASE ScanBlock(w) /\ ~Finish(w) /\ ~NextBlock(w)
      <4>1. PICK ts \in Seq(Transfers) : StartMatching(w, ts)
        BY <3>6, BlockExists DEF ScanBlock
      <4>2. pc[w] = "block" /\ pc'[w] = "match" /\ chain' = chain
            /\ latest'[w] = latest[w] /\ next'[w] = next[w]
        BY <1>0, <3>6, <4>1 DEF ScanBlock, StartMatching, Goto, RunsOK, chainVars
      <4>3. QED
        BY <1>0, <2>2, <4>2 DEF RunShape, Scanning
    <3>7. CASE MatchTransfer(w)
      <4>1. /\ pc[w] = "match" /\ chain' = chain
            /\ latest'[w] = latest[w] /\ next'[w] = next[w]
        BY <3>7 DEF MatchTransfer, chainVars
      <4>2. \/ pc'[w] = "match"
            \/ pc'[w] = "update" /\ todo'[w] # <<>> /\ target'[w] \in Orders
        BY <1>0, <3>7 DEF MatchTransfer, PendingOrdersOf, Goto, RunsOK
      <4>3. QED
        BY <1>0, <2>2, <4>1, <4>2 DEF RunShape, Scanning
    <3>8. CASE ProcessOrderTransaction(w)
      <4>1. /\ pc[w] = "update" /\ pc'[w] = "match" /\ chain' = chain
            /\ latest'[w] = latest[w] /\ next'[w] = next[w]
        BY <1>0, <3>8 DEF ProcessOrderTransaction, Goto, RunsOK, chainVars
      <4>2. QED
        BY <1>0, <2>2, <4>1 DEF RunShape, Scanning
    <3>9. QED
      BY <1>4, <3>1, <3>2, <3>3, <3>4, <3>5, <3>6, <3>7, <3>8
         DEF ProcessChain, BlockDone, SaveCursor
  <2>3. QED
    BY <2>1, <2>2
<1>5. QED
  BY <1>2, <1>3, <1>4
     DEF Next, MineBlock, OpenOrder, SettleOrder, Tick, EnqueueEVMJob

LEMMA TypeInit == Init => TypeOK
<1> SUFFICES ASSUME Init PROVE TypeOK
  OBVIOUS
<1>1. chain \in Seq(BlockBody) \ {<<>>}
  BY DEF Init, BlockBody
<1>2. SharedOK
  BY <1>1 DEF Init, SharedOK, OrderStatus
<1>3. RunsOK
  BY NoAccountsIsMap DEF Init, RunsOK, Steps
<1>4. \A w \in Workers : RunShape(w)
  BY DEF Init, RunShape, Scanning
<1>5. QED
  BY <1>2, <1>3, <1>4 DEF TypeOK

LEMMA TypeStep == TypeOK /\ [Next]_vars => TypeOK'
<1> SUFFICES ASSUME TypeOK, [Next]_vars PROVE TypeOK'
  OBVIOUS
<1>1. CASE Next
  <2>1. \A w \in Workers : RunShape(w)'
    BY <1>1, ShapeStep
  <2>2. QED
    BY <1>1, <2>1, SharedStep, RunsStep DEF TypeOK
<1>2. CASE UNCHANGED vars
  BY <1>2 DEF vars, chainVars, orderVars, cacheVars, queueVars, runVars, histVars,
              TypeOK, SharedOK, RunsOK, RunShape, Scanning
<1>3. QED
  BY <1>1, <1>2

\* Every variable keeps its type, and a run that scans or writes has a block
\* of the chain and an order in hand (ProcessChain, processBlock).
THEOREM TypeCorrect == Spec => []TypeOK
<1>1. QED
  BY TypeInit, TypeStep, PTL DEF Spec

-----------------------------------------------------------------------------
(***************************************************************************)
(* No gap.  A run knows nothing of what other runs do to the cursor, so the *)
(* invariant speaks of each run: the cursor it read was covered, and it has *)
(* tried every block from there on.                                        *)
(***************************************************************************)

\* What has been tried or jumped over stays so.
LEMMA HistoryGrows ==
  ASSUME [Next]_vars
  PROVE  attempted \subseteq attempted' /\ freshStarts \subseteq freshStarts'
BY DEF Next, vars, chainVars, orderVars, cacheVars, queueVars, runVars, histVars,
       MineBlock, OpenOrder, SettleOrder, Tick, EnqueueEVMJob, Restart, PopJob, Hang,
       ProcessChain, GetLatestBlockNumber, ReadCursor, ScanBlock, MatchTransfer,
       ProcessOrderTransaction, BlockDone, SaveCursor

LEMMA RunCoverKept ==
  ASSUME NEW v \in Workers, RunCover(v),
         attempted \subseteq attempted', freshStarts \subseteq freshStarts',
         pc'[v] = pc[v], latest'[v] = latest[v],
         last'[v] = last[v], next'[v] = next[v]
  PROVE  RunCover(v)'
BY DEF RunCover, Covered, Scanning

\* Writing the cursor at the end of a run: the blocks up to the head it read
\* are covered, those below a fresh start by the start itself.
LEMMA SavedIsCovered ==
  ASSUME TypeOK, NEW w \in Workers, RunCover(w), pc[w] = "save",
         attempted' = attempted,
         freshStarts' = freshStarts \cup (IF Fresh(w) THEN {latest[w]} ELSE {})
  PROVE  \A b \in 1..latest[w] :
           b \notin attempted' => \E f \in freshStarts' : b < f
<1>1. latest[w] \in Nat /\ last[w] \in Nat
  BY DEF TypeOK, RunsOK
<1>2. next[w] = latest[w] /\ latest[w] \in attempted
  BY DEF RunCover, Scanning
<1>3. SUFFICES ASSUME NEW b \in 1..latest[w], b \notin attempted
      PROVE  \E f \in freshStarts' : b < f
  OBVIOUS
<1>4. b < latest[w]
  BY <1>1, <1>2, <1>3
<1>5. CASE last[w] = 0
  BY <1>4, <1>5 DEF Fresh
<1>6. CASE last[w] # 0
  <2>1. b \in 1..last[w]
    BY <1>1, <1>2, <1>3, <1>4, <1>6 DEF RunCover, Scanning
  <2>2. QED
    BY <1>3, <2>1 DEF RunCover, Covered, Scanning
<1>7. QED
  BY <1>5, <1>6

LEMMA CursorCovered ==
  ASSUME TypeOK, CoverInv, [Next]_vars
  PROVE  Covered(cursor)'
<1>0. attempted \subseteq attempted' /\ freshStarts \subseteq freshStarts'
  BY HistoryGrows
<1>1. CASE cursor' = cursor
  BY <1>0, <1>1 DEF CoverInv, Covered
<1>2. CASE cursor' = 0
  BY <1>2 DEF Covered
<1>3. ASSUME NEW w \in Workers, SaveCursor(w), cursor' # cursor
      PROVE  Covered(cursor)'
  <2>1. /\ pc[w] = "save" /\ cursor' = latest[w] /\ attempted' = attempted
        /\ freshStarts' = freshStarts \cup (IF Fresh(w) THEN {latest[w]} ELSE {})
    BY <1>3 DEF SaveCursor, cacheVars
  <2>2. RunCover(w)
    BY DEF CoverInv
  <2>3. QED
    BY <2>1, <2>2, SavedIsCovered DEF Covered
<1>4. QED
  BY <1>1, <1>2, <1>3
     DEF Next, vars, chainVars, orderVars, cacheVars, queueVars, runVars, histVars,
         MineBlock, OpenOrder, SettleOrder, Tick, EnqueueEVMJob, Restart, PopJob, Hang,
         ProcessChain, GetLatestBlockNumber, ReadCursor, ScanBlock, MatchTransfer,
         ProcessOrderTransaction, BlockDone

\* The worker that moves on to another block, or to writing the cursor, has
\* tried the block it leaves.
LEMMA NextBlockCovers ==
  ASSUME TypeOK, NEW w \in Workers, RunCover(w), NextBlock(w),
         ScanBlock(w) \/ BlockDone(w),
         attempted \subseteq attempted', freshStarts \subseteq freshStarts'
  PROVE  RunCover(w)'
<1>0. RunsOK /\ RunShape(w)
  BY DEF TypeOK
<1>1. pc[w] \in {"block", "match"} /\ next[w] \in attempted'
  BY DEF ScanBlock, BlockDone, RunCover
<1>2. /\ next[w] \in 1..latest[w] /\ latest[w] \in Nat
      /\ last[w] \in Nat /\ next[w] \in Nat
  BY <1>0, <1>1 DEF RunShape, Scanning, RunsOK
<1>3. latest' = latest /\ last' = last
  BY <1>0, NextBlockRun
<1>4. Covered(last[w])'
  BY <1>0, <1>3 DEF RunCover, Covered, Scanning
<1>5. CASE next[w] < latest[w]
  <2>1. pc'[w] = "block" /\ next'[w] = next[w] + 1
    BY <1>0, <1>5, NextBlockRun DEF RunsOK
  <2>2. last[w] # 0
    BY <1>1, <1>2, <1>5 DEF RunCover, Scanning
  <2>3. \A b \in (last[w] + 1)..next[w] : b \in attempted'
    <3>1. \A b \in (last[w] + 1)..(next[w] - 1) : b \in attempted'
      BY <2>2 DEF RunCover, Scanning
    <3>2. QED
      BY <1>1, <1>2, <3>1
  <2>4. next'[w] - 1 = next[w]
    BY <1>2, <2>1
  <2>5. QED
    BY <1>3, <1>4, <2>1, <2>2, <2>3, <2>4 DEF RunCover, Scanning
<1>6. CASE ~(next[w] < latest[w])
  <2>1. pc'[w] = "save" /\ next'[w] = next[w]
    BY <1>0, <1>6, NextBlockRun DEF RunsOK
  <2>2. next[w] = latest[w]
    BY <1>2, <1>6
  <2>3. QED
    BY <1>1, <1>3, <1>4, <2>1, <2>2 DEF RunCover, Scanning
<1>7. QED
  BY <1>5, <1>6

LEMMA RunCoverStep ==
  ASSUME TypeOK, CoverInv, [Next]_vars, NEW v \in Workers
  PROVE  RunCover(v)'
<1>0. /\ attempted \subseteq attempted' /\ freshStarts \subseteq freshStarts'
      /\ RunsOK /\ RunShape(v) /\ RunCover(v) /\ Covered(cursor)
  BY HistoryGrows DEF CoverInv, TypeOK
<1>1. CASE UNCHANGED runVars
  BY <1>0, <1>1, RunCoverKept DEF runVars
<1>2. CASE Restart
  BY <1>2 DEF Restart, RunCover, Covered, Scanning
<1>3. ASSUME NEW w \in Workers, PopJob(w) \/ ProcessChain(w) \/ Hang(w)
      PROVE  RunCover(v)'
  <2>1. CASE v # w
    BY <1>0, <1>3, <2>1, OthersKeep, RunCoverKept
  <2>2. CASE v = w /\ (Finish(w) \/ Hang(w))
    BY <1>0, <2>2, FinishEnds, EndedRun DEF RunCover, Covered, Scanning
  <2>3. CASE v = w /\ NextBlock(w) /\ (ScanBlock(w) \/ BlockDone(w))
    BY <1>0, <2>3, NextBlockCovers
  <2>4. CASE v = w /\ (PopJob(w) \/ (GetLatestBlockNumber(w) /\ ~Finish(w)))
    <3>1. last' = last /\ pc[w] \in {"idle", "head"} /\ pc'[w] \in {"head", "cursor"}
      BY <1>0, <2>4 DEF PopJob, KeepRun, GetLatestBlockNumber, Goto, RunsOK
    <3>2. QED
      BY <1>0, <2>4, <3>1 DEF RunCover, Covered, Scanning
  <2>5. CASE v = w /\ ReadCursor(w) /\ ~Finish(w)
    <3>1. last[w] = 0 /\ cursor \in Nat /\ latest' = latest
          /\ pc'[w] = "block" /\ UNCHANGED <<attempted, freshStarts>>
      BY <1>0, <2>5 DEF ReadCursor, RunCover, Scanning, Goto, RunsOK, TypeOK, SharedOK
    <3>2. CASE last'[w] = 0 /\ next'[w] = latest[w]
      BY <3>1, <3>2, <2>5 DEF RunCover, Covered, Scanning
    <3>3. CASE last'[w] = cursor /\ cursor # 0 /\ next'[w] = cursor + 1
      <4>1. Covered(last[w])'
        BY <1>0, <3>1, <3>3 DEF Covered
      <4>2. \A b \in (last'[w] + 1)..(next'[w] - 1) : b \in attempted'
        BY <3>1, <3>3
      <4>3. QED
        BY <2>5, <3>1, <3>3, <4>1, <4>2 DEF RunCover, Scanning
    <3>4. QED
      BY <1>0, <2>5, <3>1, <3>2, <3>3 DEF ReadCursor, RunsOK
  <2>6. CASE v = w /\ ScanBlock(w) /\ ~Finish(w) /\ ~NextBlock(w)
    <3>1. PICK ts \in Seq(Transfers) : StartMatching(w, ts)
      BY <2>6, BlockExists DEF ScanBlock
    <3>2. /\ UNCHANGED <<latest, last, next>> /\ pc'[w] = "match"
          /\ pc[w] = "block" /\ next[w] \in attempted'
      BY <1>0, <2>6, <3>1 DEF StartMatching, ScanBlock, Goto, RunsOK
    <3>3. QED
      BY <1>0, <2>6, <3>2 DEF RunCover, Covered, Scanning
  <2>7. CASE v = w /\ (MatchTransfer(w) \/ ProcessOrderTransaction(w))
    <3>1. /\ UNCHANGED <<latest, last, next>>
          /\ pc[w] \in {"match", "update"} /\ pc'[w] \in {"match", "update"}
      BY <1>0, <2>7 DEF MatchTransfer, ProcessOrderTransaction, Goto, RunsOK
    <3>2. QED
      BY <1>0, <2>7, <3>1 DEF RunCover, Covered, Scanning
  <2>8. QED
    BY <1>3, <2>1, <2>2, <2>3, <2>4, <2>5, <2>6, <2>7
       DEF ProcessChain, BlockDone, SaveCursor
<1>4. QED
  BY <1>1, <1>2, <1>3
     DEF Next, vars, runVars, MineBlock, OpenOrder, SettleOrder, Tick, EnqueueEVMJob

\* No block at or below the cursor was left out by a run that had a cursor to
\* go on from, for any number of overlapping runs, failures, expiries and
\* restarts (ProcessChain).
THEOREM NoGap == Spec => []NoGapAboveFreshStart
<1>1. Init => CoverInv
  BY DEF Init, CoverInv, Covered, RunCover, Scanning
<1>2. TypeOK /\ CoverInv /\ [Next]_vars => CoverInv'
  BY CursorCovered, RunCoverStep DEF CoverInv
<1>3. CoverInv => NoGapAboveFreshStart
  BY DEF CoverInv, Covered, NoGapAboveFreshStart
<1>4. QED
  BY <1>1, <1>2, <1>3, TypeCorrect, PTL DEF Spec

-----------------------------------------------------------------------------
(***************************************************************************)
(* When the cursor goes back.  A run that writes the head it read finds the *)
(* cursor where it was when it read it, or gone, unless another run has     *)
(* written one in the meantime.                                             *)
(***************************************************************************)

\* Apart from the write of a head, the cursor only expires, and the runs under
\* way are as much behind as before.
LEMMA CursorMoves ==
  ASSUME [Next]_vars,
         \A w \in Workers : ~(SaveCursor(w) /\ cursor' = latest[w] /\ Overtake(w)),
         \A w \in Workers : ~ReadCursor(w), ~Restart
  PROVE  cursor' \in {cursor, 0} /\ overtaken' = overtaken
BY DEF Next, vars, chainVars, orderVars, cacheVars, queueVars, runVars, histVars,
       MineBlock, OpenOrder, SettleOrder, Tick, EnqueueEVMJob, PopJob, Hang,
       ProcessChain, GetLatestBlockNumber, ScanBlock, MatchTransfer,
       ProcessOrderTransaction, BlockDone, SaveCursor

LEMMA GoBackStep ==
  ASSUME TypeOK, BehindInv, [Next]_vars, cursor' # 0, cursor' < cursor
  PROVE  \E w \in overtaken :
           pc[w] = "save" /\ cursor' = latest[w] /\ cursor' > last[w]
<1>0. RunsOK /\ cursor \in Nat
  BY DEF TypeOK, SharedOK
<1>1. cursor' \notin {cursor, 0}
  BY <1>0
<1>2. ~Restart /\ \A w \in Workers : ~ReadCursor(w)
  BY <1>1 DEF Restart, ReadCursor, cacheVars
<1>3. PICK w \in Workers : SaveCursor(w) /\ cursor' = latest[w]
  BY <1>1, <1>2, CursorMoves
<1>4. latest[w] \in Nat /\ last[w] \in Nat /\ pc[w] = "save"
  BY <1>0, <1>3 DEF RunsOK, SaveCursor
<1>5. last[w] < latest[w] /\ (w \in overtaken \/ cursor < latest[w])
  BY <1>4 DEF BehindInv, RunBehind, Scanning
<1>6. QED
  BY <1>0, <1>3, <1>4, <1>5

\* A run that goes on as it was, with the cursor as it was or gone, or with
\* another one's head in it, is as much behind as before.
LEMMA BehindKept ==
  ASSUME TypeOK, NEW w \in Workers, RunBehind(w),
         pc'[w] \in Scanning <=> pc[w] \in Scanning,
         latest'[w] = latest[w], last'[w] = last[w],
         \/ cursor' \in {cursor, 0} /\ (w \in overtaken => w \in overtaken')
         \/ pc[w] \in Scanning => w \in overtaken'
  PROVE  RunBehind(w)'
<1>1. cursor \in Nat /\ latest[w] \in Nat /\ last[w] \in Nat
  BY DEF TypeOK, SharedOK, RunsOK
<1>2. QED
  BY <1>1 DEF RunBehind

\* A run begins to scan with the cursor behind its head, by its own guard,
\* keeps the head until it is done, and is overtaken when another one writes.
LEMMA BehindStep ==
  ASSUME TypeOK, BehindInv, [Next]_vars, NEW w \in Workers
  PROVE  RunBehind(w)'
<1>0. RunsOK /\ RunShape(w) /\ RunBehind(w) /\ cursor \in Nat
  BY DEF TypeOK, SharedOK, BehindInv
<1>1. CASE Restart
  BY <1>1 DEF Restart, RunBehind, Scanning
<1>2. ASSUME NEW v \in Workers, Ended(v), v = w
      PROVE  RunBehind(w)'
  BY <1>0, <1>2, EndedRun DEF RunBehind, Scanning
<1>3. ASSUME NEW v \in Workers, SaveCursor(v), cursor' = latest[v], Overtake(v)
      PROVE  RunBehind(w)'
  <2>1. CASE v = w
    BY <1>2, <1>3, <2>1, FinishEnds DEF SaveCursor
  <2>2. CASE v # w
    <3>1. pc'[w] = pc[w] /\ latest'[w] = latest[w] /\ last'[w] = last[w]
      BY <1>3, <2>2, OthersKeep DEF ProcessChain
    <3>2. pc[w] \in Scanning => w \in overtaken'
      BY <1>3, <2>2 DEF Overtake
    <3>3. QED
      BY <1>0, <3>1, <3>2, BehindKept
  <2>3. QED
    BY <2>1, <2>2
<1>4. ASSUME NEW v \in Workers, ReadCursor(v)
      PROVE  RunBehind(w)'
  <2>1. cursor' = cursor /\ overtaken' = overtaken \ {v}
    BY <1>4 DEF ReadCursor, cacheVars
  <2>2. CASE v # w
    <3>1. pc'[w] = pc[w] /\ latest'[w] = latest[w] /\ last'[w] = last[w]
      BY <1>4, <2>2, OthersKeep DEF ProcessChain
    <3>2. QED
      BY <1>0, <2>1, <2>2, <3>1, BehindKept
  <2>3. CASE v = w /\ Finish(w)
    BY <1>2, <2>3, FinishEnds
  <2>4. CASE v = w /\ ~Finish(w)
    <3>1. last[w] = 0 /\ latest[w] > 0 /\ latest[w] \in Nat
      BY <1>0, <1>4, <2>4 DEF ReadCursor, RunBehind, RunShape, RunsOK, Scanning
    <3>2. /\ latest' = latest /\ pc'[w] = "block"
          /\ \/ cursor = 0 /\ last' = last
             \/ latest[w] > cursor /\ last'[w] = cursor
      BY <1>0, <1>4, <2>4 DEF ReadCursor, Goto, RunsOK
    <3>3. QED
      BY <1>0, <2>1, <3>1, <3>2 DEF RunBehind, Scanning
  <2>5. QED
    BY <2>2, <2>3, <2>4
<1>5. ASSUME ~Restart, \A v \in Workers : ~ReadCursor(v),
             \A v \in Workers : ~(SaveCursor(v) /\ cursor' = latest[v] /\ Overtake(v))
      PROVE  RunBehind(w)'
  <2>0. cursor' \in {cursor, 0} /\ overtaken' = overtaken
    BY <1>5, CursorMoves
  <2>1. CASE UNCHANGED runVars
    BY <1>0, <2>0, <2>1, BehindKept DEF runVars
  <2>2. ASSUME NEW v \in Workers, PopJob(v) \/ ProcessChain(v) \/ Hang(v)
        PROVE  RunBehind(w)'
    <3>1. CASE v # w
      <4>1. pc'[w] = pc[w] /\ latest'[w] = latest[w] /\ last'[w] = last[w]
        BY <2>2, <3>1, OthersKeep
      <4>2. QED
        BY <1>0, <2>0, <4>1, BehindKept
    <3>2. CASE v = w /\ (Finish(w) \/ Hang(w))
      BY <1>2, <3>2, FinishEnds
    <3>3. CASE v = w /\ (PopJob(w) \/ (GetLatestBlockNumber(w) /\ ~Finish(w)))
      <4>1. /\ last' = last /\ pc[w] \notin Scanning /\ pc'[w] \notin Scanning
        BY <1>0, <3>3
           DEF PopJob, KeepRun, GetLatestBlockNumber, Goto, RunsOK, Scanning
      <4>2. QED
        BY <1>0, <4>1 DEF RunBehind
    <3>4. CASE v = w /\ NextBlock(w) /\ (ScanBlock(w) \/ BlockDone(w))
      <4>1. /\ UNCHANGED <<latest, last>>
            /\ pc[w] \in Scanning /\ pc'[w] \in Scanning
        BY <1>0, <3>4, NextBlockRun DEF ScanBlock, BlockDone, Scanning, RunsOK
      <4>2. QED
        BY <1>0, <2>0, <4>1, BehindKept
    <3>5. CASE v = w /\ ScanBlock(w) /\ ~Finish(w) /\ ~NextBlock(w)
      <4>1. /\ UNCHANGED <<latest, last>>
            /\ pc[w] \in Scanning /\ pc'[w] \in Scanning
        BY <1>0, <3>5 DEF ScanBlock, StartMatching, Goto, Scanning, RunsOK
      <4>2. QED
        BY <1>0, <2>0, <4>1, BehindKept
    <3>6. CASE v = w /\ (MatchTransfer(w) \/ ProcessOrderTransaction(w))
      <4>1. /\ UNCHANGED <<latest, last>>
            /\ pc[w] \in Scanning /\ pc'[w] \in Scanning
        BY <1>0, <3>6
           DEF MatchTransfer, ProcessOrderTransaction, Goto, Scanning, RunsOK
      <4>2. QED
        BY <1>0, <2>0, <4>1, BehindKept
    <3>7. QED
      BY <1>2, <1>5, <2>2, <3>1, <3>2, <3>3, <3>4, <3>5, <3>6, FinishEnds
         DEF ProcessChain, BlockDone, SaveCursor
  <2>3. QED
    BY <1>5, <2>1, <2>2
       DEF Next, vars, runVars, MineBlock, OpenOrder, SettleOrder, Tick, EnqueueEVMJob
<1>6. QED
  BY <1>1, <1>3, <1>4, <1>5

\* Whatever number of consumers pops a chain's jobs, the cursor goes back only
\* by a run that another one has overtaken, and not as far as the block that
\* run had started from (ProcessChain).
THEOREM CursorOnlyOvertaken == Spec => CursorGoesBackByOverlap
<1>1. Init => BehindInv
  BY DEF Init, BehindInv, RunBehind, Scanning
<1>2. TypeOK /\ BehindInv /\ [Next]_vars => BehindInv'
  BY BehindStep DEF BehindInv
<1>3. TypeOK /\ BehindInv /\ [Next]_vars =>
        [cursor' # 0 /\ cursor' < cursor =>
           \E w \in overtaken :
             pc[w] = "save" /\ cursor' = latest[w] /\ cursor' > last[w]]_cursor
  BY GoBackStep
<1>4. QED
  BY <1>1, <1>2, <1>3, TypeCorrect, PTL DEF Spec, CursorGoesBackByOverlap

-----------------------------------------------------------------------------
(***************************************************************************)
(* Deposits.  Between finding an order and writing it a worker holds only   *)
(* what it learnt before, so the invariant says which of it stays true: the *)
(* transfer is mined, the account has the recipient's address, the order    *)
(* owns the account and was opened once.                                    *)
(***************************************************************************)

LEMMA MinedGrows ==
  ASSUME TypeOK, [Next]_vars
  PROVE  Mined \subseteq Mined'
<1>1. \A b \in DOMAIN chain : b \in DOMAIN chain' /\ chain'[b] = chain[b]
  BY ChainGrows
<1>2. QED
  BY <1>1 DEF Mined, BodyTransfers

\* What each step does to the orders: only one of four things.
LEMMA OrderSteps ==
  ASSUME [Next]_vars
  PROVE  \/ UNCHANGED <<status, latestTx>>
         \/ \E o \in Orders : OpenOrder(o) \/ SettleOrder(o)
         \/ \E w \in Workers : ProcessOrderTransaction(w)
BY DEF Next, vars, chainVars, orderVars, cacheVars, queueVars, runVars, histVars,
       MineBlock, Tick, EnqueueEVMJob, Restart, PopJob, Hang, ProcessChain,
       GetLatestBlockNumber, ReadCursor, ScanBlock, MatchTransfer, BlockDone,
       SaveCursor

\* The transfer and the order a worker is about to write belong together.
LEMMA WriteIsDeposit ==
  ASSUME TypeOK, NEW w \in Workers, RunDeposit(w), pc[w] = "update"
  PROVE  /\ target[w] \in Orders /\ Head(todo[w]) \in Transfers
         /\ Head(todo[w]) \in Mined
         /\ PaysTo(Head(todo[w]), target[w])
         /\ status[target[w]] # "CREATED"
<1>1. todo[w] \in Seq(Transfers) /\ todo[w] # <<>> /\ target[w] \in Orders
  BY DEF TypeOK, RunsOK, RunShape, Scanning
<1>2. 1 \in DOMAIN todo[w] /\ Head(todo[w]) = todo[w][1] /\ Head(todo[w]) \in Transfers
  BY <1>1
<1>3. Head(todo[w]) \in Mined
  BY <1>2 DEF RunDeposit
<1>4. /\ Recipient(w) \in DepositAccounts[target[w]]
      /\ status[target[w]] # "CREATED"
  BY DEF RunDeposit
<1>5. Recipient(w) # None
  BY <1>1, <1>4, ConstantsAssumption
<1>6. To[Head(todo[w])] \in Addresses
  BY <1>2, ConstantsAssumption
<1>7. AccountAddress[Recipient(w)] = To[Head(todo[w])]
  BY <1>5, <1>6 DEF RunDeposit, Recipient
<1>8. QED
  BY <1>1, <1>2, <1>3, <1>4, <1>7 DEF PaysTo

LEMMA OrdersDepositStep ==
  ASSUME TypeOK, DepositInv, [Next]_vars, NEW o \in Orders
  PROVE  /\ latestTx'[o] # None => latestTx'[o] \in Mined' /\ PaysTo(latestTx'[o], o)
         /\ status'[o] = "DEPOSIT_CONFIRMING" => latestTx'[o] # None
         /\ status[o] # "CREATED" => status'[o] # "CREATED"
<1>0. /\ Mined \subseteq Mined'
      /\ latestTx[o] # None => latestTx[o] \in Mined /\ PaysTo(latestTx[o], o)
      /\ status[o] = "DEPOSIT_CONFIRMING" => latestTx[o] # None
      /\ status \in [Orders -> OrderStatus]
      /\ latestTx \in [Orders -> Transfers \cup {None}]
  BY MinedGrows DEF DepositInv, TypeOK, SharedOK
<1>1. CASE UNCHANGED <<status, latestTx>>
  BY <1>0, <1>1
<1>2. ASSUME NEW p \in Orders, OpenOrder(p) \/ SettleOrder(p)
      PROVE  /\ latestTx' = latestTx
             /\ status'[o] = "DEPOSIT_CONFIRMING" => status[o] = "DEPOSIT_CONFIRMING"
             /\ status[o] # "CREATED" => status'[o] # "CREATED"
  BY <1>0, <1>2 DEF OpenOrder, SettleOrder
<1>3. ASSUME NEW w \in Workers, ProcessOrderTransaction(w)
      PROVE  /\ latestTx'[o] # None => latestTx'[o] \in Mined' /\ PaysTo(latestTx'[o], o)
             /\ status'[o] = "DEPOSIT_CONFIRMING" => latestTx'[o] # None
             /\ status[o] # "CREATED" => status'[o] # "CREATED"
  <2>1. /\ target[w] \in Orders /\ Head(todo[w]) \in Transfers
        /\ Head(todo[w]) \in Mined /\ PaysTo(Head(todo[w]), target[w])
    BY <1>3, WriteIsDeposit DEF ProcessOrderTransaction, DepositInv
  <2>2. CASE UNCHANGED <<status, latestTx>>
    BY <1>0, <2>2
  <2>3. CASE /\ status' = [status EXCEPT ![target[w]] = "DEPOSIT_CONFIRMING"]
             /\ latestTx' = [latestTx EXCEPT ![target[w]] = Head(todo[w])]
    <3>1. Head(todo[w]) # None
      BY <2>1, ConstantsAssumption
    <3>2. CASE o = target[w]
      BY <1>0, <2>1, <2>3, <3>1, <3>2
    <3>3. CASE o # target[w]
      BY <1>0, <2>3, <3>3
    <3>4. QED
      BY <3>2, <3>3
  <2>4. QED
    BY <1>3, <2>2, <2>3 DEF ProcessOrderTransaction, orderVars
<1>4. QED
  BY <1>0, <1>1, <1>2, <1>3, OrderSteps

LEMMA RunDepositKept ==
  ASSUME NEW v \in Workers, RunDeposit(v), Mined \subseteq Mined',
         todo'[v] = todo[v], accountMap'[v] = accountMap[v],
         \/ pc'[v] # "update"
         \/ /\ pc[v] = "update" /\ target'[v] = target[v]
            /\ status'[target[v]] # "CREATED"
  PROVE  RunDeposit(v)'
BY DEF RunDeposit, Recipient

\* An element of a concatenation is an element of one of its parts.
LEMMA ConcatElements ==
  ASSUME NEW S, NEW s \in Seq(S), NEW t \in Seq(S), NEW i \in DOMAIN (s \o t)
  PROVE  \/ \E j \in DOMAIN s : (s \o t)[i] = s[j]
         \/ \E j \in DOMAIN t : (s \o t)[i] = t[j]
<1>1. /\ i \in 1..(Len(s) + Len(t)) /\ Len(s) \in Nat /\ Len(t) \in Nat
      /\ DOMAIN s = 1..Len(s) /\ DOMAIN t = 1..Len(t)
  OBVIOUS
<1>2. CASE i <= Len(s)
  BY <1>1, <1>2
<1>3. CASE i > Len(s)
  <2>1. i - Len(s) \in 1..Len(t) /\ (s \o t)[i] = t[i - Len(s)]
    BY <1>1, <1>3
  <2>2. QED
    BY <1>1, <2>1
<1>4. QED
  BY <1>1, <1>2, <1>3

\* Scanning a block hands the run transfers of that block only, and accounts
\* of the addresses they pay.
LEMMA StartMatchingDeposit ==
  ASSUME TypeOK, NEW w \in Workers, ScanBlock(w), ~Finish(w), ~NextBlock(w)
  PROVE  RunDeposit(w)'
<1>0. /\ RunsOK /\ BodyTransfers(chain[next[w]]) \subseteq Mined
      /\ chain' = chain
  BY BlockExists DEF TypeOK, Mined, ScanBlock, chainVars
<1>1. PICK ts \in Seq(Transfers) :
        /\ StartMatching(w, ts)
        /\ ts \in {chain[next[w]].native, chain[next[w]].native \o chain[next[w]].logs}
  BY BlockExists DEF ScanBlock
<1>2. \A i \in DOMAIN ts : ts[i] \in BodyTransfers(chain[next[w]])
  <2>1. /\ chain[next[w]].native \in Seq(Transfers)
        /\ chain[next[w]].logs \in Seq(Transfers)
    BY BlockExists DEF ScanBlock
  <2>2. CASE ts = chain[next[w]].native
    BY <2>2 DEF BodyTransfers
  <2>3. CASE ts = chain[next[w]].native \o chain[next[w]].logs
    <3> DEFINE native == chain[next[w]].native
               logs   == chain[next[w]].logs
    <3>1. /\ \A j \in DOMAIN native : native[j] \in BodyTransfers(chain[next[w]])
          /\ \A j \in DOMAIN logs : logs[j] \in BodyTransfers(chain[next[w]])
      BY DEF BodyTransfers
    <3>2. native \in Seq(Transfers) /\ logs \in Seq(Transfers)
      BY <2>1
    <3>3. ts = native \o logs
      BY <2>3
    <3> HIDE DEF native, logs
    <3>4. \A i \in DOMAIN (native \o logs) :
            (native \o logs)[i] \in BodyTransfers(chain[next[w]])
      BY <3>1, <3>2, ConcatElements
    <3>5. QED
      BY <3>3, <3>4
  <2>4. QED
    BY <1>1, <2>2, <2>3
<1>3. PICK m \in AccountMapsFor(DepositAccountsFor({To[ts[i]] : i \in DOMAIN ts})) :
        accountMap' = [accountMap EXCEPT ![w] = m]
  BY <1>0, <1>1, StartMatchingRun
<1>4. todo'[w] = ts /\ pc'[w] = "match" /\ accountMap'[w] = m
  BY <1>0, <1>1, <1>3, StartMatchingRun DEF RunsOK
<1>5. \A addr \in Addresses : m[addr] # None => AccountAddress[m[addr]] = addr
  BY DEF AccountMapsFor
<1>6. Mined' = Mined
  BY <1>0 DEF Mined
<1>7. QED
  BY <1>0, <1>2, <1>4, <1>5, <1>6 DEF RunDeposit

LEMMA RunDepositStep ==
  ASSUME TypeOK, DepositInv, [Next]_vars, NEW v \in Workers
  PROVE  RunDeposit(v)'
<1>0. /\ RunsOK /\ RunShape(v) /\ RunDeposit(v) /\ Mined \subseteq Mined'
      /\ \A o \in Orders : status[o] # "CREATED" => status'[o] # "CREATED"
  BY MinedGrows, OrdersDepositStep DEF TypeOK, DepositInv
<1>1. pc[v] = "update" => status'[target[v]] # "CREATED"
  BY <1>0 DEF RunShape, Scanning, RunDeposit
<1>2. CASE UNCHANGED runVars
  BY <1>0, <1>1, <1>2, RunDepositKept DEF runVars
<1>3. ASSUME pc'[v] # "update", todo'[v] = <<>>, accountMap'[v] = NoAccounts
      PROVE  RunDeposit(v)'
  BY <1>3 DEF RunDeposit, NoAccounts
<1>4. CASE Restart
  BY <1>3, <1>4 DEF Restart
<1>5. ASSUME NEW w \in Workers, PopJob(w) \/ ProcessChain(w) \/ Hang(w)
      PROVE  RunDeposit(v)'
  <2>1. CASE v # w
    BY <1>0, <1>1, <1>5, <2>1, OthersKeep, RunDepositKept
  <2>2. CASE v = w /\ (Finish(w) \/ Hang(w))
    BY <1>0, <1>3, <2>2, FinishEnds, EndedRun
  <2>3. CASE v = w /\ NextBlock(w)
    <3>1. /\ todo' = todo /\ accountMap'[w] = NoAccounts
          /\ pc'[w] \in {"block", "save"}
      BY <1>0, <2>3, NextBlockRun DEF RunsOK
    <3>2. QED
      BY <1>0, <2>3, <3>1 DEF RunDeposit, NoAccounts
  <2>4. CASE v = w /\ (PopJob(w) \/ GetLatestBlockNumber(w) \/ ReadCursor(w)) /\ ~Finish(w)
    <3>1. /\ todo' = todo /\ accountMap' = accountMap
          /\ pc'[w] \in {"head", "cursor", "block"}
      BY <1>0, <2>4 DEF PopJob, KeepRun, GetLatestBlockNumber, ReadCursor, Goto, RunsOK
    <3>2. QED
      BY <1>0, <2>4, <3>1, RunDepositKept
  <2>5. CASE v = w /\ ScanBlock(w) /\ ~Finish(w) /\ ~NextBlock(w)
    BY <2>5, StartMatchingDeposit
  <2>6. ASSUME v = w, MatchTransfer(w) \/ ProcessOrderTransaction(w),
               DropTransfer(w), pc'[w] # "update", accountMap' = accountMap
        PROVE  RunDeposit(v)'
    <3>1. todo[w] \in Seq(Transfers) /\ todo[w] # <<>>
      BY <1>0, <2>6 DEF MatchTransfer, ProcessOrderTransaction, RunsOK, RunShape, Scanning
    <3>2. todo'[w] = Tail(todo[w])
      BY <1>0, <2>6 DEF DropTransfer, RunsOK
    <3>3. \A i \in DOMAIN Tail(todo[w]) :
            i + 1 \in DOMAIN todo[w] /\ Tail(todo[w])[i] = todo[w][i + 1]
      BY <3>1
    <3>4. \A i \in DOMAIN todo'[w] : todo'[w][i] \in Mined'
      BY <1>0, <2>6, <3>2, <3>3 DEF RunDeposit
    <3>5. QED
      BY <1>0, <2>6, <3>4 DEF RunDeposit
  <2>7. CASE v = w /\ MatchTransfer(w)
    <3>1. CASE DropTransfer(w) /\ UNCHANGED <<pc, target>>
      BY <2>6, <2>7, <3>1 DEF MatchTransfer
    <3>2. CASE /\ \E o \in PendingOrdersOf(Recipient(w)) :
                    target' = [target EXCEPT ![w] = o]
               /\ UNCHANGED <<todo, accountMap>> /\ UNCHANGED orderVars
      <4>1. PICK o \in PendingOrdersOf(Recipient(w)) :
                   target' = [target EXCEPT ![w] = o]
        BY <3>2
      <4>2. target'[w] = o
        BY <1>0, <4>1 DEF RunsOK
      <4>3. Recipient(w) \in DepositAccounts[o] /\ status[o] # "CREATED"
        BY DEF PendingOrdersOf
      <4>4. QED
        BY <1>0, <2>7, <3>2, <4>2, <4>3 DEF RunDeposit, Recipient, orderVars
    <3>3. QED
      BY <2>7, <3>1, <3>2 DEF MatchTransfer
  <2>8. CASE v = w /\ ProcessOrderTransaction(w)
    <3>1. pc'[w] = "match" /\ DropTransfer(w) /\ accountMap' = accountMap
      BY <1>0, <2>8 DEF ProcessOrderTransaction, Goto, RunsOK
    <3>2. QED
      BY <2>6, <2>8, <3>1
  <2>9. QED
    BY <1>5, <2>1, <2>2, <2>3, <2>4, <2>5, <2>7, <2>8
       DEF ProcessChain, BlockDone, SaveCursor
<1>6. QED
  BY <1>2, <1>4, <1>5
     DEF Next, vars, runVars, MineBlock, OpenOrder, SettleOrder, Tick, EnqueueEVMJob

LEMMA DepositInit == Init => DepositInv
BY DEF Init, DepositInv, RunDeposit, NoAccounts

LEMMA DepositStep == TypeOK /\ DepositInv /\ [Next]_vars => DepositInv'
<1> SUFFICES ASSUME TypeOK, DepositInv, [Next]_vars PROVE DepositInv'
  OBVIOUS
<1>1. \A o \in Orders :
        /\ latestTx'[o] # None => latestTx'[o] \in Mined' /\ PaysTo(latestTx'[o], o)
        /\ status'[o] = "DEPOSIT_CONFIRMING" => latestTx'[o] # None
  BY OrdersDepositStep
<1>2. \A w \in Workers : RunDeposit(w)'
  BY RunDepositStep
<1>3. QED
  BY <1>1, <1>2 DEF DepositInv, PaysTo

LEMMA DepositAlways == Spec => []DepositInv
BY DepositInit, DepositStep, TypeCorrect, PTL DEF Spec

\* However the runs overlap, fail or restart between FindOne and UpdateByID,
\* an order marked DEPOSIT_CONFIRMING records a mined transfer to an address
\* of one of its own deposit accounts (processOrderTransaction).
THEOREM Confirmed == Spec => []ConfirmedByOwnDeposit
<1>1. DepositInv => ConfirmedByOwnDeposit
  BY DEF DepositInv, ConfirmedByOwnDeposit
<1>2. QED
  BY <1>1, DepositAlways, PTL

\* The watcher implements the ledger: its UpdateByID is the ledger's
\* RecordDeposit, the node server's writes are Open and Settle, new blocks are
\* Mine, and everything else it does the ledger does not see.
THEOREM Implements == Spec => LedgerSpec
<1>1. Init => Ledger!Init
  <2>1. ASSUME Init PROVE Mined = {}
    BY <2>1 DEF Init, Mined, BodyTransfers
  <2>2. QED
    BY <2>1 DEF Init, Ledger!Init
<1>2. TypeOK /\ DepositInv /\ [Next]_vars => [Ledger!Next]_(Ledger!vars)
  <2> SUFFICES ASSUME TypeOK, DepositInv, [Next]_vars
               PROVE  [Ledger!Next]_(Ledger!vars)
    OBVIOUS
  <2>1. CASE UNCHANGED <<status, latestTx, chain>>
    BY <2>1 DEF Ledger!vars, Mined
  <2>2. ASSUME NEW body \in Bodies, MineBlock(body) PROVE Ledger!Mine
    <3>1. chain \in Seq(BlockBody) /\ body \in BlockBody
      BY ConstantsAssumption DEF TypeOK, SharedOK
    <3>2. BodyTransfers(body) \in SUBSET Transfers
      BY <3>1 DEF BodyTransfers, BlockBody
    <3>3. Mined' = Mined \cup BodyTransfers(body)
      <4>1. chain' = Append(chain, body)
        BY <2>2 DEF MineBlock
      <4>2. /\ DOMAIN chain' = DOMAIN chain \cup {Len(chain) + 1}
            /\ chain'[Len(chain) + 1] = body
            /\ \A b \in DOMAIN chain : chain'[b] = chain[b]
        BY <3>1, <4>1
      <4>3. QED
        BY <4>2 DEF Mined
    <3>4. QED
      BY <2>2, <3>2, <3>3 DEF MineBlock, orderVars, Ledger!Mine
  <2>3. ASSUME NEW o \in Orders, OpenOrder(o) \/ SettleOrder(o)
        PROVE  Ledger!Open(o) \/ Ledger!Settle(o)
    <3>1. Mined' = Mined
      BY <2>3 DEF OpenOrder, SettleOrder, chainVars, Mined
    <3>2. QED
      BY <2>3, <3>1 DEF OpenOrder, SettleOrder, Ledger!Open, Ledger!Settle
  <2>4. ASSUME NEW w \in Workers, ProcessOrderTransaction(w)
        PROVE  \/ Ledger!RecordDeposit(target[w], Head(todo[w]))
               \/ UNCHANGED <<status, latestTx, chain>>
    <3>1. /\ Mined' = Mined /\ chain' = chain
      BY <2>4 DEF ProcessOrderTransaction, chainVars, Mined
    <3>2. /\ target[w] \in Orders /\ Head(todo[w]) \in Transfers
          /\ Head(todo[w]) \in Mined /\ PaysTo(Head(todo[w]), target[w])
          /\ status[target[w]] # "CREATED"
      BY <2>4, WriteIsDeposit DEF ProcessOrderTransaction, DepositInv
    <3>3. <<Head(todo[w]), target[w]>> \in
            {p \in Transfers \X Orders : PaysTo(p[1], p[2])}
      BY <3>2
    <3>4. QED
      BY <2>4, <3>1, <3>2, <3>3
         DEF ProcessOrderTransaction, orderVars, Ledger!RecordDeposit
  <2>5. \/ UNCHANGED <<status, latestTx, chain>>
        \/ \E body \in Bodies : MineBlock(body)
        \/ \E o \in Orders : OpenOrder(o) \/ SettleOrder(o)
        \/ \E w \in Workers : ProcessOrderTransaction(w)
    BY DEF Next, vars, chainVars, orderVars, cacheVars, queueVars, runVars, histVars,
           Tick, EnqueueEVMJob, Restart, PopJob, Hang, ProcessChain,
           GetLatestBlockNumber, ReadCursor, ScanBlock, MatchTransfer, BlockDone,
           SaveCursor
  <2>6. CASE \E o \in Orders : OpenOrder(o) \/ SettleOrder(o)
    BY <2>3, <2>6 DEF Ledger!Next
  <2>7. CASE \E w \in Workers : ProcessOrderTransaction(w)
    <3>1. PICK w \in Workers : ProcessOrderTransaction(w)
      BY <2>7
    <3>2. target[w] \in Orders /\ Head(todo[w]) \in Transfers
      BY <3>1, WriteIsDeposit DEF ProcessOrderTransaction, DepositInv
    <3>3. QED
      BY <2>1, <2>4, <3>1, <3>2 DEF Ledger!Next
  <2>8. QED
    BY <2>1, <2>2, <2>5, <2>6, <2>7 DEF Ledger!Next
<1>3. QED
  BY <1>1, <1>2, TypeCorrect, DepositAlways, PTL DEF Spec, LedgerSpec, Ledger!Spec
-----------------------------------------------------------------------------
LEMMA WatcherIsPair == \A w \in Watchers : \E c \in Chains, n \in Lives : w = <<c, n>>
BY DEF Watchers

LEMMA PairIsWatcher == \A c \in Chains, n \in Lives : <<c, n>> \in Watchers
BY DEF Watchers

LEMMA LivesArePositive == 0 \notin Lives /\ Lives \subseteq Nat
BY ManagerAssumption DEF ManagerAssumption, Lives

LEMMA ManagerTypeInit == ManagerInit => ManagerTypeOK
<1> SUFFICES ASSUME ManagerInit PROVE ManagerTypeOK
  OBVIOUS
<1>1. /\ active \in [Chains -> {0} \cup Lives]
      /\ life \in [Watchers -> {"free", "run", "cleanup"}]
  BY DEF ManagerInit
<1>2. stops \in 0..MaxStops
  BY ManagerAssumption DEF ManagerAssumption, ManagerInit
<1>3. QED
  BY <1>1, <1>2 DEF ManagerInit, ManagerTypeOK

LEMMA ManagerTypeStep == ManagerTypeOK /\ [ManagerNext]_managerVars => ManagerTypeOK'
<1> SUFFICES ASSUME ManagerTypeOK, [ManagerNext]_managerVars PROVE ManagerTypeOK'
  OBVIOUS
<1> USE PairIsWatcher, ManagerAssumption
    DEF ManagerAssumption, ManagerTypeOK, processVars, shutdownVars, mainVars, monitorVars,
        lockVars, watcherVars
<1>1. ASSUME NEW c \in Chains, OrdersChange(c) \/ KeyExpires(c) PROVE ManagerTypeOK'
  BY <1>1 DEF OrdersChange, KeyExpires
<1>2. CASE QueryOrders \/ LockForCheck \/ UnlockAfterCheck \/ MonitorTick \/ MonitorStop
  BY <1>2 DEF QueryOrders, LockForCheck, UnlockAfterCheck, MonitorTick, MonitorStop,
         Active
<1>3. CASE ForgetChain \/ ChainStopped
  BY <1>3 DEF ForgetChain, ChainStopped
<1>4. ASSUME NEW c \in Chains, StopIdleChain(c) \/ StopActiveChain(c) PROVE ManagerTypeOK'
  <2>1. active[c] \in Lives
    BY <1>4 DEF StopIdleChain, StopActiveChain, Active
  <2>2. ctxDone' \in SUBSET Watchers
    BY <1>4, <2>1 DEF StopIdleChain, StopActiveChain, CancelWatcher
  <2>3. QED
    BY <1>4, <2>2 DEF StopIdleChain, StopActiveChain
<1>5. ASSUME NEW c \in Chains, StartRequiredChain(c) PROVE ManagerTypeOK'
  BY <1>5 DEF StartRequiredChain
<1>6. ASSUME NEW w \in Watchers, LeaveScheduler(w) \/ RemoveKey(w) PROVE ManagerTypeOK'
  BY <1>6 DEF LeaveScheduler, RemoveKey
<1>7. CASE Signal \/ CancelRoot \/ AwaitSignal \/ CloseStopChan \/ LockForStopAll
  <2>1. CASE Signal
    <3>1. stops' \in 0..MaxStops
      BY <2>1 DEF Signal
    <3>2. QED
      BY <2>1, <3>1 DEF Signal
  <2>2. CASE CancelRoot \/ AwaitSignal \/ CloseStopChan \/ LockForStopAll
    BY <2>2 DEF CancelRoot, AwaitSignal, CloseStopChan, LockForStopAll
  <2>3. QED
    BY <1>7, <2>1, <2>2
<1>8. CASE ClearChains \/ Exit \/ Boot
  <2>1. [c \in Chains |-> 0] \in [Chains -> {0} \cup Lives]
    OBVIOUS
  <2>2. [w \in Watchers |-> "free"] \in [Watchers -> {"free", "run", "cleanup"}]
    OBVIOUS
  <2>3. stops' \in 0..MaxStops
    <3>1. stops' = stops \/ (stops < MaxStops /\ stops' = stops + 1)
      BY <1>8 DEF ClearChains, Exit, Boot
    <3>2. QED
      BY <3>1
  <2>4. CASE ClearChains
    BY <2>1, <2>4 DEF ClearChains
  <2>5. CASE Exit
    BY <2>1, <2>2, <2>3, <2>5 DEF Exit, LoseMemory
  <2>6. CASE Boot
    BY <2>6 DEF Boot
  <2>7. QED
    BY <1>8, <2>4, <2>5, <2>6
<1>9. CASE UNCHANGED managerVars
  BY <1>9 DEF managerVars
<1>10. QED
  BY <1>1, <1>2, <1>3, <1>4, <1>5, <1>6, <1>7, <1>8, <1>9
     DEF ManagerNext, Check, StopAllChains

\* Every variable of the manager keeps its type; in particular only watchers
\* that were launched are ever cancelled (stopChainWorker).
THEOREM ManagerTypeCorrect == ManagerSpec => []ManagerTypeOK
<1>1. ManagerInit => ManagerTypeOK
  BY ManagerTypeInit
<1>2. ManagerTypeOK /\ [ManagerNext]_managerVars => ManagerTypeOK'
  BY ManagerTypeStep
<1>3. QED
  BY <1>1, <1>2, PTL DEF ManagerSpec

-----------------------------------------------------------------------------
LEMMA WatcherInit == ManagerInit => WatcherInv
<1> SUFFICES ASSUME ManagerInit PROVE WatcherInv
  OBVIOUS
<1>1. LockInv /\ StopInv /\ MapInv
  BY ManagerAssumption DEF ManagerAssumption, ManagerInit, LockInv, StopInv, MapInv, Active
<1>2. NoLeakedWatcher
  BY PairIsWatcher DEF ManagerInit, NoLeakedWatcher, Live
<1>3. QED
  BY <1>1, <1>2 DEF WatcherInv

\* Steps that touch neither the map nor the watchers nor the mutex.
LEMMA WatchersKept ==
  ASSUME WatcherInv, UNCHANGED <<mainPc, stopped, mutex, stopping>>,
         UNCHANGED <<active, life, ctxDone>>,
         monitorPc' = "stop" <=> monitorPc = "stop",
         rootDone => rootDone'
  PROVE  WatcherInv'
BY DEF WatcherInv, LockInv, StopInv, MapInv, NoLeakedWatcher, Active, Live, Done

\* Cancelling one watcher on behalf of whoever holds the mutex.
LEMMA CancelKeeps ==
  ASSUME ManagerTypeOK, WatcherInv, NEW c \in Active, CancelWatcher(c),
         mutex # "free", stopping = NoChain, stopping' = c,
         UNCHANGED <<mainPc, monitorPc, stopped, mutex, rootDone, active, life>>
  PROVE  WatcherInv'
<1>1. ctxDone \subseteq ctxDone' /\ ctxDone' \subseteq ctxDone \cup {<<c, active[c]>>}
      /\ <<c, active[c]>> \in ctxDone'
  BY DEF CancelWatcher
<1>2. LockInv'
  BY DEF WatcherInv, LockInv
<1>3. StopInv'
  BY <1>1 DEF WatcherInv, StopInv, Active
<1>4. MapInv'
  <2> SUFFICES ASSUME ~rootDone', NEW d \in Active
               PROVE  IF <<d, active[d]>> \in ctxDone'
                      THEN d = stopping' \/ d \in stopped'
                      ELSE life'[<<d, active[d]>>] = "run"
    BY DEF MapInv, Active
  <2>1. CASE d = c
    BY <1>1, <2>1
  <2>2. CASE d # c
    <3>1. <<d, active[d]>> \in ctxDone' <=> <<d, active[d]>> \in ctxDone
      BY <1>1, <2>2
    <3>2. d # stopping
      BY ManagerAssumption DEF ManagerAssumption, Active
    <3>3. QED
      BY <3>1, <3>2 DEF WatcherInv, MapInv
  <2>3. QED
    BY <2>1, <2>2
<1>5. NoLeakedWatcher'
  BY <1>1 DEF WatcherInv, NoLeakedWatcher, Live, Done
<1>6. QED
  BY <1>2, <1>3, <1>4, <1>5 DEF WatcherInv

\* A chain taken out of the map leaves no live watcher behind.
LEMMA ForgetKeeps ==
  ASSUME ManagerTypeOK, WatcherInv, ForgetChain
  PROVE  WatcherInv'
<1> USE DEF mainVars, monitorVars, shutdownVars
<1>1. /\ stopping \in Chains /\ stopping' = NoChain
      /\ active' = [active EXCEPT ![stopping] = 0]
      /\ UNCHANGED <<mainPc, monitorPc, stopped, mutex, rootDone, life, ctxDone>>
      /\ monitorPc = "stop"
  BY DEF ForgetChain, ManagerTypeOK
<1>2. mutex = "monitor" /\ mainPc # "stop" /\ stopped = {}
  BY <1>1 DEF WatcherInv, LockInv
<1>3. LockInv'
  BY <1>1, <1>2 DEF WatcherInv, LockInv
<1>4. StopInv'
  BY <1>1, <1>2, ManagerAssumption DEF ManagerAssumption, StopInv
<1>5. MapInv'
  BY <1>1, <1>2 DEF WatcherInv, MapInv, Active, ManagerTypeOK
<1>6. NoLeakedWatcher'
  <2>1. <<stopping, active[stopping]>> \in ctxDone
    BY <1>1 DEF WatcherInv, StopInv
  <2>2. QED
    BY <1>1, <2>1 DEF WatcherInv, NoLeakedWatcher, Live, Done, ManagerTypeOK
<1>7. QED
  BY <1>3, <1>4, <1>5, <1>6 DEF WatcherInv

\* A chain not in the map has no live watcher, so the one started is alone.
LEMMA StartKeeps ==
  ASSUME ManagerTypeOK, WatcherInv, NEW c \in Chains, StartRequiredChain(c)
  PROVE  WatcherInv'
<1> USE DEF mainVars, monitorVars, shutdownVars, lockVars
<1>1. PICK n \in Lives :
        /\ life[<<c, n>>] = "free"
        /\ active' = [active EXCEPT ![c] = n]
        /\ life' = [life EXCEPT ![<<c, n>>] = "run"]
        /\ ctxDone' = ctxDone \ {<<c, n>>}
  BY DEF StartRequiredChain
<1>2. /\ active[c] = 0 /\ stopping = NoChain /\ monitorPc = "stop"
      /\ UNCHANGED <<mainPc, monitorPc, stopped, mutex, rootDone, stopping>>
  BY DEF StartRequiredChain, Active
<1>3. mutex = "monitor" /\ mainPc # "stop" /\ stopped = {}
  BY <1>2 DEF WatcherInv, LockInv
<1>4. /\ active \in [Chains -> {0} \cup Lives] /\ 0 \notin Lives
      /\ life \in [Watchers -> {"free", "run", "cleanup"}] /\ <<c, n>> \in Watchers
  BY LivesArePositive, PairIsWatcher DEF ManagerTypeOK
<1>5. /\ active'[c] = n /\ life'[<<c, n>>] = "run" /\ <<c, n>> \notin ctxDone'
      /\ \A d \in Chains : d # c => active'[d] = active[d]
      /\ \A w \in Watchers : w # <<c, n>> =>
           life'[w] = life[w] /\ (w \in ctxDone' <=> w \in ctxDone)
  BY <1>1, <1>4
<1>6. LockInv'
  BY <1>2, <1>3 DEF WatcherInv, LockInv
<1>7. StopInv'
  BY <1>2, <1>3, ManagerAssumption DEF ManagerAssumption, StopInv
<1>8. MapInv'
  <2> SUFFICES ASSUME ~rootDone', NEW d \in Chains, active'[d] # 0
               PROVE  IF <<d, active'[d]>> \in ctxDone'
                      THEN d = stopping' \/ d \in stopped'
                      ELSE life'[<<d, active'[d]>>] = "run"
    BY DEF MapInv, Active
  <2>1. CASE d = c
    BY <1>5, <2>1
  <2>2. CASE d # c
    <3>1. active'[d] = active[d] /\ active[d] \in Lives
      BY <1>4, <1>5, <2>2
    <3>2. <<d, active[d]>> \in Watchers /\ <<d, active[d]>> # <<c, n>>
      BY <2>2, <3>1, PairIsWatcher
    <3>3. QED
      BY <1>2, <1>5, <3>1, <3>2 DEF WatcherInv, MapInv, Active
  <2>3. QED
    BY <2>1, <2>2
<1>9. NoLeakedWatcher'
  <2> SUFFICES ASSUME NEW d \in Chains, NEW m \in Lives, Live(<<d, m>>)'
               PROVE  active'[d] = m
    BY DEF NoLeakedWatcher
  <2>1. CASE <<d, m>> = <<c, n>>
    BY <1>5, <2>1
  <2>2. CASE <<d, m>> # <<c, n>>
    <3>1. Live(<<d, m>>)
      BY <1>2, <1>5, <2>2, PairIsWatcher DEF Live, Done
    <3>2. active[d] = m
      BY <3>1 DEF WatcherInv, NoLeakedWatcher
    <3>3. QED
      BY <1>2, <1>4, <1>5, <3>2
  <2>3. QED
    BY <2>1, <2>2
<1>10. QED
  BY <1>6, <1>7, <1>8, <1>9 DEF WatcherInv

\* A watcher's own end: its context was done already.
LEMMA EndKeeps ==
  ASSUME ManagerTypeOK, WatcherInv, NEW w \in Watchers,
         LeaveScheduler(w) \/ RemoveKey(w)
  PROVE  WatcherInv'
<1>1. /\ UNCHANGED <<mainPc, stopped, monitorPc, mutex, stopping, rootDone>>
      /\ UNCHANGED <<active, ctxDone>>
      /\ \A v \in Watchers : v # w => life'[v] = life[v]
      /\ life'[w] # "run"
  BY DEF LeaveScheduler, RemoveKey, mainVars, monitorVars, lockVars, shutdownVars,
         ManagerTypeOK
<1>2. LockInv' /\ StopInv'
  BY <1>1 DEF WatcherInv, LockInv, StopInv
<1>3. NoLeakedWatcher'
  <2> SUFFICES ASSUME NEW d \in Chains, NEW m \in Lives, Live(<<d, m>>)'
               PROVE  active'[d] = m
    BY DEF NoLeakedWatcher
  <2>1. <<d, m>> # w /\ <<d, m>> \in Watchers
    BY <1>1, PairIsWatcher DEF Live
  <2>2. Live(<<d, m>>)
    BY <1>1, <2>1 DEF Live, Done
  <2>3. QED
    BY <1>1, <2>2 DEF WatcherInv, NoLeakedWatcher
<1>4. MapInv'
  <2> SUFFICES ASSUME ~rootDone, NEW d \in Active
               PROVE  IF <<d, active[d]>> \in ctxDone
                      THEN d = stopping \/ d \in stopped
                      ELSE life'[<<d, active[d]>>] = "run"
    BY <1>1 DEF MapInv, Active
  <2>1. active[d] \in Lives /\ <<d, active[d]>> \in Watchers
    BY LivesArePositive, PairIsWatcher DEF ManagerTypeOK, Active
  <2>2. CASE <<d, active[d]>> # w
    BY <1>1, <2>1, <2>2 DEF WatcherInv, MapInv
  <2>3. CASE <<d, active[d]>> = w /\ w \notin ctxDone
    <3>1. life[w] = "run"
      BY <2>3 DEF WatcherInv, MapInv
    <3>2. FALSE
      BY <2>3, <3>1 DEF LeaveScheduler, RemoveKey, Done
    <3>3. QED
      BY <3>2
  <2>4. CASE <<d, active[d]>> = w /\ w \in ctxDone
    BY <2>4 DEF WatcherInv, MapInv
  <2>5. QED
    BY <2>2, <2>3, <2>4
<1>5. QED
  BY <1>2, <1>3, <1>4 DEF WatcherInv

\* stopAllChains empties the map only when it has cancelled all it held.
LEMMA ClearKeeps ==
  ASSUME ManagerTypeOK, WatcherInv, ClearChains
  PROVE  WatcherInv'
<1>1. /\ stopping = NoChain /\ Active \subseteq stopped
      /\ active' = [c \in Chains |-> 0] /\ stopped' = {}
      /\ mutex' = "free" /\ mainPc' = "returned" /\ mainPc = "stop"
      /\ UNCHANGED <<monitorPc, stopping, rootDone, life, ctxDone>>
  BY DEF ClearChains, monitorVars, shutdownVars
<1>2. LockInv'
  BY <1>1 DEF WatcherInv, LockInv
<1>3. StopInv' /\ MapInv'
  BY <1>1, ManagerAssumption DEF ManagerAssumption, StopInv, MapInv, Active
<1>4. NoLeakedWatcher'
  <2> SUFFICES ASSUME NEW d \in Chains, NEW m \in Lives, Live(<<d, m>>)'
               PROVE  FALSE
    BY DEF NoLeakedWatcher
  <2>1. Live(<<d, m>>)
    BY <1>1 DEF Live, Done
  <2>2. active[d] = m /\ m # 0
    BY <2>1, LivesArePositive DEF WatcherInv, NoLeakedWatcher
  <2>3. d \in stopped
    BY <1>1, <2>2 DEF Active
  <2>4. QED
    BY <2>1, <2>2, <2>3 DEF WatcherInv, StopInv, Live, Done
<1>5. QED
  BY <1>2, <1>3, <1>4 DEF WatcherInv

LEMMA WatcherStep == ManagerTypeOK /\ WatcherInv /\ [ManagerNext]_managerVars =>
        WatcherInv'
<1> SUFFICES ASSUME ManagerTypeOK, WatcherInv, [ManagerNext]_managerVars
             PROVE WatcherInv'
  OBVIOUS
<1> USE DEF processVars, shutdownVars, mainVars, monitorVars, lockVars, watcherVars
<1>1. ASSUME NEW c \in Chains, OrdersChange(c) \/ KeyExpires(c) PROVE WatcherInv'
  BY <1>1, WatchersKept DEF OrdersChange, KeyExpires
<1>2. CASE QueryOrders \/ MonitorTick \/ MonitorStop \/ Signal \/ CancelRoot
  BY <1>2, WatchersKept DEF QueryOrders, MonitorTick, MonitorStop, Signal, CancelRoot
<1>3. CASE \/ LockForCheck \/ UnlockAfterCheck \/ AwaitSignal \/ CloseStopChan
           \/ LockForStopAll
  <2>1. LockInv'
    BY <1>3 DEF LockForCheck, UnlockAfterCheck, AwaitSignal, CloseStopChan, LockForStopAll,
                WatcherInv, LockInv
  <2>2. UNCHANGED <<active, life, ctxDone, stopping, stopped, rootDone>>
    BY <1>3 DEF LockForCheck, UnlockAfterCheck, AwaitSignal, CloseStopChan, LockForStopAll
  <2>3. QED
    BY <2>1, <2>2 DEF WatcherInv, StopInv, MapInv, NoLeakedWatcher, Active, Live, Done
<1>4. ASSUME NEW c \in Chains, StopIdleChain(c) \/ StopActiveChain(c) PROVE WatcherInv'
  <2>1. c \in Active /\ mutex # "free"
    BY <1>4 DEF StopIdleChain, StopActiveChain, WatcherInv, LockInv
  <2>2. QED
    BY <1>4, <2>1, CancelKeeps DEF StopIdleChain, StopActiveChain
<1>5. CASE ForgetChain
  BY <1>5, ForgetKeeps
<1>6. ASSUME NEW c \in Chains, StartRequiredChain(c) PROVE WatcherInv'
  BY <1>6, StartKeeps
<1>7. ASSUME NEW w \in Watchers, LeaveScheduler(w) \/ RemoveKey(w) PROVE WatcherInv'
  BY <1>7, EndKeeps
<1>8. CASE ChainStopped
  <2>1. /\ stopping \in Chains /\ stopped' = stopped \cup {stopping} /\ stopping' = NoChain
        /\ UNCHANGED <<mainPc, monitorPc, mutex, rootDone, active, life, ctxDone>>
        /\ mainPc = "stop"
    BY <1>8 DEF ChainStopped, ManagerTypeOK
  <2>2. LockInv'
    BY <2>1 DEF WatcherInv, LockInv
  <2>3. QED
    BY <2>1, <2>2, ManagerAssumption
       DEF ManagerAssumption, WatcherInv, StopInv, MapInv, NoLeakedWatcher, Active,
           Live, Done
<1>9. CASE ClearChains
  BY <1>9, ClearKeeps
<1>10. CASE Exit
  BY <1>10, PairIsWatcher, ManagerAssumption
     DEF ManagerAssumption, Exit, LoseMemory, WatcherInv, LockInv, StopInv, MapInv,
         NoLeakedWatcher, Active, Live
<1>11. CASE Boot \/ UNCHANGED managerVars
  BY <1>11, WatchersKept DEF Boot, managerVars
<1>12. QED
  BY <1>1, <1>2, <1>3, <1>4, <1>5, <1>6, <1>7, <1>8, <1>9, <1>10, <1>11
     DEF ManagerNext, Check, StopAllChains

LEMMA WatcherAlways == ManagerSpec => [](ManagerTypeOK /\ WatcherInv)
<1>1. ManagerInit => ManagerTypeOK /\ WatcherInv
  BY ManagerTypeInit, WatcherInit
<1>2. ManagerTypeOK /\ WatcherInv /\ [ManagerNext]_managerVars => ManagerTypeOK' /\ WatcherInv'
  BY ManagerTypeStep, WatcherStep
<1>3. QED
  BY <1>1, <1>2, PTL DEF ManagerSpec

\* No watcher is ever leaked: one whose context is not done is in the map,
\* where a check or stopAllChains finds it.
THEOREM NoLeak == ManagerSpec => []NoLeakedWatcher
<1>1. WatcherInv => NoLeakedWatcher
  BY DEF WatcherInv
<1>2. QED
  BY <1>1, WatcherAlways, PTL

\* No chain is watched twice at a time (manageChainsBasedOnOrders).
THEOREM OneWatcher == ManagerSpec => []OneLiveWatcher
<1>1. WatcherInv => OneLiveWatcher
  BY DEF WatcherInv, NoLeakedWatcher, OneLiveWatcher
<1>2. QED
  BY <1>1, WatcherAlways, PTL

\* When the mutex is free and the program goes on, a chain in the map is
\* really watched, so no chain waits for a watcher that is dead.
THEOREM MapIsTrue == ManagerSpec => []MapTellsTheTruth
<1>1. ManagerTypeOK /\ WatcherInv => MapTellsTheTruth
  <2> SUFFICES ASSUME ManagerTypeOK, WatcherInv, mutex = "free", ~rootDone, NEW c \in Active
               PROVE  Live(<<c, active[c]>>)
    BY DEF MapTellsTheTruth
  <2>1. stopping = NoChain /\ stopped = {}
    BY DEF WatcherInv, LockInv
  <2>2. c # stopping /\ c \notin stopped
    BY <2>1, ManagerAssumption DEF ManagerAssumption, Active
  <2>3. QED
    BY <2>2 DEF WatcherInv, MapInv, Live, Done
<1>2. ManagerSpec => [](ManagerTypeOK /\ WatcherInv)
  BY WatcherAlways
<1>3. QED
  BY <1>1, <1>2, PTL
=============================================================================
