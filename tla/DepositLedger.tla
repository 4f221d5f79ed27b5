--------------------------- MODULE DepositLedger ---------------------------
(***************************************************************************)
(* What the EVM deposit watcher promises about the orders collection, with *)
(* no word on blocks, cursors, queues or workers: a transfer that the      *)
(* chain contains is recorded on an order it pays, and on no other, once   *)
(* that order has been opened for deposits.  The other programs that share *)
(* the collection open orders and settle them.                             *)
(***************************************************************************)
CONSTANTS
  Orders,      \* documents of the orders collection
  Transfers,   \* native payments and token Transfer logs
  None,        \* no transaction recorded yet
  Pays         \* Pays \subseteq Transfers \X Orders

VARIABLES
  status,      \* orders[o].status
  latestTx,    \* orders[o].latestTxHash
  mined        \* the transfers the chain contains

vars == <<status, latestTx, mined>>

OrderStatus == {"CREATED", "PENDING", "DEPOSIT_CONFIRMING", "SETTLED"}

Init ==
  /\ status \in [Orders -> {"CREATED", "PENDING"}]
  /\ latestTx = [o \in Orders |-> None]
  /\ mined = {}

Mine ==
  /\ \E ts \in SUBSET Transfers : mined' = mined \cup ts
  /\ UNCHANGED <<status, latestTx>>

Open(o) ==
  /\ status[o] = "CREATED"
  /\ status' = [status EXCEPT ![o] = "PENDING"]
  /\ UNCHANGED <<latestTx, mined>>

\* The watcher's only write.  It is not guarded by the order's present
\* status: the order was seen PENDING at some earlier moment.
RecordDeposit(o, t) ==
  /\ t \in mined
  /\ <<t, o>> \in Pays
  /\ status[o] # "CREATED"
  /\ status' = [status EXCEPT ![o] = "DEPOSIT_CONFIRMING"]
  /\ latestTx' = [latestTx EXCEPT ![o] = t]
  /\ UNCHANGED mined

Settle(o) ==
  /\ status[o] # "CREATED"
  /\ status' = [status EXCEPT ![o] = "SETTLED"]
  /\ UNCHANGED <<latestTx, mined>>

Next ==
  \/ Mine
  \/ \E o \in Orders : Open(o) \/ Settle(o)
  \/ \E o \in Orders, t \in Transfers : RecordDeposit(o, t)

Spec == Init /\ [][Next]_vars
=============================================================================
