---------------------------- MODULE OrderStore ----------------------------
(***************************************************************************)
(* The orders collection through OrderUseCase: create, update, update      *)
(* fields, update status and delete, each a read of a whole order and a    *)
(* write of the whole order, while the watcher and the node server write   *)
(* the same documents.  src/usecases/order_usecase.go and the adapter and  *)
(* repository below it.                                                    *)
(*                                                                         *)
(* A request is one goroutine that serves one call.                        *)
(***************************************************************************)
EXTENDS Integers, Sequences

CONSTANTS
  Requests,
  Statuses,   \* beside CREATED, PENDING and DEPOSIT_CONFIRMING
  Ops,        \* what requests ask for
  MaxOrders,  \* bound on the documents
  MaxMoves,   \* bound on what other programs do
  None

AllStatuses == Statuses \cup {"CREATED", "PENDING", "DEPOSIT_CONFIRMING"}

VARIABLES
  orders, \* the collection: a sequence of documents, the index is the id
  moves,  \* what other programs have done so far
  call    \* request -> what it does

vars == <<orders, moves, call>>

\* stamped: the keys of statusTimestamps; amount: zero or not; deletedAt: absent,
\* the zero time, or a time; deposit: latestTxHash is there, which types.Order
\* does not have.
Order ==
  [status : AllStatuses, stamped : SUBSET AllStatuses, amount : {0, 1},
   deletedAt : {"nil", "zero", "time"}, deposit : BOOLEAN]

\* What a caller gives: None and zero are fields left empty; {} a nil map.
Update == [status : AllStatuses \cup {None}, amount : {0, 1}, stamped : SUBSET AllStatuses]
Op ==
  [name : {"merge"}, with : Update]
  \cup [name : {"fields"}, status : AllStatuses \cup {None}, amount : {0, 1, None}]
  \cup [name : {"status"}, status : AllStatuses] \cup [name : {"delete"}]

OrderStoreAssumption ==
  /\ MaxOrders \in Nat \ {0} /\ MaxMoves \in Nat
  /\ None \notin AllStatuses
  /\ Ops \subseteq Op

Idle == [kind |-> "idle"]
Over == [kind |-> "over"]
Calls == [kind : {"order"}, id : Nat, op : Ops, base : Order]

Is(r, kind) == call[r].kind = kind
Continue(r, c) == call' = [call EXCEPT ![r] = c]
Ids == DOMAIN orders
-----------------------------------------------------------------------------
NewOrder(amount) ==
  [status |-> "CREATED", stamped |-> {"CREATED"}, amount |-> amount, deletedAt |-> "nil",
   deposit |-> FALSE]

\* There may be an order the node server made.
Init ==
  /\ orders \in {<<>>} \cup {<<[NewOrder(1) EXCEPT !.status = "PENDING"]>>}
  /\ moves = 0 /\ call = [r \in Requests |-> Idle]

\* The order may be there although the call fails.
CreateOrder(r, amount) ==
  /\ Is(r, "idle")
  /\ \/ Len(orders) < MaxOrders /\ orders' = Append(orders, NewOrder(amount))
     \/ UNCHANGED orders
  /\ Continue(r, Over)
  /\ UNCHANGED moves

\* GetByID finds what has no deletedAt.
Read(r, id, op) ==
  /\ Is(r, "idle") /\ orders[id].deletedAt = "nil"
  /\ Continue(r, [kind |-> "order", id |-> id, op |-> op, base |-> orders[id]])
  /\ UNCHANGED <<orders, moves>>

\* Mutant: empty fields are taken, too.
MergeAll(base, u) ==
  [base EXCEPT !.status = IF u.status = None THEN @ ELSE u.status,
               !.amount = u.amount,
               !.stamped = IF u.stamped = {} THEN @ ELSE u.stamped]

Merge(base, u) ==
  [base EXCEPT !.status = IF u.status = None THEN @ ELSE u.status,
               !.amount = IF u.amount = 0 THEN @ ELSE u.amount,
               !.stamped = IF u.stamped = {} THEN @ ELSE u.stamped]

SetFields(base, op) ==
  [base EXCEPT !.status = IF op.status = None THEN @ ELSE op.status,
               !.amount = IF op.amount = None THEN @ ELSE op.amount]

UpdateStatus(base, s) == [base EXCEPT !.status = s, !.stamped = @ \cup {s}]

\* The time of deletion is the zero time.
MarkAsDeleted(base) == [base EXCEPT !.deletedAt = "zero"]

Changed(base, op) ==
  CASE op.name = "merge"  -> Merge(base, op.with)
    [] op.name = "fields" -> SetFields(base, op)
    [] op.name = "status" -> UpdateStatus(base, op.status)
    [] op.name = "delete" -> MarkAsDeleted(base)

\* Mutant: deletedAt is written whatever it is.
ReplaceOrder(doc, new) == [new EXCEPT !.deposit = doc.deposit]

\* $set: deletedAt is left out when it is absent or the zero time, and what
\* types.Order does not have stays.
SetOrder(doc, new) ==
  [new EXCEPT !.deletedAt = IF @ = "time" THEN @ ELSE doc.deletedAt, !.deposit = doc.deposit]

Write(r) ==
  LET c == call[r]
  IN  /\ Is(r, "order")
      /\ \/ orders' = [orders EXCEPT ![c.id] = SetOrder(@, Changed(c.base, c.op))]
         \/ UNCHANGED orders
      /\ Continue(r, Over)
      /\ UNCHANGED moves
-----------------------------------------------------------------------------
\* The watcher records a deposit; it does not ask for deletedAt.
RecordDeposit(id) ==
  /\ orders[id].status = "PENDING"
  /\ \E b \in {0, 1} :
       orders' = [orders EXCEPT ![id].status = "DEPOSIT_CONFIRMING", ![id].amount = b,
                                ![id].deposit = TRUE]
  /\ moves < MaxMoves /\ moves' = moves + 1 /\ UNCHANGED call

\* The node server moves an order on, or deletes it.
ServerMoves(id, s) ==
  /\ orders' = [orders EXCEPT ![id].status = s, ![id].stamped = @ \cup {s}]
  /\ moves < MaxMoves /\ moves' = moves + 1 /\ UNCHANGED call

ServerDeletes(id) ==
  /\ orders' = [orders EXCEPT ![id].deletedAt = "time"]
  /\ moves < MaxMoves /\ moves' = moves + 1 /\ UNCHANGED call

Step(r) ==
  \/ \E amount \in {0, 1} : CreateOrder(r, amount)
  \/ \E id \in Ids, op \in Ops : Read(r, id, op)
  \/ Write(r)

Others ==
  \E id \in Ids : RecordDeposit(id) \/ ServerDeletes(id) \/ \E s \in AllStatuses : ServerMoves(id, s)

Next == Others \/ \E r \in Requests : Step(r)
Spec == Init /\ [][Next]_vars
-----------------------------------------------------------------------------
CollectionOK ==
  /\ orders \in Seq(Order) /\ Len(orders) <= MaxOrders
  /\ \A i \in Ids : orders[i].deletedAt # "zero"
  /\ moves \in 0..MaxMoves

\* What the caller of an operation gives.
Gives(op, field) ==
  CASE op.name = "merge"  -> IF field = "status" THEN op.with.status # None
                             ELSE IF field = "amount" THEN op.with.amount # 0
                             ELSE op.with.stamped # {}
    [] op.name = "fields" -> field # "stamped" /\ op[field] # None
    [] op.name = "status" -> field # "amount"
    [] op.name = "delete" -> FALSE

\* A request's write changes a field only if its caller gave the field or
\* somebody else had changed it since the request read the order; it never
\* touches the recorded deposit, nor the mark of deletion: not even
\* DeleteOrder's does, whose zero time is left out of the document.
OnlyGivenFieldsChange ==
  [][\A r \in Requests : Is(r, "order") /\ call'[r] = Over =>
       LET c == call[r]
       IN  /\ \A f \in {"status", "amount", "stamped"} :
                orders'[c.id][f] # orders[c.id][f] => Gives(c.op, f) \/ orders[c.id][f] # c.base[f]
           /\ \A f \in {"deposit", "deletedAt"} : orders'[c.id][f] = orders[c.id][f]]_vars

\* What makes it hold of every step: a request has read an order that was not
\* deleted then.
StoreInv ==
  /\ orders \in Seq(Order)
  /\ \A r \in Requests :
       Is(r, "order") =>
         /\ call[r] \in Calls /\ call[r].id \in Ids
         /\ call[r].base.deletedAt = "nil"
=============================================================================
