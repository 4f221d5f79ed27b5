------------------------------ MODULE UseCases ------------------------------
(***************************************************************************)
(* The use cases as the server runs them: a request is a goroutine that    *)
(* serves a call of AccountUseCase or of OrderUseCase, all over the same   *)
(* database, which the node server and the workers write as well.          *)
(***************************************************************************)
EXTENDS Integers, Sequences

CONSTANTS
  Requests, None, MaxMoves,
  Currencies, ChainOf, Addresses, Imports, Batch, MaxAccounts,
  Statuses, Ops, MaxOrders

VARIABLES accounts, listed, orders, moves, call

A == INSTANCE Accounts
O == INSTANCE OrderStore

ASSUME UseCasesAssumption == A!AccountsAssumption /\ O!OrderStoreAssumption

vars == <<accounts, listed, orders, moves, call>>

Init == A!Init /\ O!Init
Step(r) == (A!Step(r) /\ UNCHANGED orders) \/ (O!Step(r) /\ UNCHANGED <<accounts, listed>>)
Others == (A!Others /\ UNCHANGED orders) \/ (O!Others /\ UNCHANGED <<accounts, listed>>)
Next == Others \/ \E r \in Requests : Step(r)
Spec == Init /\ [][Next]_vars
-----------------------------------------------------------------------------
\* Both collections are well formed and every request is in a state of the use
\* case that serves it; no order has the zero time as its time of deletion.
TypeOK ==
  /\ A!CollectionOK /\ O!CollectionOK
  /\ call \in [Requests -> A!Calls \cup O!Calls \cup {A!Idle, A!Over}]

\* The properties of the two use cases, see Accounts and OrderStore.
DuplicatesOverlap == A!DuplicatesOverlap
SuccessIsComplete == A!SuccessIsComplete
AccountsStayDeleted == A!AccountsStayDeleted
OnlyGivenFieldsChange == O!OnlyGivenFieldsChange

\* What makes them hold of every step.
CallOK == DOMAIN call = Requests /\ \A r \in Requests : "kind" \in DOMAIN call[r]
UseCasesInv == CallOK /\ A!AccountsInv /\ O!StoreInv
ImportsInv == UseCasesInv /\ TypeOK /\ A!SuccessInv
=============================================================================
