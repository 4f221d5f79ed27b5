--------------------------- MODULE ChangeNowOrders ---------------------------
(***************************************************************************)
(* The ChangeNow worker: internal/worker/changenow/worker.go.              *)
(*                                                                         *)
(* A checker goroutine asks, every two minutes, the ChangeNow service for  *)
(* the status of each order that a query finds open, and consumers do the  *)
(* same for the order of every job they pop.  An answer "finished" is      *)
(* posted to the node server, which settles the order; "failed", or        *)
(* "waiting" for more than two hours, sets the order to FAILED by an       *)
(* update that does not look at the status the order has by then.          *)
(*                                                                         *)
(* The transaction of an order is called its deal.  A job's order id names *)
(* both the deal and the document; where it does not, the question fails.  *)
(***************************************************************************)
EXTENDS Integers, Sequences, FiniteSets

CONSTANTS
  Orders,      \* documents of the orders collection
  Watched,     \* those with flow BUY, provider ChangeNow and its order id
  Consumers,   \* goroutines of ProcessJobs
  Checker,     \* the goroutine of runPeriodicCheck
  None,
  MaxAttempts, \* requests makeRequest sends at most: 1 + retries
  MaxJobs, MaxFaults  \* bounds

Workers == Consumers \cup {Checker}

ASSUME WorkerAssumption ==
  /\ Watched \subseteq Orders
  /\ Checker \notin Consumers
  /\ None \notin Orders
  /\ MaxAttempts \in Nat \ {0}
  /\ {MaxJobs, MaxFaults} \subseteq Nat

VARIABLES
  deal,      \* status of each order's transaction at ChangeNow
  old,       \* orders whose transaction is more than two hours old
  status,    \* orders[o].status
  jobs,      \* the Redis list ChangeNowWatcherQueue
  told,      \* orders the node server has received a webhook about
  pc,        \* where each worker stands
  todo,      \* the checker's orders still to ask about
  target,    \* the order in hand
  verdict,   \* what the answer about it calls for
  attempt,   \* requests sent of the webhook in hand
  spent,     \* workers whose webhook's body has been read by an attempt
  faults,    \* failures and restarts so far
  overdue    \* history: orders whose deal was still waiting when it was old

dealVars == <<deal, old, overdue>>
storeVars == <<status, told>>
runVars == <<pc, todo, target, verdict, attempt, spent>>
vars == <<dealVars, storeVars, jobs, runVars, faults>>

\* confirming, exchanging and sending count as progress, completed as
\* finished, refunded and expired as failed.
DealStatus == {"waiting", "progress", "finished", "failed"}
OrderStatus == {"PENDING", "DEPOSIT_CONFIRMING", "SETTLED", "FAILED"}
Steps == {"idle", "check", "ask", "load", "post", "fail"}
Verdicts == {"post", "fail", "leave"}

Open(o) == status[o] \in {"PENDING", "DEPOSIT_CONFIRMING"}

\* Mutant: the query forgets the orders whose deposit has been seen.
PendingOrders == {o \in Watched : status[o] = "PENDING"}

\* The query of checkBTCBuyOrders.
OpenOrders == {o \in Watched : Open(o)}

\* Mutant: the age of a waiting transaction is not looked at.
VerdictAtAnyAge(o) ==
  CASE deal[o] = "finished" -> "post"
    [] deal[o] \in {"failed", "waiting"} -> "fail"
    [] OTHER -> "leave"

\* The switch over txStatus["status"].
Verdict(o) ==
  CASE deal[o] = "finished" -> "post"
    [] deal[o] = "failed" \/ (deal[o] = "waiting" /\ o \in old) -> "fail"
    [] OTHER -> "leave"

Fault == faults < MaxFaults /\ faults' = faults + 1
NoFault == UNCHANGED faults

\* Done with the order in hand: the checker goes on with its list, a
\* consumer returns from the handler.
Resume(w) ==
  /\ pc' = [pc EXCEPT ![w] = IF w = Checker /\ todo' # {} THEN "check" ELSE "idle"]
  /\ target' = [target EXCEPT ![w] = None]
  /\ verdict' = [verdict EXCEPT ![w] = "leave"]
  /\ attempt' = [attempt EXCEPT ![w] = 0]
  /\ spent' = spent \ {w}

-----------------------------------------------------------------------------
Init ==
  /\ deal = [o \in Orders |-> "waiting"]
  /\ old = {}
  /\ status = [o \in Orders |-> "PENDING"]
  /\ jobs = <<>>
  /\ told = {}
  /\ pc = [w \in Workers |-> "idle"]
  /\ todo = {}
  /\ target = [w \in Workers |-> None]
  /\ verdict = [w \in Workers |-> "leave"]
  /\ attempt = [w \in Workers |-> 0]
  /\ spent = {}
  /\ faults = 0
  /\ overdue = {}

\* ChangeNow: a late deposit still moves an old transaction on.
MoveDeal(o, s) ==
  /\ \/ deal[o] = "waiting" /\ s \in {"progress", "failed"}
     \/ deal[o] = "progress" /\ s \in {"finished", "failed"}
  /\ deal' = [deal EXCEPT ![o] = s]
  /\ UNCHANGED <<old, overdue, storeVars, jobs, runVars, faults>>

\* Two hours have passed since the transaction was created.
GrowOld(o) ==
  /\ o \notin old
  /\ old' = old \cup {o}
  /\ overdue' = IF deal[o] = "waiting" THEN overdue \cup {o} ELSE overdue
  /\ UNCHANGED <<deal, storeVars, jobs, runVars, faults>>

\* A chain's watcher found the order pending and writes DEPOSIT_CONFIRMING,
\* whatever its status has become (evm/processor.go: processOrderTransaction).
ConfirmDeposit(o) ==
  /\ status[o] # "DEPOSIT_CONFIRMING"
  /\ status' = [status EXCEPT ![o] = "DEPOSIT_CONFIRMING"]
  /\ UNCHANGED <<dealVars, told, jobs, runVars, faults>>

\* The node server settles an order, after a webhook or on its own account.
SettleOrder(o) ==
  /\ Open(o)
  /\ status' = [status EXCEPT ![o] = "SETTLED"]
  /\ UNCHANGED <<dealVars, told, jobs, runVars, faults>>

\* Another program pushes a job.
PushJob(o) ==
  /\ Len(jobs) < MaxJobs
  /\ jobs' = Append(jobs, o)
  /\ UNCHANGED <<dealVars, storeVars, runVars, faults>>
-----------------------------------------------------------------------------
\* checkBTCBuyOrders up to its loop, run at once and then at every tick.
StartCheck ==
  /\ pc[Checker] = "idle"
  /\ \/ NoFault /\ todo' = OpenOrders
     \/ Fault /\ todo' = {}
  /\ pc' = [pc EXCEPT ![Checker] = IF todo' = {} THEN "idle" ELSE "check"]
  /\ UNCHANGED <<dealVars, storeVars, jobs, target, verdict, attempt, spent>>

\* GetTransactionStatus for one order of the list, in the list's order, which
\* is Mongo's and unspecified.
CheckOrder(o) ==
  /\ pc[Checker] = "check"
  /\ o \in todo
  /\ todo' = todo \ {o}
  /\ \/ /\ NoFault
        /\ Verdict(o) # "leave"
        /\ target' = [target EXCEPT ![Checker] = o]
        /\ verdict' = [verdict EXCEPT ![Checker] = Verdict(o)]
        /\ pc' = [pc EXCEPT ![Checker] = Verdict(o)]
        /\ UNCHANGED <<attempt, spent>>
     \/ NoFault /\ Verdict(o) = "leave" /\ Resume(Checker)
     \/ Fault /\ Resume(Checker)
  /\ UNCHANGED <<dealVars, storeVars, jobs>>

\* BLPop in ProcessJobs.
PopJob(w) ==
  /\ w # Checker
  /\ pc[w] = "idle"
  /\ jobs # <<>>
  /\ target' = [target EXCEPT ![w] = Head(jobs)]
  /\ jobs' = Tail(jobs)
  /\ pc' = [pc EXCEPT ![w] = "ask"]
  /\ UNCHANGED <<dealVars, storeVars, todo, verdict, attempt, spent, faults>>

\* processChangeNowTransaction: the question to ChangeNow.
AskForJob(w) ==
  /\ pc[w] = "ask"
  /\ UNCHANGED todo
  /\ \/ /\ NoFault
        /\ verdict' = [verdict EXCEPT ![w] = Verdict(target[w])]
        /\ pc' = [pc EXCEPT ![w] = "load"]
        /\ UNCHANGED <<target, attempt, spent>>
     \/ Fault /\ Resume(w)
  /\ UNCHANGED <<dealVars, storeVars, jobs>>

\* Then FindOne for the order, and the switch.
LoadOrder(w) ==
  /\ pc[w] = "load"
  /\ UNCHANGED todo
  /\ \/ /\ NoFault
        /\ verdict[w] # "leave"
        /\ pc' = [pc EXCEPT ![w] = verdict[w]]
        /\ UNCHANGED <<target, verdict, attempt, spent>>
     \/ NoFault /\ verdict[w] = "leave" /\ Resume(w)
     \/ Fault /\ Resume(w)
  /\ UNCHANGED <<dealVars, storeVars, jobs>>

\* Mutant: one attempt too many.
MayRetryOnceMore(w) == attempt[w] <= MaxAttempts

\* The loop of makeRequest has another attempt.
MayRetry(w) == attempt[w] < MaxAttempts

TryAgain(w) ==
  /\ attempt' = [attempt EXCEPT ![w] = @ + 1]
  /\ UNCHANGED <<pc, target, verdict>>

\* One request of requestManager.Post.  One that does not get out, one whose
\* answer is lost and one answered with 5xx, the last two perhaps received, is
\* retried; a 4xx answer is not.
PostWebhook(w) ==
  /\ pc[w] = "post"
  /\ MayRetry(w)
  /\ w \notin spent
  /\ UNCHANGED todo
  /\ \/ NoFault /\ told' = told \cup {target[w]} /\ Resume(w)
     \/ Fault /\ TryAgain(w) /\ UNCHANGED <<told, spent>>
     \/ /\ Fault
        /\ told' \in {told, told \cup {target[w]}}
        /\ TryAgain(w)
        /\ spent' = spent \cup {w}
     \/ Fault /\ UNCHANGED told /\ Resume(w)
  /\ UNCHANGED <<dealVars, status, jobs>>

\* Every attempt sends the same request: after one that has read the body the
\* next ones go out without it and fail, at most with an answer that ends the
\* loop.
RetryWithoutBody(w) ==
  /\ pc[w] = "post"
  /\ MayRetry(w)
  /\ w \in spent
  /\ UNCHANGED todo
  /\ Resume(w) \/ (TryAgain(w) /\ UNCHANGED spent)
  /\ UNCHANGED <<dealVars, storeVars, jobs, faults>>

GiveUpWebhook(w) ==
  /\ pc[w] = "post"
  /\ ~MayRetry(w)
  /\ UNCHANGED todo
  /\ Resume(w)
  /\ UNCHANGED <<dealVars, storeVars, jobs, faults>>

\* UpdateByID with status FAILED.
FailOrder(w) ==
  /\ pc[w] = "fail"
  /\ UNCHANGED todo
  /\ \/ NoFault /\ status' = [status EXCEPT ![target[w]] = "FAILED"]
     \/ Fault /\ UNCHANGED status
  /\ Resume(w)
  /\ UNCHANGED <<dealVars, told, jobs>>

\* The process dies and starts again.
Restart ==
  /\ Fault
  /\ pc' = [w \in Workers |-> "idle"]
  /\ todo' = {}
  /\ target' = [w \in Workers |-> None]
  /\ verdict' = [w \in Workers |-> "leave"]
  /\ attempt' = [w \in Workers |-> 0]
  /\ spent' = {}
  /\ UNCHANGED <<dealVars, storeVars, jobs>>

Handle(w) ==
  \/ PopJob(w) \/ AskForJob(w) \/ LoadOrder(w)
  \/ PostWebhook(w) \/ RetryWithoutBody(w) \/ GiveUpWebhook(w) \/ FailOrder(w)

Check == StartCheck \/ (\E o \in Orders : CheckOrder(o))

Next ==
  \/ \E o \in Orders :
       \/ \E s \in DealStatus : MoveDeal(o, s)
       \/ GrowOld(o) \/ ConfirmDeposit(o) \/ SettleOrder(o) \/ PushJob(o)
  \/ Check
  \/ \E w \in Workers : Handle(w)
  \/ Restart

Spec == Init /\ [][Next]_vars

\* The ticker goes on and goroutines are scheduled.  Every call returns: the
\* clients of the provider and of the request manager have timeouts.
FairSpec == Spec /\ WF_vars(Check) /\ \A w \in Workers : WF_vars(Handle(w))
-----------------------------------------------------------------------------
TypeOK ==
  /\ deal \in [Orders -> DealStatus]
  /\ old \subseteq Orders /\ overdue \subseteq Orders
  /\ status \in [Orders -> OrderStatus]
  /\ jobs \in Seq(Orders)
  /\ told \subseteq Orders
  /\ pc \in [Workers -> Steps]
  /\ todo \subseteq Orders
  /\ target \in [Workers -> Orders \cup {None}]
  /\ verdict \in [Workers -> Verdicts]
  /\ attempt \in [Workers -> 0..MaxAttempts]
  /\ spent \subseteq Workers
  /\ faults \in Nat
  /\ \A w \in Workers : pc[w] \in {"ask", "load", "post", "fail"} => target[w] \in Orders

\* What gives the worker the right to fail an order.
BrokenOff(o) == deal[o] = "failed" \/ o \in overdue

\* Whoever asked and however long ago: an order is set FAILED only if its
\* transaction failed or was waiting past its time, and the node server is
\* told only of finished ones (processOrderStatus and
\* processChangeNowTransaction act on an answer read before other calls).
NoFalseAlarm ==
  \A o \in Orders :
    /\ status[o] = "FAILED" => BrokenOff(o)
    /\ o \in told => deal[o] = "finished"

\* The periodic check makes up for lost jobs, failed requests and crashes: a
\* watched order whose transaction has finished or failed is reported to the
\* node server or does not stay open.
OutcomeIsActedOn ==
  \A o \in Watched :
    deal[o] \in {"finished", "failed"} ~> (o \in told \/ ~Open(o))
=============================================================================
