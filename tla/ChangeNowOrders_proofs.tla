----------------------- MODULE ChangeNowOrders_proofs -----------------------
(***************************************************************************)
(* Proofs about ChangeNowOrders for any orders, consumers and attempts.    *)
(***************************************************************************)
EXTENDS ChangeNowOrders, TLAPS

\* The state of the workers, and the part of it a step must not disturb.
RunOK ==
  /\ pc \in [Workers -> Steps]
  /\ todo \subseteq Orders
  /\ target \in [Workers -> Orders \cup {None}]
  /\ verdict \in [Workers -> Verdicts]
  /\ attempt \in [Workers -> 0..MaxAttempts]
  /\ spent \subseteq Workers
  /\ \A w \in Workers : pc[w] \in {"ask", "load", "post", "fail"} => target[w] \in Orders

RestOK ==
  /\ deal \in [Orders -> DealStatus]
  /\ old \subseteq Orders /\ overdue \subseteq Orders
  /\ status \in [Orders -> OrderStatus]
  /\ jobs \in Seq(Orders)
  /\ told \subseteq Orders
  /\ faults \in Nat

LEMMA TypeParts == TypeOK <=> RunOK /\ RestOK
BY DEF TypeOK, RunOK, RestOK

LEMMA ResumeRun ==
  ASSUME RunOK, NEW w \in Workers, Resume(w), todo' \subseteq Orders
  PROVE  /\ RunOK'
         /\ pc'[w] \in {"idle", "check"}
         /\ \A v \in Workers \ {w} : pc'[v] = pc[v] /\ target'[v] = target[v]
                                     /\ verdict'[v] = verdict[v]
<1>1. pc' \in [Workers -> Steps] /\ pc'[w] \in {"idle", "check"}
  BY DEF RunOK, Resume, Steps
<1>2. target' \in [Workers -> Orders \cup {None}] /\ verdict' \in [Workers -> Verdicts]
  BY DEF RunOK, Resume, Verdicts
<1>3. attempt' \in [Workers -> 0..MaxAttempts]
  BY WorkerAssumption DEF RunOK, Resume
<1>4. \A v \in Workers \ {w} : pc'[v] = pc[v] /\ target'[v] = target[v]
                               /\ verdict'[v] = verdict[v]
  BY DEF RunOK, Resume
<1>5. spent' \subseteq Workers
  BY DEF RunOK, Resume
<1>6. QED
  BY <1>1, <1>2, <1>3, <1>4, <1>5 DEF RunOK

LEMMA VerdictType ==
  ASSUME NEW o \in Orders
  PROVE  Verdict(o) \in Verdicts
BY DEF Verdict, Verdicts

\* Every way to handle an order keeps the workers' state well typed.
LEMMA RunStep ==
  ASSUME TypeOK, Next
  PROVE  RunOK'
<1>0. RunOK /\ RestOK
  BY TypeParts
<1>1. CASE UNCHANGED runVars
  BY <1>0, <1>1 DEF RunOK, runVars
<1>2. CASE StartCheck
  <2>1. todo' \subseteq Orders
    BY <1>2, WorkerAssumption DEF StartCheck, OpenOrders
  <2>2. pc' \in [Workers -> Steps] /\ pc'[Checker] \in {"idle", "check"}
    BY <1>0, <1>2 DEF StartCheck, RunOK, Steps, Workers
  <2>3. \A w \in Workers : w # Checker => pc'[w] = pc[w]
    BY <1>0, <1>2 DEF StartCheck, RunOK
  <2>4. UNCHANGED <<target, verdict, attempt, spent>>
    BY <1>2 DEF StartCheck
  <2>5. QED
    BY <1>0, <2>1, <2>2, <2>3, <2>4 DEF RunOK
<1>3. ASSUME NEW o \in Orders, CheckOrder(o) PROVE RunOK'
  <2>1. Checker \in Workers
    BY DEF Workers
  <2>2. todo' \subseteq Orders
    BY <1>0, <1>3 DEF CheckOrder, RunOK
  <2>3. CASE Resume(Checker)
    BY <1>0, <2>1, <2>2, <2>3, ResumeRun
  <2>4. CASE ~Resume(Checker)
    <3>1. /\ target' = [target EXCEPT ![Checker] = o]
          /\ verdict' = [verdict EXCEPT ![Checker] = Verdict(o)]
          /\ pc' = [pc EXCEPT ![Checker] = Verdict(o)]
          /\ Verdict(o) \in {"post", "fail"}
          /\ UNCHANGED <<attempt, spent>>
      BY <1>3, <2>4, VerdictType DEF CheckOrder, Verdicts
    <3>2. QED
      BY <1>0, <2>1, <2>2, <3>1 DEF RunOK, Steps, Verdicts
  <2>5. QED
    BY <2>3, <2>4
<1>4. ASSUME NEW w \in Workers, PopJob(w) PROVE RunOK'
  <2>1. Head(jobs) \in Orders
    BY <1>0, <1>4 DEF PopJob, RestOK
  <2>2. QED
    BY <1>0, <1>4, <2>1 DEF PopJob, RunOK, Steps
<1>5. ASSUME NEW w \in Workers, AskForJob(w) PROVE RunOK'
  <2>1. target[w] \in Orders
    BY <1>0, <1>5 DEF AskForJob, RunOK
  <2>2. todo' \subseteq Orders
    BY <1>0, <1>5 DEF AskForJob, RunOK
  <2>3. CASE Resume(w)
    BY <1>0, <2>2, <2>3, ResumeRun
  <2>4. CASE ~Resume(w)
    BY <1>0, <1>5, <2>1, <2>4, VerdictType DEF AskForJob, RunOK, Steps
  <2>5. QED
    BY <2>3, <2>4
<1>6. ASSUME NEW w \in Workers, LoadOrder(w) PROVE RunOK'
  <2>1. todo' \subseteq Orders
    BY <1>0, <1>6 DEF LoadOrder, RunOK
  <2>2. CASE Resume(w)
    BY <1>0, <2>1, <2>2, ResumeRun
  <2>3. CASE ~Resume(w)
    <3>1. /\ pc' = [pc EXCEPT ![w] = verdict[w]]
          /\ verdict[w] \in {"post", "fail"}
          /\ UNCHANGED <<todo, target, verdict, attempt, spent>>
      BY <1>0, <1>6, <2>3 DEF LoadOrder, RunOK, Verdicts
    <3>2. target[w] \in Orders
      BY <1>0, <1>6 DEF LoadOrder, RunOK
    <3>3. QED
      BY <1>0, <3>1, <3>2 DEF RunOK, Steps
  <2>4. QED
    BY <2>2, <2>3
<1>7. ASSUME NEW w \in Workers, PostWebhook(w) \/ RetryWithoutBody(w) PROVE RunOK'
  <2>1. todo' \subseteq Orders /\ pc[w] = "post"
    BY <1>0, <1>7 DEF PostWebhook, RetryWithoutBody, RunOK
  <2>2. CASE Resume(w)
    BY <1>0, <2>1, <2>2, ResumeRun
  <2>3. CASE ~Resume(w)
    <3>1. /\ attempt' = [attempt EXCEPT ![w] = attempt[w] + 1]
          /\ attempt[w] < MaxAttempts
          /\ UNCHANGED <<todo, pc, target, verdict>>
          /\ spent' \subseteq spent \cup {w}
      BY <1>7, <2>3 DEF PostWebhook, RetryWithoutBody, TryAgain, MayRetry
    <3>2. attempt[w] + 1 \in 0..MaxAttempts 
      BY <1>0, <3>1, WorkerAssumption DEF RunOK
    <3>3. attempt' \in [Workers -> 0..MaxAttempts]
      BY <1>0, <3>1, <3>2 DEF RunOK
    <3>4. spent' \subseteq Workers
      BY <1>0, <3>1 DEF RunOK
    <3>5. QED
      BY <1>0, <3>1, <3>3, <3>4 DEF RunOK
  <2>4. QED
    BY <2>2, <2>3
<1>8. ASSUME NEW w \in Workers, GiveUpWebhook(w) \/ FailOrder(w) PROVE RunOK'
  <2>1. todo' \subseteq Orders /\ Resume(w)
    BY <1>0, <1>8 DEF GiveUpWebhook, FailOrder, RunOK
  <2>2. QED
    BY <1>0, <2>1, ResumeRun
<1>9. CASE Restart
  BY <1>9, WorkerAssumption DEF Restart, RunOK, Steps, Verdicts
<1>10. QED
  BY <1>1, <1>2, <1>3, <1>4, <1>5, <1>6, <1>7, <1>8, <1>9
     DEF Next, Check, Handle, MoveDeal, GrowOld, ConfirmDeposit, SettleOrder, PushJob

LEMMA RestStep ==
  ASSUME TypeOK, Next
  PROVE  RestOK'
<1>0. RunOK /\ RestOK
  BY TypeParts
<1> USE DEF dealVars, storeVars, runVars
<1>1. ASSUME NEW o \in Orders, NEW s \in DealStatus, MoveDeal(o, s) PROVE RestOK'
  BY <1>0, <1>1 DEF MoveDeal, RestOK
<1>2. ASSUME NEW o \in Orders, GrowOld(o) PROVE RestOK'
  BY <1>0, <1>2 DEF GrowOld, RestOK
<1>3. ASSUME NEW o \in Orders, ConfirmDeposit(o) \/ SettleOrder(o) PROVE RestOK'
  BY <1>0, <1>3 DEF ConfirmDeposit, SettleOrder, RestOK, OrderStatus
<1>4. ASSUME NEW o \in Orders, PushJob(o) PROVE RestOK'
  BY <1>0, <1>4 DEF PushJob, RestOK
<1>5. ASSUME faults' \in Nat, UNCHANGED <<dealVars, storeVars, jobs>>
      PROVE  RestOK'
  BY <1>0, <1>5 DEF RestOK
<1>6. ASSUME Fault \/ NoFault PROVE faults' \in Nat
  BY <1>0, <1>6 DEF Fault, NoFault, RestOK
<1>7. CASE Check
  BY <1>5, <1>6, <1>7 DEF Check, StartCheck, CheckOrder
<1>8. ASSUME NEW w \in Workers, Handle(w) PROVE RestOK'
  <2>1. CASE PopJob(w)
    BY <1>0, <2>1 DEF PopJob, RestOK
  <2>2. CASE AskForJob(w) \/ LoadOrder(w)
    BY <1>5, <1>6, <2>2 DEF AskForJob, LoadOrder
  <2>3. CASE PostWebhook(w) \/ RetryWithoutBody(w) \/ GiveUpWebhook(w)
    <3>1. faults' \in Nat
      BY <1>6, <2>3 DEF PostWebhook, RetryWithoutBody, GiveUpWebhook, NoFault
    <3>2. target[w] \in Orders
      BY <1>0, <2>3 DEF PostWebhook, RetryWithoutBody, GiveUpWebhook, RunOK
    <3>3. told' \subseteq Orders
      BY <1>0, <2>3, <3>2 DEF PostWebhook, RetryWithoutBody, GiveUpWebhook, RestOK
    <3>4. UNCHANGED <<dealVars, status, jobs>>
      BY <2>3 DEF PostWebhook, RetryWithoutBody, GiveUpWebhook
    <3>5. QED
      BY <1>0, <3>1, <3>3, <3>4 DEF RestOK
  <2>4. CASE FailOrder(w)
    <3>1. faults' \in Nat
      BY <1>6, <2>4 DEF FailOrder
    <3>2. status' \in [Orders -> OrderStatus]
      BY <1>0, <2>4 DEF FailOrder, RestOK, OrderStatus
    <3>3. QED
      BY <1>0, <2>4, <3>1, <3>2 DEF RestOK, FailOrder
  <2>5. QED
    BY <1>8, <2>1, <2>2, <2>3, <2>4 DEF Handle
<1>9. CASE Restart
  BY <1>5, <1>6, <1>9 DEF Restart
<1>10. QED
  BY <1>1, <1>2, <1>3, <1>4, <1>7, <1>8, <1>9 DEF Next

LEMMA TypeStep ==
  ASSUME TypeOK, [Next]_vars
  PROVE  TypeOK'
<1>1. CASE Next
  <2>1. RunOK' /\ RestOK'
    BY <1>1, RunStep, RestStep
  <2>2. QED
    BY <2>1 DEF TypeOK, RunOK, RestOK
<1>2. CASE UNCHANGED vars
  BY <1>2 DEF TypeOK, vars, dealVars, storeVars, runVars
<1>3. QED
  BY <1>1, <1>2

\* The state stays well typed, a worker that acts has an order to act on,
\* and a webhook is never sent more often than makeRequest's loop allows.
THEOREM WorkerTypeCorrect == Spec => []TypeOK
<1>1. Init => TypeOK
  BY WorkerAssumption
     DEF Init, TypeOK, DealStatus, OrderStatus, Steps, Verdicts
<1>2. QED
  BY <1>1, TypeStep, PTL DEF Spec

-----------------------------------------------------------------------------
(***************************************************************************)
(* No false alarm.  NoFalseAlarm says nothing of the answers that workers  *)
(* carry from the question to the write.  VerdictTrue adds that such an    *)
(* answer stays true, since a transaction never leaves "finished" or       *)
(* "failed" and overdue only grows.                                        *)
(***************************************************************************)
VerdictTrue(w) ==
  /\ pc[w] \in {"post", "fail"} => verdict[w] = pc[w]
  /\ pc[w] \in {"idle", "check", "ask"} => verdict[w] = "leave"
  /\ verdict[w] = "post" => target[w] \in Orders /\ deal[target[w]] = "finished"
  /\ verdict[w] = "fail" => target[w] \in Orders /\ BrokenOff(target[w])

OldKnown == \A o \in old : deal[o] = "waiting" => o \in overdue

AlarmInv == NoFalseAlarm /\ OldKnown /\ \A w \in Workers : VerdictTrue(w)

\* What is true of a transaction's end stays true.
DealStable ==
  \A o \in Orders : /\ deal[o] = "finished" => deal'[o] = "finished"
                    /\ BrokenOff(o) => BrokenOff(o)'

LEMMA DealsEnd ==
  ASSUME TypeOK, AlarmInv, Next
  PROVE  DealStable /\ OldKnown'
<1>1. ASSUME NEW o \in Orders, NEW s \in DealStatus, MoveDeal(o, s)
      PROVE  DealStable /\ OldKnown'
  BY <1>1 DEF MoveDeal, DealStable, BrokenOff, OldKnown, AlarmInv, TypeOK
<1>2. ASSUME NEW o \in Orders, GrowOld(o) PROVE DealStable /\ OldKnown'
  BY <1>2 DEF GrowOld, DealStable, BrokenOff, OldKnown, AlarmInv, TypeOK
<1>3. CASE UNCHANGED dealVars
  BY <1>3 DEF dealVars, DealStable, BrokenOff, OldKnown, AlarmInv
<1>4. QED
  BY <1>1, <1>2, <1>3
     DEF Next, ConfirmDeposit, SettleOrder, PushJob, Check, StartCheck, CheckOrder,
         Handle, PopJob, AskForJob, LoadOrder, PostWebhook, RetryWithoutBody, GiveUpWebhook,
         FailOrder, Restart

LEMMA VerdictSound ==
  ASSUME TypeOK, OldKnown, NEW o \in Orders
  PROVE  /\ Verdict(o) = "post" => deal[o] = "finished"
         /\ Verdict(o) = "fail" => BrokenOff(o)
BY DEF Verdict, OldKnown, BrokenOff

\* The answers of workers that do not move.
LEMMA VerdictKept ==
  ASSUME TypeOK, AlarmInv, DealStable, NEW w \in Workers,
         pc'[w] = pc[w], verdict'[w] = verdict[w], target'[w] = target[w]
  PROVE  VerdictTrue(w)'
BY DEF AlarmInv, VerdictTrue, DealStable, TypeOK

\* A worker that has no answer, before and after it moves.
LEMMA VerdictLeft ==
  ASSUME NEW w \in Workers, verdict'[w] = "leave", pc'[w] \notin {"post", "fail"}
  PROVE  VerdictTrue(w)'
BY DEF VerdictTrue

\* A worker that has just got its answer about o.
LEMMA VerdictGot ==
  ASSUME TypeOK, AlarmInv, DealStable, NEW w \in Workers, NEW o \in Orders,
         target'[w] = o, verdict'[w] = Verdict(o), pc'[w] \in {"load", Verdict(o)}
  PROVE  VerdictTrue(w)'
<1>1. /\ Verdict(o) = "post" => deal'[o] = "finished"
      /\ Verdict(o) = "fail" => BrokenOff(o)'
  BY VerdictSound DEF AlarmInv, DealStable
<1>2. Verdict(o) \in {"post", "fail", "leave"}
  BY DEF Verdict
<1>3. pc'[w] \notin {"idle", "check", "ask"}
  BY <1>2
<1>4. QED
  BY <1>1, <1>2, <1>3 DEF VerdictTrue

LEMMA ResumeLeaves ==
  ASSUME TypeOK, NEW w \in Workers, Resume(w)
  PROVE  /\ verdict'[w] = "leave" /\ pc'[w] \notin {"post", "fail"}
         /\ \A v \in Workers \ {w} : pc'[v] = pc[v] /\ target'[v] = target[v]
                                     /\ verdict'[v] = verdict[v]
BY DEF Resume, TypeOK

\* Only w has moved.
OthersKept(w) ==
  \A v \in Workers \ {w} :
    pc'[v] = pc[v] /\ target'[v] = target[v] /\ verdict'[v] = verdict[v]

LEMMA VerdictsStep ==
  ASSUME TypeOK, AlarmInv, Next, DealStable
  PROVE  \A w \in Workers : VerdictTrue(w)'
<1>1. CASE UNCHANGED <<pc, target, verdict>>
  BY <1>1, VerdictKept
<1>2. ASSUME NEW w \in Workers, OthersKept(w), VerdictTrue(w)'
      PROVE  \A v \in Workers : VerdictTrue(v)'
  BY <1>2, VerdictKept DEF OthersKept
<1>3. ASSUME NEW w \in Workers, Resume(w) PROVE \A v \in Workers : VerdictTrue(v)'
  <2>1. VerdictTrue(w)' /\ OthersKept(w)
    BY <1>3, ResumeLeaves, VerdictLeft DEF OthersKept
  <2>2. QED
    BY <1>2, <2>1
<1>4. CASE StartCheck
  <2>1. Checker \in Workers
    BY DEF Workers
  <2>2. verdict'[Checker] = "leave" /\ pc'[Checker] \notin {"post", "fail"}
    BY <1>4, <2>1 DEF StartCheck, TypeOK, AlarmInv, VerdictTrue
  <2>3. OthersKept(Checker)
    BY <1>4 DEF StartCheck, TypeOK, OthersKept
  <2>4. QED
    BY <1>2, <2>1, <2>2, <2>3, VerdictLeft
<1>5. ASSUME NEW o \in Orders, CheckOrder(o), ~Resume(Checker)
      PROVE  \A v \in Workers : VerdictTrue(v)'
  <2>1. Checker \in Workers
    BY DEF Workers
  <2>2. /\ pc' = [pc EXCEPT ![Checker] = Verdict(o)]
        /\ target' = [target EXCEPT ![Checker] = o]
        /\ verdict' = [verdict EXCEPT ![Checker] = Verdict(o)]
    BY <1>5 DEF CheckOrder
  <2>3. target'[Checker] = o /\ verdict'[Checker] = Verdict(o) /\ pc'[Checker] = Verdict(o)
    BY <2>1, <2>2 DEF TypeOK
  <2>4. OthersKept(Checker)
    BY <2>2 DEF TypeOK, OthersKept
  <2>5. VerdictTrue(Checker)'
    BY <2>1, <2>3, VerdictGot
  <2>6. QED
    BY <1>2, <2>1, <2>4, <2>5
<1>6. ASSUME NEW w \in Workers, PopJob(w) PROVE \A v \in Workers : VerdictTrue(v)'
  <2>1. verdict'[w] = "leave" /\ pc'[w] \notin {"post", "fail"}
    BY <1>6 DEF PopJob, TypeOK, AlarmInv, VerdictTrue
  <2>2. OthersKept(w)
    BY <1>6 DEF PopJob, TypeOK, OthersKept
  <2>3. QED
    BY <1>2, <2>1, <2>2, VerdictLeft
<1>7. ASSUME NEW w \in Workers, AskForJob(w), ~Resume(w)
      PROVE  \A v \in Workers : VerdictTrue(v)'
  <2>1. /\ pc' = [pc EXCEPT ![w] = "load"]
        /\ verdict' = [verdict EXCEPT ![w] = Verdict(target[w])]
        /\ UNCHANGED target
    BY <1>7 DEF AskForJob
  <2>2. target[w] \in Orders
    BY <1>7 DEF AskForJob, TypeOK
  <2>3. target'[w] = target[w] /\ verdict'[w] = Verdict(target[w]) /\ pc'[w] = "load"
    BY <2>1 DEF TypeOK
  <2>4. OthersKept(w)
    BY <2>1 DEF TypeOK, OthersKept
  <2>5. VerdictTrue(w)'
    BY <2>2, <2>3, VerdictGot
  <2>6. QED
    BY <1>2, <2>4, <2>5
<1>8. ASSUME NEW w \in Workers, LoadOrder(w), ~Resume(w)
      PROVE  \A v \in Workers : VerdictTrue(v)'
  <2>1. /\ verdict[w] \in {"post", "fail"}
        /\ pc' = [pc EXCEPT ![w] = verdict[w]]
        /\ UNCHANGED <<target, verdict>>
    BY <1>8 DEF LoadOrder, TypeOK, Verdicts
  <2>2. OthersKept(w)
    BY <2>1 DEF TypeOK, OthersKept
  <2>3. VerdictTrue(w)'
    BY <2>1 DEF AlarmInv, VerdictTrue, DealStable, TypeOK
  <2>4. QED
    BY <1>2, <2>2, <2>3
<1>9. CASE Restart
  BY <1>9, VerdictLeft DEF Restart
<1>10. ASSUME NEW w \in Workers, Handle(w) PROVE \A v \in Workers : VerdictTrue(v)'
  BY <1>1, <1>3, <1>6, <1>7, <1>8, <1>10
     DEF Handle, PostWebhook, RetryWithoutBody, TryAgain, GiveUpWebhook, FailOrder
<1>11. CASE Check
  BY <1>3, <1>4, <1>5, <1>11 DEF Check, Workers
<1>12. QED
  BY <1>1, <1>9, <1>10, <1>11
     DEF Next, MoveDeal, GrowOld, ConfirmDeposit, SettleOrder, PushJob, runVars

LEMMA AlarmsStep ==
  ASSUME TypeOK, AlarmInv, Next, DealStable
  PROVE  NoFalseAlarm'
<1>1. ASSUME NEW o \in Orders
      PROVE  /\ status'[o] = "FAILED" => status[o] = "FAILED" \/ BrokenOff(o)
             /\ o \in told' => o \in told \/ deal[o] = "finished"
  <2>1. CASE UNCHANGED storeVars
    BY <2>1 DEF storeVars
  <2>2. ASSUME NEW p \in Orders, ConfirmDeposit(p) \/ SettleOrder(p)
        PROVE  UNCHANGED told /\ (status'[o] = "FAILED" => status[o] = "FAILED")
    BY <2>2 DEF ConfirmDeposit, SettleOrder, TypeOK
  <2>3. ASSUME NEW w \in Workers, PostWebhook(w)
        PROVE  UNCHANGED status /\ (o \in told' => o \in told \/ deal[o] = "finished")
    <3>1. deal[target[w]] = "finished"
      BY <2>3 DEF PostWebhook, AlarmInv, VerdictTrue
    <3>2. QED
      BY <2>3, <3>1 DEF PostWebhook
  <2>4. ASSUME NEW w \in Workers, FailOrder(w)
        PROVE  /\ UNCHANGED told
               /\ status'[o] = "FAILED" => status[o] = "FAILED" \/ BrokenOff(o)
    <3>1. BrokenOff(target[w])
      BY <2>4 DEF FailOrder, AlarmInv, VerdictTrue
    <3>2. QED
      BY <2>4, <3>1 DEF FailOrder, TypeOK
  <2>5. QED
    BY <2>1, <2>2, <2>3, <2>4
       DEF Next, MoveDeal, GrowOld, PushJob, Check, StartCheck, CheckOrder, Handle,
           PopJob, AskForJob, LoadOrder, RetryWithoutBody, GiveUpWebhook, Restart
<1>2. QED
  BY <1>1 DEF NoFalseAlarm, AlarmInv, DealStable

\* Whatever the number of workers, the order of their calls and the failures
\* among them, orders are set FAILED and webhooks sent for a cause only.
THEOREM NoFalseAlarms == Spec => []NoFalseAlarm
<1>1. Init => AlarmInv
  BY DEF Init, AlarmInv, NoFalseAlarm, OldKnown, VerdictTrue
<1>2. TypeOK /\ AlarmInv /\ [Next]_vars => AlarmInv'
  <2>1. ASSUME TypeOK, AlarmInv, Next PROVE AlarmInv'
    BY <2>1, DealsEnd, VerdictsStep, AlarmsStep DEF AlarmInv
  <2>2. ASSUME AlarmInv, UNCHANGED vars PROVE AlarmInv'
    BY <2>2 DEF AlarmInv, NoFalseAlarm, OldKnown, VerdictTrue, BrokenOff,
                vars, dealVars, storeVars, runVars
  <2>3. QED
    BY <2>1, <2>2
<1>3. AlarmInv => NoFalseAlarm
  BY DEF AlarmInv
<1>4. QED
  BY <1>1, <1>2, <1>3, WorkerTypeCorrect, PTL DEF Spec
=============================================================================
