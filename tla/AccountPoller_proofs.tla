------------------------ MODULE AccountPoller_proofs ------------------------
(***************************************************************************)
(* Proofs about AccountPoller for any consumers, accounts, transfers and   *)
(* failures.                                                               *)
(***************************************************************************)
EXTENDS AccountPoller, FiniteSetTheorems, SequenceTheorems, TLAPS

\* What the invariant says of the goroutines.
GoroutinesOK == TasksShape /\ RunsShape /\ ResultsAddUp

LEMMA TasksOfFinite ==
  ASSUME TasksShape, NEW k
  PROVE  IsFiniteSet(TasksOf(k)) /\ Cardinality(TasksOf(k)) \in Nat
<1>1. TasksOf(k) \in SUBSET tasks
  BY DEF TasksOf
<1>2. IsFiniteSet(TasksOf(k))
  BY <1>1, FS_Subset DEF TasksShape
<1> QED
  BY <1>2, FS_CardinalityType

\* Nobody touches the run and the tasks.
LEMMA GoroutinesStutter ==
  ASSUME GoroutinesOK, UNCHANGED <<run, tasks>>
  PROVE  GoroutinesOK'
BY DEF GoroutinesOK, TasksShape, RunsShape, ResultsAddUp, TasksOf, run

\* A consumer that is idle has neither accounts nor tasks, so a new run starts
\* from nothing.
LEMMA RunStarts ==
  ASSUME GoroutinesOK, PollerAssumption, NEW k \in Consumers, ConsumerIdle(k),
         NEW ids, IsFiniteSet(ids), Run(k, ids), UNCHANGED tasks
  PROVE  GoroutinesOK'
<1>1. todo[k] = {} /\ TasksOf(k) = {}
  <2>1. IsFiniteSet(todo[k]) /\ Cardinality(todo[k]) \in Nat
    BY FS_CardinalityType DEF GoroutinesOK, RunsShape
  <2>2. IsFiniteSet(TasksOf(k)) /\ Cardinality(TasksOf(k)) \in Nat
    BY TasksOfFinite DEF GoroutinesOK
  <2>3. Cardinality(todo[k]) = 0 /\ Cardinality(TasksOf(k)) = 0
    BY <2>1, <2>2 DEF GoroutinesOK, ResultsAddUp, ConsumerIdle
  <2> QED
    BY <2>1, <2>2, <2>3, FS_EmptySet
<1>2. Cardinality(ids) \in Nat
  BY FS_CardinalityType
<1>3. TasksShape'
  BY DEF GoroutinesOK, TasksShape
<1>4. RunsShape'
  BY <1>2 DEF GoroutinesOK, RunsShape, Run, ConsumerIdle
<1>5. ResultsAddUp'
  <2> SUFFICES ASSUME NEW j \in Consumers
               PROVE  /\ awaited'[j] = Cardinality(todo'[j]) + Cardinality(TasksOf(j)')
                      /\ Cardinality(TasksOf(j)') <= PoolSize[ChainOf[j]]
                      /\ \A t \in TasksOf(j)' : t.id \notin todo'[j]
                      /\ \A t, u \in TasksOf(j)' : t.id = u.id => t = u
    BY DEF ResultsAddUp
  <2>1. TasksOf(j)' = TasksOf(j)
    BY DEF TasksOf
  <2>2. CASE j = k
    <3>1. todo'[k] = ids /\ awaited'[k] = Cardinality(ids)
      BY <1>2 DEF GoroutinesOK, RunsShape, Run, ConsumerIdle
    <3>2. TasksOf(k)' = {} /\ Cardinality(TasksOf(k)') = 0
      BY <1>1, <2>1, <2>2, FS_EmptySet
    <3>3. PoolSize[ChainOf[k]] \in Nat
      BY DEF PollerAssumption
    <3> QED
      BY <1>2, <2>2, <3>1, <3>2, <3>3
  <2>3. CASE j # k
    <3>1. todo'[j] = todo[j] /\ awaited'[j] = awaited[j]
      BY <2>3 DEF GoroutinesOK, RunsShape, Run
    <3> QED
      BY <2>1, <3>1 DEF GoroutinesOK, ResultsAddUp
  <2> QED
    BY <2>2, <2>3
<1> QED
  BY <1>3, <1>4, <1>5 DEF GoroutinesOK

\* A task goes on to its next step.
LEMMA TaskContinues ==
  ASSUME GoroutinesOK, NEW t \in tasks, NEW next,
         DOMAIN next = DOMAIN t, next.by = t.by, next.id = t.id,
         Continue(t, next)
  PROVE  GoroutinesOK'
<1>1. TasksShape'
  <2>1. IsFiniteSet(tasks')
    BY FS_RemoveElement, FS_AddElement DEF GoroutinesOK, TasksShape, Continue
  <2> QED
    BY <2>1 DEF GoroutinesOK, TasksShape, Continue
<1>2. RunsShape'
  BY DEF GoroutinesOK, RunsShape, Continue, run
<1>3. ResultsAddUp'
  <2> SUFFICES ASSUME NEW j \in Consumers
               PROVE  /\ Cardinality(TasksOf(j)') = Cardinality(TasksOf(j))
                      /\ \A u \in TasksOf(j)' : u.id \notin todo[j]
                      /\ \A u, v \in TasksOf(j)' : u.id = v.id => u = v
    BY DEF GoroutinesOK, ResultsAddUp, Continue, run
  <2>1. IsFiniteSet(TasksOf(j)) /\ Cardinality(TasksOf(j)) \in Nat
    BY TasksOfFinite DEF GoroutinesOK
  <2>2. CASE t.by # j
    <3>1. TasksOf(j)' = TasksOf(j)
      BY <2>2 DEF TasksOf, Continue
    <3> QED
      BY <3>1 DEF GoroutinesOK, ResultsAddUp
  <2>3. CASE t.by = j
    <3>1. t \in TasksOf(j)
      BY <2>3 DEF TasksOf
    <3>2. TasksOf(j)' = (TasksOf(j) \ {t}) \cup {next}
      BY <2>3 DEF TasksOf, Continue
    <3>3. next \notin TasksOf(j) \ {t}
      BY <3>1 DEF GoroutinesOK, ResultsAddUp
    <3>4. /\ IsFiniteSet(TasksOf(j) \ {t})
          /\ Cardinality(TasksOf(j) \ {t}) = Cardinality(TasksOf(j)) - 1
      BY <2>1, <3>1, FS_RemoveElement
    <3>5. Cardinality((TasksOf(j) \ {t}) \cup {next}) = Cardinality(TasksOf(j) \ {t}) + 1
      BY <3>3, <3>4, FS_AddElement
    <3>6. Cardinality(TasksOf(j)') = Cardinality(TasksOf(j))
      BY <2>1, <3>2, <3>4, <3>5
    <3> QED
      BY <3>1, <3>2, <3>6 DEF GoroutinesOK, ResultsAddUp
  <2> QED
    BY <2>2, <2>3
<1> QED
  BY <1>1, <1>2, <1>3 DEF GoroutinesOK

\* A task ends and sends its result.
LEMMA TaskEnds ==
  ASSUME GoroutinesOK, PollerAssumption, NEW t \in tasks, Result(t)
  PROVE  GoroutinesOK'
<1>0. t.by \in Consumers /\ t \in TasksOf(t.by)
  BY DEF GoroutinesOK, TasksShape, TasksOf
<1>1. TasksShape'
  BY FS_RemoveElement DEF GoroutinesOK, TasksShape, Result
<1>2. /\ IsFiniteSet(TasksOf(t.by)) /\ Cardinality(TasksOf(t.by)) \in Nat
      /\ IsFiniteSet(TasksOf(t.by) \ {t})
      /\ Cardinality(TasksOf(t.by) \ {t}) = Cardinality(TasksOf(t.by)) - 1
  <2>1. IsFiniteSet(TasksOf(t.by)) /\ Cardinality(TasksOf(t.by)) \in Nat
    BY TasksOfFinite DEF GoroutinesOK
  <2> QED
    BY <1>0, <2>1, FS_RemoveElement
<1>3. Cardinality(TasksOf(t.by)) - 1 \in Nat
  BY <1>2, FS_CardinalityType
<1>4. Cardinality(todo[t.by]) \in Nat
  BY <1>0, FS_CardinalityType DEF GoroutinesOK, RunsShape
<1>5. awaited[t.by] - 1 \in Nat
  BY <1>0, <1>2, <1>3, <1>4 DEF GoroutinesOK, ResultsAddUp
<1>6. RunsShape'
  BY <1>5 DEF GoroutinesOK, RunsShape, Result
<1>7. ResultsAddUp'
  <2> SUFFICES ASSUME NEW j \in Consumers
               PROVE  /\ awaited'[j] = Cardinality(todo[j]) + Cardinality(TasksOf(j)')
                      /\ Cardinality(TasksOf(j)') <= PoolSize[ChainOf[j]]
                      /\ TasksOf(j)' \subseteq TasksOf(j)
    BY DEF GoroutinesOK, ResultsAddUp, Result
  <2>1. CASE j # t.by
    <3>1. TasksOf(j)' = TasksOf(j) /\ awaited'[j] = awaited[j]
      BY <2>1 DEF TasksOf, Result, GoroutinesOK, RunsShape
    <3> QED
      BY <3>1 DEF GoroutinesOK, ResultsAddUp
  <2>2. CASE j = t.by
    <3>1. TasksOf(j)' = TasksOf(j) \ {t}
      BY <2>2 DEF TasksOf, Result
    <3>2. awaited'[j] = awaited[j] - 1
      BY <2>2 DEF Result, GoroutinesOK, RunsShape
    <3>3. PoolSize[ChainOf[j]] \in Nat
      BY DEF PollerAssumption
    <3>4. /\ awaited[j] = Cardinality(todo[j]) + Cardinality(TasksOf(j))
          /\ Cardinality(TasksOf(j)) <= PoolSize[ChainOf[j]]
      BY DEF GoroutinesOK, ResultsAddUp
    <3>5. Cardinality(TasksOf(j)') = Cardinality(TasksOf(j)) - 1
      BY <1>2, <2>2, <3>1
    <3>6. Cardinality(todo[j]) \in Nat /\ Cardinality(TasksOf(j)) \in Nat
      BY <1>2, <1>4, <2>2
    <3>7. awaited'[j] = Cardinality(todo[j]) + Cardinality(TasksOf(j)')
      BY <3>2, <3>4, <3>5, <3>6
    <3>8. Cardinality(TasksOf(j)') <= PoolSize[ChainOf[j]]
      BY <3>3, <3>4, <3>5, <3>6
    <3> QED
      BY <3>1, <3>7, <3>8
  <2> QED
    BY <2>1, <2>2
<1> QED
  BY <1>1, <1>6, <1>7 DEF GoroutinesOK

\* A goroutine takes an account from the channel: it becomes a task, or its
\* result is an error at once.
LEMMA TaskStarts ==
  ASSUME GoroutinesOK, PollerAssumption, NEW k \in Consumers, NEW id \in todo[k], Take(k, id)
  PROVE  GoroutinesOK'
<1>1. /\ IsFiniteSet(todo[k]) /\ Cardinality(todo[k]) \in Nat
      /\ IsFiniteSet(TasksOf(k)) /\ Cardinality(TasksOf(k)) \in Nat
  BY FS_CardinalityType, TasksOfFinite DEF GoroutinesOK, RunsShape
<1>2. /\ IsFiniteSet(todo[k] \ {id})
      /\ Cardinality(todo[k] \ {id}) = Cardinality(todo[k]) - 1
      /\ Cardinality(todo[k] \ {id}) \in Nat
  BY <1>1, FS_RemoveElement, FS_CardinalityType
<1>3. DOMAIN todo' = Consumers /\ \A j \in Consumers : IsFiniteSet(todo'[j])
  BY <1>2 DEF GoroutinesOK, RunsShape, Take
<1>4. /\ todo'[k] = todo[k] \ {id}
      /\ \A j \in Consumers : j # k => todo'[j] = todo[j]
  BY DEF GoroutinesOK, RunsShape, Take
<1>5. /\ awaited[k] = Cardinality(todo[k]) + Cardinality(TasksOf(k))
      /\ Cardinality(TasksOf(k)) < PoolSize[ChainOf[k]]
      /\ \A t \in TasksOf(k) : t.id \notin todo[k]
      /\ PoolSize[ChainOf[k]] \in Nat
  BY DEF GoroutinesOK, ResultsAddUp, Take, PollerAssumption
<1>6. CASE tasks' = tasks \cup {FirstTask(k, id)} /\ UNCHANGED awaited
  <2> DEFINE new == FirstTask(k, id)
  <2>1. /\ DOMAIN new = {"by", "id", "at", "height", "batch", "left", "receiver"}
        /\ new.by = k /\ new.id = id
    BY DEF FirstTask
  <2> HIDE DEF new
  <2>2. TasksShape'
    BY <1>6, <2>1, FS_AddElement DEF GoroutinesOK, TasksShape, new
  <2>3. RunsShape'
    BY <1>3, <1>6 DEF GoroutinesOK, RunsShape
  <2>4. TasksOf(k)' = TasksOf(k) \cup {new} /\ new \notin TasksOf(k)
    BY <1>5, <1>6, <2>1 DEF TasksOf, new
  <2>5. Cardinality(TasksOf(k)') = Cardinality(TasksOf(k)) + 1
    BY <1>1, <2>4, FS_AddElement
  <2>6. \A j \in Consumers : j # k => TasksOf(j)' = TasksOf(j)
    BY <1>6, <2>1 DEF TasksOf, new
  <2>7. ResultsAddUp'
    <3> SUFFICES ASSUME NEW j \in Consumers
                 PROVE  /\ awaited[j] = Cardinality(todo'[j]) + Cardinality(TasksOf(j)')
                        /\ Cardinality(TasksOf(j)') <= PoolSize[ChainOf[j]]
                        /\ \A t \in TasksOf(j)' : t.id \notin todo'[j]
                        /\ \A t, u \in TasksOf(j)' : t.id = u.id => t = u
      BY <1>6 DEF ResultsAddUp
    <3>1. CASE j # k
      BY <1>4, <2>6, <3>1 DEF GoroutinesOK, ResultsAddUp
    <3>2. CASE j = k
      <4>1. /\ awaited[k] = Cardinality(todo'[k]) + Cardinality(TasksOf(k)')
            /\ Cardinality(TasksOf(k)') <= PoolSize[ChainOf[k]]
        <5>1. Cardinality(todo'[k]) = Cardinality(todo[k]) - 1
          BY <1>2, <1>4
        <5>2. awaited[k] = Cardinality(todo'[k]) + Cardinality(TasksOf(k)')
          BY <1>1, <1>5, <2>5, <5>1
        <5>3. Cardinality(TasksOf(k)') <= PoolSize[ChainOf[k]]
          BY <1>1, <1>5, <2>5
        <5> QED
          BY <5>2, <5>3
      <4>2. \A t \in TasksOf(k)' : t.id \notin todo'[k]
        BY <1>4, <1>5, <2>1, <2>4
      <4>3. \A t, u \in TasksOf(k)' : t.id = u.id => t = u
        BY <1>5, <2>1, <2>4 DEF GoroutinesOK, ResultsAddUp
      <4> QED
        BY <3>2, <4>1, <4>2, <4>3
    <3> QED
      BY <3>1, <3>2
  <2> QED
    BY <2>2, <2>3, <2>7 DEF GoroutinesOK
<1>7. CASE awaited' = [awaited EXCEPT ![k] = @ - 1] /\ UNCHANGED tasks
  <2>1. /\ awaited'[k] = awaited[k] - 1
        /\ \A j \in Consumers : j # k => awaited'[j] = awaited[j]
    BY <1>7 DEF GoroutinesOK, RunsShape
  <2>2. awaited[k] - 1 \in Nat
    BY <1>1, <1>2, <1>5
  <2>3. RunsShape'
    BY <1>3, <1>7, <2>2 DEF GoroutinesOK, RunsShape
  <2>4. \A j \in Consumers : TasksOf(j)' = TasksOf(j)
    BY <1>7 DEF TasksOf
  <2>5. TasksShape'
    BY <1>7 DEF GoroutinesOK, TasksShape
  <2>6. awaited'[k] = Cardinality(todo'[k]) + Cardinality(TasksOf(k)')
    <3>1. Cardinality(todo'[k]) = Cardinality(todo[k]) - 1
      BY <1>2, <1>4
    <3> QED
      BY <1>1, <1>5, <2>1, <2>4, <3>1
  <2>7. ResultsAddUp'
    <3> SUFFICES ASSUME NEW j \in Consumers
                 PROVE  /\ awaited'[j] = Cardinality(todo'[j]) + Cardinality(TasksOf(j)')
                        /\ Cardinality(TasksOf(j)') <= PoolSize[ChainOf[j]]
                        /\ \A t \in TasksOf(j)' : t.id \notin todo'[j]
                        /\ \A t, u \in TasksOf(j)' : t.id = u.id => t = u
      BY DEF ResultsAddUp
    <3>1. CASE j # k
      BY <1>4, <2>1, <2>4, <3>1 DEF GoroutinesOK, ResultsAddUp
    <3>2. CASE j = k
      <4>1. Cardinality(TasksOf(j)') <= PoolSize[ChainOf[j]]
        BY <2>4 DEF GoroutinesOK, ResultsAddUp
      <4>2. \A t \in TasksOf(j)' : t.id \notin todo'[j]
        BY <1>4, <1>5, <2>4, <3>2
      <4>3. \A t, u \in TasksOf(j)' : t.id = u.id => t = u
        BY <2>4 DEF GoroutinesOK, ResultsAddUp
      <4> QED
        BY <2>6, <3>2, <4>1, <4>2, <4>3
    <3> QED
      BY <3>1, <3>2
  <2> QED
    BY <2>3, <2>5, <2>7 DEF GoroutinesOK
<1> QED
  BY <1>6, <1>7 DEF Take

\* When the program ends, nothing is counted.
LEMMA GoroutinesDie ==
  ASSUME PollerAssumption, Die
  PROVE  GoroutinesOK' /\ trxAccounts' = {}
<1>1. \A k \in Consumers : TasksOf(k)' = {}
  BY DEF Die, TasksOf
<1>2. Cardinality({}) = 0 /\ IsFiniteSet({})
  BY FS_EmptySet
<1>3. \A k \in Consumers : PoolSize[ChainOf[k]] \in Nat
  BY DEF PollerAssumption
<1>4. TasksShape' /\ RunsShape'
  BY <1>2 DEF Die, TasksShape, RunsShape
<1>5. ResultsAddUp'
  <2> SUFFICES ASSUME NEW k \in Consumers
               PROVE  /\ awaited'[k] = Cardinality(todo'[k]) + Cardinality(TasksOf(k)')
                      /\ Cardinality(TasksOf(k)') <= PoolSize[ChainOf[k]]
                      /\ \A t \in TasksOf(k)' : t.id \notin todo'[k]
                      /\ \A t, u \in TasksOf(k)' : t.id = u.id => t = u
    BY DEF ResultsAddUp
  <2>1. awaited'[k] = 0 /\ todo'[k] = {}
    BY DEF Die
  <2>2. Cardinality(todo'[k]) = 0 /\ Cardinality(TasksOf(k)') = 0
    BY <1>1, <1>2, <2>1
  <2> QED
    BY <1>1, <1>3, <2>1, <2>2
<1> QED
  BY <1>4, <1>5 DEF GoroutinesOK, Die
-----------------------------------------------------------------------------
\* A list of accounts stays one when an account is added or a field changed.
LEMMA ListIsSeq ==
  ASSUME accounts \in Seq(Range(accounts))
  PROVE  /\ Len(accounts) \in Nat
         /\ IsFiniteSet(Ids)
         /\ \A c : IsFiniteSet(ActiveAccounts(c))
<1>1. Len(accounts) \in Nat
  BY LenProperties
<1>2. IsFiniteSet(Ids)
  BY <1>1, FS_Interval DEF Ids
<1>3. \A c : ActiveAccounts(c) \in SUBSET Ids
  BY DEF ActiveAccounts
<1> QED
  BY <1>1, <1>2, <1>3, FS_Subset

LEMMA SeqOfItsRange ==
  ASSUME NEW S, NEW s \in Seq(S)
  PROVE  s \in Seq(Range(s))
<1>1. Len(s) \in Nat /\ DOMAIN s = 1..Len(s) /\ s \in [1..Len(s) -> S]
  BY LenProperties
<1>2. s \in [1..Len(s) -> Range(s)]
  BY <1>1 DEF Range
<1> QED
  BY <1>1, <1>2

LEMMA AccountChanges ==
  ASSUME accounts \in Seq(Range(accounts)), NEW id, NEW v,
         accounts' = [accounts EXCEPT ![id] = v]
  PROVE  (accounts \in Seq(Range(accounts)))'
<1> DEFINE S == Range(accounts) \cup {v}
<1>1. accounts \in Seq(S)
  BY SeqMonotonic
<1>2. accounts' \in Seq(S)
  <2>1. CASE id \in 1..Len(accounts)
    BY <1>1, <2>1, ExceptSeq
  <2>2. CASE id \notin 1..Len(accounts)
    <3>1. id \notin DOMAIN accounts
      BY <1>1, <2>2, LenProperties
    <3>2. accounts' = accounts
      BY <1>1, <3>1, LenProperties
    <3> QED
      BY <1>1, <3>2
  <2> QED
    BY <2>1, <2>2
<1> QED
  BY <1>2, SeqOfItsRange

LEMMA AccountIsAdded ==
  ASSUME accounts \in Seq(Range(accounts)), NEW v, accounts' = Append(accounts, v)
  PROVE  (accounts \in Seq(Range(accounts)))'
<1> DEFINE S == Range(accounts) \cup {v}
<1>1. accounts \in Seq(S)
  BY SeqMonotonic
<1>2. accounts' \in Seq(S)
  BY <1>1, AppendProperties
<1> QED
  BY <1>2, SeqOfItsRange
-----------------------------------------------------------------------------
\* What every step of a task does with it, unless the program ends.
Moves(t) ==
  \/ \E next : /\ DOMAIN next = DOMAIN t /\ next.by = t.by /\ next.id = t.id
               /\ Continue(t, next)
  \/ Result(t)

LEMMA TaskMoves ==
  ASSUME GoroutinesOK, PollerAssumption, NEW t \in tasks, Moves(t)
  PROVE  GoroutinesOK'
BY TaskContinues, TaskEnds DEF Moves

LEMMA TaskRecord ==
  ASSUME TasksShape, NEW t \in tasks
  PROVE  DOMAIN t = {"by", "id", "at", "height", "batch", "left", "receiver"}
BY DEF TasksShape

LEMMA GotoMoves ==
  ASSUME TasksShape, NEW t \in tasks, NEW step, Goto(t, step)
  PROVE  Moves(t)
BY TaskRecord DEF Moves, Goto

LEMMA AnsweredMoves ==
  ASSUME TasksShape, NEW t \in tasks, Answered(t)
  PROVE  Moves(t)
<1> DEFINE next == [t EXCEPT !.at = "save", !.height = Height]
<1>1. DOMAIN next = DOMAIN t /\ next.by = t.by /\ next.id = t.id
  BY TaskRecord
<1>2. Continue(t, next)
  BY DEF Answered
<1> QED
  BY <1>1, <1>2 DEF Moves

LEMMA EndBatchMoves ==
  ASSUME TasksShape, NEW t \in tasks, EndBatch(t)
  PROVE  Moves(t)
<1> DEFINE next == [t EXCEPT !.at = "list", !.batch = "token", !.left = <<>>, !.receiver = 0]
<1>1. DOMAIN next = DOMAIN t /\ next.by = t.by /\ next.id = t.id
  BY TaskRecord
<1>2. Continue(t, next) \/ Result(t)
  BY DEF EndBatch
<1> QED
  BY <1>1, <1>2 DEF Moves

LEMMA NextTransactionMoves ==
  ASSUME TasksShape, NEW t \in tasks, NextTransaction(t)
  PROVE  Moves(t)
<1> DEFINE next == [t EXCEPT !.at = "lookup", !.left = Tail(@), !.receiver = 0]
<1>1. DOMAIN next = DOMAIN t /\ next.by = t.by /\ next.id = t.id
  BY TaskRecord
<1>2. Continue(t, next) \/ EndBatch(t)
  BY DEF NextTransaction
<1> QED
  BY <1>1, <1>2, EndBatchMoves DEF Moves

\* A step of a task moves it, or ends the program.
LEMMA TaskProgress ==
  ASSUME TasksShape, NEW t \in tasks, ProcessAccount(t) \/ Hang(t)
  PROVE  /\ (Moves(t) /\ UNCHANGED trxAccounts) \/ Die
         /\ \/ UNCHANGED accounts
            \/ \E id, v : accounts' = [accounts EXCEPT ![id] = v]
            \/ \E v : accounts' = Append(accounts, v)
<1>1. CASE FindOrders(t)
  BY <1>1, GotoMoves DEF FindOrders, Moves, program
<1>2. CASE AskBalance(t)
  BY <1>2, AnsweredMoves DEF AskBalance, Moves, program
<1>3. CASE AskSolBalance(t)
  BY <1>3, AnsweredMoves, GotoMoves DEF AskSolBalance, program
<1>4. CASE SaveBalance(t)
  <2> DEFINE next == [t EXCEPT !.at = "list", !.height = 0]
  <2>1. DOMAIN next = DOMAIN t /\ next.by = t.by /\ next.id = t.id
    BY TaskRecord
  <2>2. Continue(t, next) \/ Result(t)
    BY <1>4 DEF SaveBalance
  <2>3. UNCHANGED trxAccounts
    BY <1>4 DEF SaveBalance, program
  <2>4. UNCHANGED accounts \/ \E id, v : accounts' = [accounts EXCEPT ![id] = v]
    BY <1>4 DEF SaveBalance
  <2> QED
    BY <2>1, <2>2, <2>3, <2>4 DEF Moves
<1>5. CASE ListTransactions(t)
  <2> DEFINE found == Listed(ChainFor(t), t.batch, Addr(t.id))
             next == [t EXCEPT !.at = "lookup", !.left = found]
  <2>1. DOMAIN next = DOMAIN t /\ next.by = t.by /\ next.id = t.id
    BY TaskRecord
  <2>2. Continue(t, next) \/ EndBatch(t)
    BY <1>5 DEF ListTransactions
  <2>3. UNCHANGED <<trxAccounts, accounts>>
    BY <1>5 DEF ListTransactions, program
  <2> QED
    BY <2>1, <2>2, <2>3, EndBatchMoves DEF Moves
<1>6. CASE Lookup(t)
  BY <1>6, GotoMoves, NextTransactionMoves DEF Lookup, program
<1>7. CASE CountAccounts(t)
  BY <1>7, GotoMoves, NextTransactionMoves DEF CountAccounts, program
<1>8. CASE FindAccount(t)
  <2>1. UNCHANGED <<trxAccounts, accounts>>
    BY <1>8 DEF FindAccount, program
  <2>2. (\E id : Continue(t, [t EXCEPT !.at = "insert", !.receiver = id])) \/ NextTransaction(t)
    BY <1>8 DEF FindAccount
  <2>3. ASSUME NEW id PROVE LET next == [t EXCEPT !.at = "insert", !.receiver = id]
                            IN  DOMAIN next = DOMAIN t /\ next.by = t.by /\ next.id = t.id
    BY TaskRecord
  <2> QED
    BY <2>1, <2>2, <2>3, NextTransactionMoves DEF Moves
<1>9. CASE CreateAccount(t)
  <2> DEFINE next == [t EXCEPT !.at = "insert", !.receiver = Len(accounts) + 1]
  <2>1. DOMAIN next = DOMAIN t /\ next.by = t.by /\ next.id = t.id
    BY TaskRecord
  <2>2. Continue(t, next) \/ NextTransaction(t)
    BY <1>9 DEF CreateAccount
  <2>3. UNCHANGED trxAccounts
    BY <1>9 DEF CreateAccount, program
  <2>4. UNCHANGED accounts \/ \E v : accounts' = Append(accounts, v)
    BY <1>9 DEF CreateAccount
  <2> QED
    BY <2>1, <2>2, <2>3, <2>4, NextTransactionMoves DEF Moves
<1>10. CASE InsertTransaction(t)
  BY <1>10, NextTransactionMoves DEF InsertTransaction, program
<1>11. CASE Hang(t)
  BY <1>11, GotoMoves DEF Hang, program
<1> QED
  BY <1>1, <1>2, <1>3, <1>4, <1>5, <1>6, <1>7, <1>8, <1>9, <1>10, <1>11 DEF ProcessAccount

\* The list of accounts stays a sequence, whatever a step does to it.
LEMMA ListStaysSeq ==
  ASSUME accounts \in Seq(Range(accounts)),
         \/ UNCHANGED accounts
         \/ \E id, v : accounts' = [accounts EXCEPT ![id] = v]
         \/ \E v : accounts' = Append(accounts, v)
  PROVE  (accounts \in Seq(Range(accounts)))'
<1>1. CASE UNCHANGED accounts
  BY <1>1 DEF Range
<1> QED
  BY <1>1, AccountChanges, AccountIsAdded
-----------------------------------------------------------------------------
LEMMA PoolInit ==
  ASSUME PollerAssumption, Init
  PROVE  PoolInv
<1>1. \A k \in Consumers : TasksOf(k) = {} /\ todo[k] = {} /\ awaited[k] = 0
  BY DEF Init, TasksOf
<1>2. Cardinality({}) = 0 /\ IsFiniteSet({})
  BY FS_EmptySet
<1>3. \A k \in Consumers : PoolSize[ChainOf[k]] \in Nat
  BY DEF PollerAssumption
<1>4. accounts \in Seq(Range(accounts))
  <2>1. accounts = Imported /\ Imported \in Seq(Account)
    BY DEF PollerAssumption, Init
  <2> QED
    BY <2>1, SeqOfItsRange
<1>5. IsFiniteSet(trxAccounts) /\ TasksShape /\ RunsShape
  BY <1>2 DEF Init, TasksShape, RunsShape
<1>6. ResultsAddUp
  <2> SUFFICES ASSUME NEW k \in Consumers
               PROVE  /\ awaited[k] = Cardinality(todo[k]) + Cardinality(TasksOf(k))
                      /\ Cardinality(TasksOf(k)) <= PoolSize[ChainOf[k]]
                      /\ \A t \in TasksOf(k) : t.id \notin todo[k]
                      /\ \A t, u \in TasksOf(k) : t.id = u.id => t = u
    BY DEF ResultsAddUp
  <2>1. Cardinality(todo[k]) = 0 /\ Cardinality(TasksOf(k)) = 0
    BY <1>1, <1>2
  <2> QED
    BY <1>1, <1>3, <2>1
<1> QED
  BY <1>4, <1>5, <1>6 DEF PoolInv

LEMMA PoolStep ==
  ASSUME PollerAssumption, PoolInv, [Next]_vars
  PROVE  PoolInv'
<1> USE PollerAssumption
<1>0. GoroutinesOK /\ accounts \in Seq(Range(accounts)) /\ IsFiniteSet(trxAccounts)
  BY DEF PoolInv, GoroutinesOK
<1>a. ASSUME GoroutinesOK', (accounts \in Seq(Range(accounts)))', IsFiniteSet(trxAccounts')
      PROVE  PoolInv'
  BY <1>a DEF PoolInv, GoroutinesOK
<1>b. ASSUME UNCHANGED <<run, tasks>>, IsFiniteSet(trxAccounts'),
             UNCHANGED accounts \/ \E id, v : accounts' = [accounts EXCEPT ![id] = v]
      PROVE  PoolInv'
  BY <1>0, <1>a, <1>b, GoroutinesStutter, ListStaysSeq
<1>1. CASE StartUp
  <2>1. IsFiniteSet(ActiveAccounts("TRX"))
    BY <1>0, ListIsSeq
  <2> QED
    BY <1>0, <1>1, <1>b, <2>1 DEF StartUp, program
<1>2. CASE Crash
  <2>1. Die
    BY <1>2 DEF Crash
  <2>2. UNCHANGED accounts
    BY <2>1 DEF Die
  <2> QED
    BY <1>0, <1>a, <2>1, <2>2, GoroutinesDie, FS_EmptySet, ListStaysSeq
<1>3. ASSUME NEW tr \in Transfers, Mine(tr) PROVE PoolInv'
  BY <1>0, <1>3, <1>b DEF Mine, program
<1>4. ASSUME NEW a \in Watched, OrderChanges(a) PROVE PoolInv'
  BY <1>0, <1>4, <1>b DEF OrderChanges, program
<1>5. ASSUME NEW u \in Users, UserChanges(u) PROVE PoolInv'
  BY <1>0, <1>5, <1>b DEF UserChanges, program
<1>6. ASSUME NEW id \in Ids, DeleteAccount(id) \/ WithdrawCurrency(id) PROVE PoolInv'
  BY <1>0, <1>6, <1>b DEF DeleteAccount, WithdrawCurrency, program
<1>7. ASSUME NEW c \in Chains, Enqueue(c) PROVE PoolInv'
  BY <1>0, <1>7, <1>b DEF Enqueue, program
<1>8. ASSUME NEW k \in Consumers, StartRun(k) \/ StartTrxRun(k) PROVE PoolInv'
  <2>1. /\ ConsumerIdle(k)
        /\ UNCHANGED <<tasks, accounts, trxAccounts>>
        /\ \/ UNCHANGED run
           \/ Run(k, ActiveAccounts(ChainOf[k]))
           \/ Run(k, trxAccounts)
    BY <1>8 DEF StartRun, StartTrxRun, Pop, program
  <2>2. IsFiniteSet(ActiveAccounts(ChainOf[k]))
    BY <1>0, ListIsSeq
  <2>3. GoroutinesOK'
    BY <1>0, <2>1, <2>2, RunStarts, GoroutinesStutter
  <2> QED
    BY <1>0, <1>a, <2>1, <2>3, ListStaysSeq
<1>9. ASSUME NEW k \in Consumers, NEW id \in todo[k], Take(k, id) PROVE PoolInv'
  <2>1. UNCHANGED <<accounts, trxAccounts>>
    BY <1>9 DEF Take, program
  <2> QED
    BY <1>0, <1>9, <1>a, <2>1, TaskStarts, ListStaysSeq
<1>10. ASSUME NEW t \in tasks, ProcessAccount(t) \/ Hang(t) PROVE PoolInv'
  <2>1. TasksShape
    BY <1>0 DEF GoroutinesOK
  <2>2. GoroutinesOK' /\ IsFiniteSet(trxAccounts')
    BY <1>0, <1>10, <2>1, TaskProgress, TaskMoves, GoroutinesDie, FS_EmptySet
  <2>3. (accounts \in Seq(Range(accounts)))'
    BY <1>0, <1>10, <2>1, TaskProgress, ListStaysSeq
  <2> QED
    BY <1>a, <2>2, <2>3
<1>11. CASE UNCHANGED vars
  BY <1>0, <1>11, <1>b DEF vars, program
<1> QED
  BY <1>1, <1>2, <1>3, <1>4, <1>5, <1>6, <1>7, <1>8, <1>9, <1>10, <1>11
     DEF Next, Environment, Pool

\* A consumer waits for exactly the results that are still to come, for any
\* number of consumers, accounts and failures.
THEOREM ResultsAlwaysAddUp == Spec => []ResultsAddUp
<1>1. Init => PoolInv
  BY PollerAssumption, PoolInit
<1>2. PoolInv /\ [Next]_vars => PoolInv'
  BY PollerAssumption, PoolStep
<1>3. PoolInv => ResultsAddUp
  BY DEF PoolInv
<1> QED
  BY <1>1, <1>2, <1>3, PTL DEF Spec
-----------------------------------------------------------------------------
\* Every finite set of numbers can be listed from the greatest to the least: a
\* least set that cannot would have a list without its least element.
Descending(S, s) ==
  s \in [1..Cardinality(S) -> S] /\ \A i, j \in DOMAIN s : i < j => s[i] > s[j]

LEMMA LeastElement ==
  ASSUME NEW S \in SUBSET Nat, S # {}
  PROVE  \E a \in S : \A b \in S : a <= b
<1> DEFINE Upto == {0..a : a \in S}
<1>1. Upto \subseteq FiniteSubsetsOf(Nat) /\ Upto # {}
  <2>1. ASSUME NEW a \in S PROVE 0..a \in FiniteSubsetsOf(Nat)
    <3>1. 0..a \in SUBSET Nat /\ IsFiniteSet(0..a)
      BY FS_Interval
    <3> QED
      BY <3>1 DEF FiniteSubsetsOf
  <2> QED
    BY <2>1
<1>2. PICK u \in Upto : \A v \in Upto : ~(<<v, u>> \in StrictSubsetOrdering(Nat))
  <2> HIDE DEF Upto
  <2> QED
    BY <1>1, FS_StrictSubsetOrderingWellFounded, WFMin
<1>3. PICK a \in S : u = 0..a
  OBVIOUS
<1>4. ASSUME NEW b \in S PROVE a <= b
  <2> SUFFICES ASSUME b < a PROVE FALSE
    OBVIOUS
  <2>1. a \in 0..a /\ a \notin 0..b /\ 0..b \subseteq 0..a /\ 0..a \subseteq Nat
    OBVIOUS
  <2>2. <<0..b, 0..a>> \in StrictSubsetOrdering(Nat)
    BY <2>1 DEF StrictSubsetOrdering
  <2> QED
    BY <1>2, <1>3, <2>2
<1> QED
  BY <1>4

LEMMA DescendingExists ==
  ASSUME NEW S \in SUBSET Nat, IsFiniteSet(S)
  PROVE  \E s : Descending(S, s)
<1> DEFINE Bad == {T \in FiniteSubsetsOf(S) : ~ \E s : Descending(T, s)}
<1> SUFFICES ASSUME Bad # {} PROVE FALSE
  BY DEF FiniteSubsetsOf
<1>1. PICK T \in Bad : \A U \in Bad : ~(<<U, T>> \in StrictSubsetOrdering(S))
  <2> HIDE DEF Bad
  <2>1. Bad \subseteq FiniteSubsetsOf(S)
    BY DEF Bad
  <2> QED
    BY <2>1, FS_StrictSubsetOrderingWellFounded, WFMin
<1>2. T \in SUBSET Nat /\ IsFiniteSet(T) /\ T \in SUBSET S
  BY DEF FiniteSubsetsOf
<1>3. T # {}
  <2> SUFFICES ASSUME T = {} PROVE FALSE
    OBVIOUS
  <2>1. Cardinality({}) = 0
    BY FS_EmptySet
  <2>2. Descending({}, [i \in 1..0 |-> 0])
    BY <2>1 DEF Descending
  <2> QED
    BY <2>2
<1>4. PICK a \in T : \A b \in T : a <= b
  BY <1>2, <1>3, LeastElement
<1> DEFINE U == T \ {a}
           n == Cardinality(U)
<1>5. IsFiniteSet(U) /\ n \in Nat /\ Cardinality(T) = n + 1
  <2>1. IsFiniteSet(U) /\ n = Cardinality(T) - 1
    BY <1>2, FS_RemoveElement
  <2>2. n \in Nat /\ Cardinality(T) \in Nat
    BY <1>2, <2>1, FS_CardinalityType
  <2> QED
    BY <2>1, <2>2
<1>6. \E s : Descending(U, s)
  <2>1. <<U, T>> \in StrictSubsetOrdering(S)
    BY <1>2 DEF StrictSubsetOrdering
  <2>2. U \in FiniteSubsetsOf(S) /\ U \notin Bad
    BY <1>1, <1>2, <1>5, <2>1 DEF FiniteSubsetsOf
  <2> QED
    BY <2>2
<1>7. PICK s : Descending(U, s)
  BY <1>6
<1> HIDE DEF n
<1> DEFINE r == [i \in 1..n + 1 |-> IF i <= n THEN s[i] ELSE a]
<1>8. s \in [1..n -> U] /\ \A i, j \in 1..n : i < j => s[i] > s[j]
  BY <1>7 DEF Descending, n
<1>9. r \in [1..n + 1 -> T]
  BY <1>5, <1>8
<1>10. ASSUME NEW i \in 1..n + 1, NEW j \in 1..n + 1, i < j PROVE r[i] > r[j]
  <2>1. i \in 1..n /\ r[i] = s[i] /\ s[i] \in T /\ s[i] # a
    BY <1>5, <1>8, <1>10
  <2>2. CASE j \in 1..n
    BY <1>8, <1>10, <2>1, <2>2
  <2>3. CASE j \notin 1..n
    <3>1. a \in Nat /\ s[i] \in Nat
      BY <1>2, <2>1
    <3>2. ~(j <= n)
      BY <1>5, <2>3
    <3>3. r[j] = a
      BY <3>2
    <3> QED
      BY <1>4, <2>1, <3>1, <3>3
  <2> QED
    BY <2>2, <2>3
<1>11. Descending(T, r)
  <2> HIDE DEF r, Bad
  <2>1. DOMAIN r = 1..n + 1
    BY <1>9
  <2>2. r \in [1..Cardinality(T) -> T]
    BY <1>5, <1>9
  <2>3. \A i, j \in DOMAIN r : i < j => r[i] > r[j]
    BY <1>10, <2>1
  <2> QED
    BY <2>2, <2>3 DEF Descending
<1> QED
  BY <1>11

\* The newest places of a set are some of the set, and no transaction is passed
\* over while the list has room.
LEMMA NewestIsSeq ==
  ASSUME NEW S \in SUBSET Nat, IsFiniteSet(S)
  PROVE  Newest(S) \in Seq(S) /\ Len(Newest(S)) = Cardinality(S)
<1>1. PICK s : Descending(S, s)
  BY DescendingExists
<1>2. Newest(S) \in [1..Cardinality(S) -> S]
  BY <1>1 DEF Newest, Descending
<1>3. Cardinality(S) \in Nat
  BY FS_CardinalityType
<1> QED
  BY <1>2, <1>3, IsASeq, LenProperties

LEMMA FirstOfIsSeq ==
  ASSUME NEW S, NEW s \in Seq(S), NEW n \in Nat
  PROVE  FirstOf(s, n) \in Seq(S)
<1> DEFINE m == IF Len(s) < n THEN Len(s) ELSE n
<1>1. Len(s) \in Nat /\ m \in Nat /\ m <= Len(s)
  BY LenProperties
<1>2. \A i \in 1..m : s[i] \in S
  BY <1>1, ElementOfSeq
<1> QED
  BY <1>1, <1>2, SubSeqProperties DEF FirstOf
-----------------------------------------------------------------------------
\* What is stored, what a step may do to it, and what every step keeps.
StoreOK ==
  /\ ledger \in Seq(Transfers) /\ Height <= MaxLedger
  /\ accounts \in Seq(Account) /\ Len(accounts) <= MaxAccounts
  /\ history \subseteq [hash : 1..Height, sender : Ids, receiver : Ids, direction : {"SEND", "RECEIVE"}]

SameOwner(v, w) == v.chain = w.chain /\ v.user = w.user /\ v.addr = w.addr

AccountEdited ==
  \E id \in Ids, v \in Account :
    SameOwner(v, accounts[id]) /\ accounts' = [accounts EXCEPT ![id] = v]
AccountMade ==
  \E v \in Account : Len(accounts) < MaxAccounts /\ accounts' = Append(accounts, v)
Mined == \E tr \in Transfers : Height < MaxLedger /\ ledger' = Append(ledger, tr)
Stored ==
  \E d \in [hash : 1..Height, sender : Ids, receiver : Ids, direction : {"SEND", "RECEIVE"}] :
    history' = history \cup {d}

StoreStep ==
  \/ UNCHANGED <<ledger, accounts, history>>
  \/ Mined /\ UNCHANGED <<accounts, history>>
  \/ (AccountEdited \/ AccountMade) /\ UNCHANGED <<ledger, history>>
  \/ Stored /\ UNCHANGED <<ledger, accounts>>

Kept ==
  /\ Height \in Nat /\ Height' \in Nat /\ Height <= Height'
  /\ \A p \in 1..Height : ledger'[p] = ledger[p]
  /\ Len(accounts) \in Nat /\ Len(accounts') \in Nat /\ Len(accounts) <= Len(accounts')
  /\ Ids \subseteq Ids' /\ \A id \in Ids : SameOwner(accounts'[id], accounts[id])

LEMMA StoreLengths == StoreOK => Height \in Nat /\ Len(accounts) \in Nat /\ IsFiniteSet(1..Height)
BY LenProperties, FS_Interval DEF StoreOK, Height

LEMMA StoreStays ==
  ASSUME StoreOK, StoreStep
  PROVE  StoreOK' /\ Kept
<1>0. Height \in Nat /\ Len(accounts) \in Nat
  BY StoreLengths
<1>1. CASE UNCHANGED <<ledger, accounts, history>>
  BY <1>0, <1>1 DEF StoreOK, Kept, Height, Ids, SameOwner
<1>2. CASE Mined /\ UNCHANGED <<accounts, history>>
  <2>1. PICK tr \in Transfers : Height < MaxLedger /\ ledger' = Append(ledger, tr)
    BY <1>2 DEF Mined
  <2>2. /\ ledger' \in Seq(Transfers) /\ Height' = Height + 1
        /\ \A p \in 1..Height : ledger'[p] = ledger[p]
    BY <2>1, AppendProperties DEF StoreOK, Height
  <2>3. Height' <= MaxLedger
    BY <1>0, <2>1, <2>2, PollerAssumption DEF PollerAssumption
  <2>4. Ids' = Ids /\ 1..Height \subseteq 1..Height'
    BY <1>0, <1>2, <2>2 DEF Ids
  <2>5. StoreOK'
    BY <1>2, <2>2, <2>3, <2>4 DEF StoreOK
  <2>6. Kept
    BY <1>0, <1>2, <2>2, <2>4 DEF Kept, SameOwner
  <2> QED
    BY <2>5, <2>6
<1>3. CASE AccountEdited /\ UNCHANGED <<ledger, history>>
  <2>1. PICK id \in Ids, v \in Account :
          SameOwner(v, accounts[id]) /\ accounts' = [accounts EXCEPT ![id] = v]
    BY <1>3 DEF AccountEdited
  <2>2. /\ accounts' \in Seq(Account) /\ Len(accounts') = Len(accounts)
        /\ \A j \in Ids : accounts'[j] = IF j = id THEN v ELSE accounts[j]
    BY <2>1, ExceptSeq DEF StoreOK, Ids
  <2>3. Ids' = Ids /\ Height' = Height
    BY <1>3, <2>2 DEF Ids, Height
  <2>4. StoreOK'
    BY <1>3, <2>2, <2>3 DEF StoreOK
  <2>5. Kept
    BY <1>0, <1>3, <2>1, <2>2, <2>3 DEF Kept, SameOwner
  <2> QED
    BY <2>4, <2>5
<1>4. CASE AccountMade /\ UNCHANGED <<ledger, history>>
  <2>1. PICK v \in Account : Len(accounts) < MaxAccounts /\ accounts' = Append(accounts, v)
    BY <1>4 DEF AccountMade
  <2>2. /\ accounts' \in Seq(Account) /\ Len(accounts') = Len(accounts) + 1
        /\ \A j \in Ids : accounts'[j] = accounts[j]
    BY <2>1, AppendProperties DEF StoreOK, Ids
  <2>3. Ids \subseteq Ids' /\ Height' = Height /\ Len(accounts') <= MaxAccounts
    BY <1>0, <1>4, <2>1, <2>2, PollerAssumption DEF Ids, Height, PollerAssumption
  <2>4. StoreOK'
    BY <1>4, <2>2, <2>3 DEF StoreOK
  <2>5. Kept
    BY <1>0, <1>4, <2>2, <2>3 DEF Kept, SameOwner
  <2> QED
    BY <2>4, <2>5
<1>5. CASE Stored /\ UNCHANGED <<ledger, accounts>>
  BY <1>0, <1>5 DEF Stored, StoreOK, Kept, Height, Ids, SameOwner
<1> QED
  BY <1>1, <1>2, <1>3, <1>4, <1>5 DEF StoreStep
-----------------------------------------------------------------------------
\* A task that is well formed and does what it should.
TaskGood(t) ==
  /\ t \in Task
  /\ t.id \in Ids /\ t.receiver \in 0..Len(accounts)
  /\ t.left \in Seq(1..Height)
  /\ t.at \in {"lookup", "count", "find", "create", "insert"} => t.left # <<>>
  /\ t.height <= Height
  /\ accounts[t.id].chain = ChainFor(t) /\ t.by \in started
  /\ \A i \in DOMAIN t.left : Touches(t.left[i], t.id)
  /\ t.at = "insert" => t.receiver \in Ids /\ accounts[t.receiver].addr = Recipient(Head(t.left))

LEMMA TaskStaysGood ==
  ASSUME StoreOK, Kept, UNCHANGED started, NEW t, TaskGood(t)
  PROVE  TaskGood(t)'
<1>1. /\ t.id \in Ids /\ t.id \in Ids' /\ SameOwner(accounts'[t.id], accounts[t.id])
  BY DEF TaskGood, Kept
<1>2. t.left \in Seq((1..Height)')
  <2>1. 1..Height \subseteq (1..Height)'
    BY DEF Kept
  <2>2. t.left \in Seq(1..Height)
    BY DEF TaskGood
  <2> QED
    BY <2>1, <2>2, SeqMonotonic
<1>3. \A i \in DOMAIN t.left : t.left[i] \in 1..Height /\ ledger'[t.left[i]] = ledger[t.left[i]]
  BY ElementOfSeq, LenProperties DEF TaskGood, Kept
<1>4. \A i \in DOMAIN t.left : Touches(t.left[i], t.id)'
  <2>1. ASSUME NEW i \in DOMAIN t.left PROVE Touches(t.left[i], t.id)'
    <3>1. Touches(t.left[i], t.id) /\ ledger'[t.left[i]] = ledger[t.left[i]]
      BY <1>3, <2>1 DEF TaskGood
    <3>2. Concerned(t.left[i])' = Concerned(t.left[i])
      BY <3>1 DEF Concerned
    <3> QED
      BY <1>1, <3>1, <3>2 DEF Touches, Addr, SameOwner
  <2> QED
    BY <2>1
<1>5. t.receiver \in (0..Len(accounts))' /\ t.height <= Height'
  BY DEF TaskGood, Kept, Task
<1>6. ASSUME t.at = "insert"
      PROVE  t.receiver \in Ids' /\ accounts'[t.receiver].addr = Recipient(Head(t.left))'
  <2>1. t.left # <<>> /\ t.left \in Seq(1..Height)
    BY <1>6 DEF TaskGood
  <2>2. 1 \in DOMAIN t.left /\ Head(t.left) = t.left[1]
    BY <2>1, LenProperties
  <2>3. ledger'[Head(t.left)] = ledger[Head(t.left)]
    BY <1>3, <2>2
  <2> QED
    BY <1>6, <2>3 DEF TaskGood, Kept, SameOwner, Recipient
<1>7. accounts'[t.id].chain = ChainFor(t)
  BY <1>1 DEF TaskGood, SameOwner
<1> QED
  BY <1>1, <1>2, <1>4, <1>5, <1>6, <1>7 DEF TaskGood, ChainFor
-----------------------------------------------------------------------------
\* What is listed for an address on a chain touches it.
For(c, a) ==
  {p \in 1..Height : /\ ledger[p].chain = c /\ a \in Concerned(p)
                     /\ c = "BTC" => ledger[p].to = a}

LEMMA ListedTouches ==
  ASSUME StoreOK, NEW c \in Chains, NEW kind \in Kinds, NEW a
  PROVE  Listed(c, kind, a) \in Seq(For(c, a))
<1> DEFINE S == Found(c, kind, a)
<1>1. S \subseteq For(c, a)
  <2>1. CASE c = "BTC"
    BY <2>1 DEF Found, Unspent, For, Concerned
  <2>2. CASE c = "SOL"
    BY <2>2 DEF Found, Signatures, Involving, For
  <2>3. CASE c = "TRX" /\ kind = "coin"
    BY <2>3 DEF Found, NativeTransactions, Involving, For
  <2>4. CASE c = "TRX" /\ kind = "token"
    BY <2>4 DEF Found, TokenTransactions, Involving, For
  <2> QED
    BY <2>1, <2>2, <2>3, <2>4 DEF Chains, Kinds
<1>2. S \in SUBSET Nat /\ IsFiniteSet(S)
  <2>1. S \in SUBSET (1..Height)
    BY <1>1 DEF For
  <2> HIDE DEF S
  <2>2. IsFiniteSet(S)
    BY <2>1, StoreLengths, FS_Subset
  <2> QED
    BY <2>1, <2>2
<1>3. Limit[<<c, kind>>] \in Nat
  BY PollerAssumption DEF PollerAssumption
<1> HIDE DEF S
<1>4. FirstOf(Newest(S), Limit[<<c, kind>>]) \in Seq(S)
  BY <1>2, <1>3, NewestIsSeq, FirstOfIsSeq
<1> QED
  BY <1>1, <1>4, SeqMonotonic DEF Listed, S

\* A good task with a new list of transactions that touch its account.
LEMMA Bounds == MaxLedger \in Nat /\ MaxAccounts \in Nat
BY PollerAssumption DEF PollerAssumption

LEMMA LeftIsGood ==
  ASSUME StoreOK, NEW t, TaskGood(t), NEW left \in Seq(For(ChainFor(t), Addr(t.id)))
  PROVE  /\ left \in Seq(1..Height) /\ left \in Seq(1..MaxLedger)
         /\ \A i \in DOMAIN left : Touches(left[i], t.id)
<1>1. For(ChainFor(t), Addr(t.id)) \subseteq 1..Height
  BY DEF For
<1>2. left \in Seq(1..Height)
  BY <1>1, SeqMonotonic
<1>3. 1..Height \subseteq 1..MaxLedger
  BY StoreLengths, PollerAssumption DEF StoreOK, PollerAssumption
<1>4. left \in Seq(1..MaxLedger)
  BY <1>2, <1>3, SeqMonotonic
<1>5. \A i \in DOMAIN left : left[i] \in For(ChainFor(t), Addr(t.id))
  BY ElementOfSeq, LenProperties
<1>6. \A i \in DOMAIN left : Touches(left[i], t.id)
  BY <1>5 DEF For, Touches, TaskGood
<1> QED
  BY <1>2, <1>4, <1>6

\* What is left of a good task after its first transaction.
LEMMA TailIsGood ==
  ASSUME StoreOK, NEW t, TaskGood(t), t.left # <<>>
  PROVE  /\ Tail(t.left) \in Seq(1..Height) /\ Tail(t.left) \in Seq(1..MaxLedger)
         /\ Len(t.left) > 1 => Tail(t.left) # <<>>
         /\ \A i \in DOMAIN Tail(t.left) : Touches(Tail(t.left)[i], t.id)
<1>1. t.left \in Seq(1..Height) /\ t.left \in Seq(1..MaxLedger)
  BY DEF TaskGood, Task
<1>2. /\ Tail(t.left) \in Seq(1..Height) /\ Tail(t.left) \in Seq(1..MaxLedger)
      /\ Len(Tail(t.left)) = Len(t.left) - 1
      /\ \A i \in 1..Len(Tail(t.left)) : Tail(t.left)[i] = t.left[i + 1]
  BY <1>1, HeadTailProperties
<1>3. Len(t.left) \in Nat /\ DOMAIN t.left = 1..Len(t.left)
  BY <1>1, LenProperties
<1>4. DOMAIN Tail(t.left) = 1..Len(Tail(t.left))
  BY <1>2, LenProperties
<1>5. ASSUME NEW i \in DOMAIN Tail(t.left) PROVE Touches(Tail(t.left)[i], t.id)
  <2>1. i + 1 \in DOMAIN t.left /\ Tail(t.left)[i] = t.left[i + 1]
    BY <1>2, <1>3, <1>4
  <2> QED
    BY <2>1 DEF TaskGood
<1>6. ASSUME Len(t.left) > 1 PROVE Tail(t.left) # <<>>
  <2> DEFINE rest == Tail(t.left)
  <2>1. Len(rest) > 0
    BY <1>2, <1>3, <1>6
  <2> HIDE DEF rest
  <2>2. rest # <<>>
    BY <2>1
  <2> QED
    BY <2>2 DEF rest
<1> QED
  BY <1>2, <1>5, <1>6
-----------------------------------------------------------------------------
\* A balance that is about to be stored is new enough.
FreshTask(t) ==
  t.at = "save" /\ ChainFor(t) # "SOL" /\ Alone(t) => accounts[t.id].balance <= t.height

\* The task goes on as a good one, which stores no balance next.
GoesOn(t) ==
  \E next : Continue(t, next) /\ TaskGood(next) /\ next.at # "save"

\* A task with new fields.
Moved(t, at, batch, left, receiver) ==
  [t EXCEPT !.at = at, !.batch = batch, !.left = left, !.receiver = receiver]
MovedOn(t, at, left, receiver) == [t EXCEPT !.at = at, !.left = left, !.receiver = receiver]

LEMMA MovedRecord ==
  ASSUME NEW t \in Task, NEW at \in TaskSteps, NEW batch \in Kinds,
         NEW left \in Seq(1..MaxLedger), NEW receiver \in 0..MaxAccounts
  PROVE  LET next == Moved(t, at, batch, left, receiver)
         IN  /\ next \in Task /\ next.by = t.by /\ next.id = t.id /\ next.height = t.height
             /\ next.at = at /\ next.left = left /\ next.receiver = receiver
<1> DEFINE next == Moved(t, at, batch, left, receiver)
<1>1. next \in Task
  BY DEF Task, Moved
<1>2. /\ next.by = t.by /\ next.id = t.id /\ next.height = t.height
      /\ next.at = at /\ next.left = left /\ next.receiver = receiver
  BY DEF Task, Moved, MovedOn
<1> QED
  BY <1>1, <1>2

LEMMA RestRecord ==
  ASSUME NEW t \in Task, NEW at \in TaskSteps,
         NEW left \in Seq(1..MaxLedger), NEW receiver \in 0..MaxAccounts
  PROVE  LET next == MovedOn(t, at, left, receiver)
         IN  /\ next \in Task /\ next.by = t.by /\ next.id = t.id /\ next.height = t.height
             /\ next.at = at /\ next.left = left /\ next.receiver = receiver
<1> DEFINE next == MovedOn(t, at, left, receiver)
<1>1. next \in Task
  BY DEF Task, MovedOn
<1>2. /\ next.by = t.by /\ next.id = t.id /\ next.height = t.height
      /\ next.at = at /\ next.left = left /\ next.receiver = receiver
  BY DEF Task, Moved, MovedOn
<1> QED
  BY <1>1, <1>2

LEMMA GotoGood ==
  ASSUME NEW t, TaskGood(t), NEW step \in {"balance", "list", "count", "create", "find", "hung"},
         step \in {"count", "create", "find"} => t.left # <<>>, Goto(t, step)
  PROVE  GoesOn(t)
<1> DEFINE next == [t EXCEPT !.at = step]
<1>1. /\ next \in Task /\ next.at = step
      /\ next.by = t.by /\ next.id = t.id /\ next.height = t.height /\ next.left = t.left
      /\ next.receiver = t.receiver
  BY DEF TaskGood, Task, TaskSteps
<1>2. Continue(t, next)
  BY DEF Goto
<1> HIDE DEF next
<1>3. TaskGood(next)
  BY <1>1 DEF TaskGood, ChainFor
<1> QED
  BY <1>1, <1>2, <1>3 DEF GoesOn

LEMMA EndBatchGood ==
  ASSUME StoreOK, NEW t, TaskGood(t), EndBatch(t)
  PROVE  GoesOn(t) \/ Result(t)
<1> DEFINE next == [t EXCEPT !.at = "list", !.batch = "token", !.left = <<>>, !.receiver = 0]
<1>1. CASE Result(t)
  BY <1>1
<1>2. CASE Continue(t, next)
  <2>0. <<>> \in Seq(1..MaxLedger) /\ <<>> \in Seq(1..Height) /\ DOMAIN <<>> = {}
    OBVIOUS
  <2>a. "list" \in TaskSteps /\ "token" \in Kinds /\ 0 \in 0..MaxAccounts /\ t \in Task
    BY Bounds DEF TaskSteps, Kinds, TaskGood
  <2>1. /\ next \in Task /\ next.at = "list"
        /\ next.by = t.by /\ next.id = t.id /\ next.height = t.height /\ next.left = <<>>
        /\ next.receiver = 0
    <3>1. next = Moved(t, "list", "token", <<>>, 0)
      BY DEF Moved
    <3> HIDE DEF next
    <3> DEFINE none == <<>>
    <3>2. none \in Seq(1..MaxLedger)
      BY <2>0
    <3> HIDE DEF none
    <3>3. next = Moved(t, "list", "token", none, 0)
      BY <3>1 DEF none
    <3>4. /\ next \in Task /\ next.at = "list"
          /\ next.by = t.by /\ next.id = t.id /\ next.height = t.height /\ next.left = none
          /\ next.receiver = 0
      BY <2>a, <3>2, <3>3, MovedRecord
    <3> QED
      BY <3>4 DEF none
  <2> HIDE DEF next
  <2>2. 0 \in 0..Len(accounts)
    BY StoreLengths
  <2>3. TaskGood(next)
    BY <2>0, <2>1, <2>2 DEF TaskGood, ChainFor
  <2> QED
    BY <1>2, <2>1, <2>3 DEF GoesOn
<1> QED
  BY <1>1, <1>2 DEF EndBatch

LEMMA NextTransactionGood ==
  ASSUME StoreOK, NEW t, TaskGood(t), t.left # <<>>, NextTransaction(t)
  PROVE  GoesOn(t) \/ Result(t)
<1> DEFINE next == [t EXCEPT !.at = "lookup", !.left = Tail(@), !.receiver = 0]
<1>1. CASE EndBatch(t)
  BY <1>1, EndBatchGood
<1>2. CASE Len(t.left) > 1 /\ Continue(t, next)
  <2>0. /\ Tail(t.left) \in Seq(1..Height) /\ Tail(t.left) \in Seq(1..MaxLedger)
        /\ Tail(t.left) # <<>>
        /\ \A i \in DOMAIN Tail(t.left) : Touches(Tail(t.left)[i], t.id)
    BY <1>2, TailIsGood
  <2>a. "lookup" \in TaskSteps /\ 0 \in 0..MaxAccounts /\ t \in Task
    BY Bounds DEF TaskSteps, TaskGood
  <2>1. /\ next \in Task /\ next.at = "lookup"
        /\ next.by = t.by /\ next.id = t.id /\ next.height = t.height
        /\ next.left = Tail(t.left) /\ next.receiver = 0
    <3>1. next = MovedOn(t, "lookup", Tail(t.left), 0)
      BY DEF MovedOn
    <3> HIDE DEF next
    <3> QED
      BY <2>0, <2>a, <3>1, RestRecord
  <2> HIDE DEF next
  <2>2. 0 \in 0..Len(accounts)
    BY StoreLengths
  <2>3. TaskGood(next)
    BY <2>0, <2>1, <2>2 DEF TaskGood, ChainFor
  <2> QED
    BY <1>2, <2>1, <2>3 DEF GoesOn
<1> QED
  BY <1>1, <1>2 DEF NextTransaction
-----------------------------------------------------------------------------
\* What a step makes of its task, unless the program ends.
GoesOnFresh(t) ==
  \E next : Continue(t, next) /\ TaskGood(next) /\ FreshTask(next)
Steady(t) == Die \/ Result(t) \/ GoesOnFresh(t)

LEMMA GoesOnIsSteady == ASSUME NEW t, GoesOn(t) \/ Result(t) PROVE Steady(t)
BY DEF GoesOn, Steady, GoesOnFresh, FreshTask

LEMMA FindOrdersGood ==
  ASSUME StoreOK, NEW t, TaskGood(t), FindOrders(t)
  PROVE  Steady(t) /\ UNCHANGED <<ledger, accounts, history>>
<1>1. ASSUME Goto(t, "balance") PROVE Steady(t)
  BY <1>1, GotoGood, GoesOnIsSteady
<1>2. ASSUME Result(t) \/ Die PROVE Steady(t)
  BY <1>2 DEF Steady
<1>3. Goto(t, "balance") \/ Result(t) \/ Die
  BY DEF FindOrders
<1>4. UNCHANGED <<ledger, accounts, history>>
  BY DEF FindOrders, world
<1> QED
  BY <1>1, <1>2, <1>3, <1>4

LEMMA AnsweredGood ==
  ASSUME StoreOK, \A id \in Ids : accounts[id].balance <= Height,
         NEW t, TaskGood(t), Answered(t)
  PROVE  GoesOnFresh(t)
<1> DEFINE next == [t EXCEPT !.at = "save", !.height = Height]
<1>0. Height \in 0..MaxLedger
  BY StoreLengths, Bounds DEF StoreOK
<1>1. /\ next \in Task /\ next.at = "save"
      /\ next.by = t.by /\ next.id = t.id /\ next.height = Height /\ next.left = t.left
      /\ next.receiver = t.receiver
  <2> DEFINE h == Height
  <2> HIDE DEF h
  <2> DEFINE new == [t EXCEPT !.at = "save", !.height = h]
  <2>0. t \in Task /\ h \in 0..MaxLedger
    BY <1>0 DEF TaskGood, h
  <2>1. new \in Task
    BY <2>0 DEF Task, TaskSteps
  <2>2. /\ new.at = "save" /\ new.by = t.by /\ new.id = t.id /\ new.height = h
        /\ new.left = t.left /\ new.receiver = t.receiver
    BY <2>0 DEF Task
  <2>3. next = new
    BY DEF h
  <2> HIDE DEF next, new
  <2> QED
    BY <2>1, <2>2, <2>3 DEF h
<1>2. Continue(t, next)
  BY DEF Answered
<1> HIDE DEF next
<1>3. TaskGood(next)
  BY <1>0, <1>1 DEF TaskGood, ChainFor
<1>4. FreshTask(next)
  BY <1>1 DEF FreshTask, TaskGood
<1> QED
  BY <1>2, <1>3, <1>4 DEF GoesOnFresh

LEMMA AskBalanceGood ==
  ASSUME StoreOK, \A id \in Ids : accounts[id].balance <= Height,
         NEW t, TaskGood(t), AskBalance(t) \/ AskSolBalance(t)
  PROVE  Steady(t) /\ UNCHANGED <<ledger, accounts, history>>
<1>1. ASSUME Answered(t) PROVE Steady(t)
  BY <1>1, AnsweredGood DEF Steady
<1>2. ASSUME Result(t) PROVE Steady(t)
  BY <1>2 DEF Steady
<1>3. ASSUME Goto(t, "save") /\ ChainFor(t) = "SOL" PROVE Steady(t)
  <2> DEFINE next == [t EXCEPT !.at = "save"]
  <2>1. /\ next \in Task /\ next.at = "save"
        /\ next.by = t.by /\ next.id = t.id /\ next.height = t.height /\ next.left = t.left
        /\ next.receiver = t.receiver
    BY DEF TaskGood, Task, TaskSteps
  <2>2. Continue(t, next)
    BY <1>3 DEF Goto
  <2> HIDE DEF next
  <2>3. TaskGood(next) /\ FreshTask(next)
    BY <1>3, <2>1 DEF TaskGood, FreshTask, ChainFor
  <2> QED
    BY <2>2, <2>3 DEF Steady, GoesOnFresh
<1>4. Answered(t) \/ Result(t) \/ (Goto(t, "save") /\ ChainFor(t) = "SOL")
  BY DEF AskBalance, AskSolBalance
<1>5. UNCHANGED <<ledger, accounts, history>>
  BY DEF AskBalance, AskSolBalance, world
<1> QED
  BY <1>1, <1>2, <1>3, <1>4, <1>5

LEMMA ListTransactionsGood ==
  ASSUME StoreOK, NEW t, TaskGood(t), ListTransactions(t)
  PROVE  Steady(t) /\ UNCHANGED <<ledger, accounts, history>>
<1> DEFINE found == Listed(ChainFor(t), t.batch, Addr(t.id))
           next == [t EXCEPT !.at = "lookup", !.left = found]
<1>1. ASSUME EndBatch(t) PROVE Steady(t)
  BY <1>1, EndBatchGood, GoesOnIsSteady
<1>2. ASSUME found # <<>> /\ Continue(t, next) PROVE Steady(t)
  <2>0. ChainFor(t) \in Chains /\ t.batch \in Kinds /\ t \in Task
    BY PollerAssumption DEF TaskGood, Task, ChainFor, PollerAssumption
  <2>1. found \in Seq(For(ChainFor(t), Addr(t.id)))
    BY <2>0, ListedTouches
  <2> HIDE DEF found
  <2>2. /\ found \in Seq(1..Height) /\ found \in Seq(1..MaxLedger)
        /\ \A i \in DOMAIN found : Touches(found[i], t.id)
    BY <2>1, LeftIsGood
  <2>3. next \in Task
    BY <2>0, <2>2 DEF Task, TaskSteps
  <2>4. /\ next.at = "lookup" /\ next.by = t.by /\ next.id = t.id /\ next.height = t.height
        /\ next.left = found /\ next.receiver = t.receiver
    BY <2>0 DEF Task
  <2> HIDE DEF next
  <2>5. TaskGood(next)
    BY <1>2, <2>2, <2>3, <2>4 DEF TaskGood, ChainFor
  <2> QED
    BY <1>2, <2>4, <2>5, GoesOnIsSteady DEF GoesOn
<1>3. EndBatch(t) \/ (found # <<>> /\ Continue(t, next))
  BY DEF ListTransactions
<1>4. UNCHANGED <<ledger, accounts, history>>
  BY DEF ListTransactions, world
<1> QED
  BY <1>1, <1>2, <1>3, <1>4

LEMMA LookupGood ==
  ASSUME StoreOK, NEW t, TaskGood(t), Lookup(t) \/ CountAccounts(t)
  PROVE  Steady(t) /\ UNCHANGED <<ledger, accounts, history>>
<1>0. t.left # <<>>
  BY DEF TaskGood, Lookup, CountAccounts, At
<1>1. ASSUME NextTransaction(t) PROVE Steady(t)
  BY <1>0, <1>1, NextTransactionGood, GoesOnIsSteady
<1>2. ASSUME NEW step \in {"count", "create", "find"}, Goto(t, step)
      PROVE  Steady(t)
  BY <1>0, <1>2, GotoGood, GoesOnIsSteady
<1>3. NextTransaction(t) \/ Goto(t, "count") \/ Goto(t, "create") \/ Goto(t, "find")
  BY DEF Lookup, CountAccounts
<1>4. UNCHANGED <<ledger, accounts, history>>
  BY DEF Lookup, CountAccounts, world
<1> QED
  BY <1>1, <1>2, <1>3, <1>4

LEMMA FindAccountGood ==
  ASSUME StoreOK, NEW t, TaskGood(t), FindAccount(t)
  PROVE  Steady(t) /\ UNCHANGED <<ledger, accounts, history>>
<1> DEFINE found == Living(Recipient(Head(t.left)))
<1>0. t.left # <<>> /\ t \in Task
  BY DEF TaskGood, FindAccount, At
<1>1. ASSUME NextTransaction(t) PROVE Steady(t)
  BY <1>0, <1>1, NextTransactionGood, GoesOnIsSteady
<1>2. ASSUME NEW id \in found, Continue(t, [t EXCEPT !.at = "insert", !.receiver = id])
      PROVE  Steady(t)
  <2> DEFINE next == [t EXCEPT !.at = "insert", !.receiver = id]
  <2>1. id \in Ids /\ accounts[id].addr = Recipient(Head(t.left))
    BY DEF Living, Addr
  <2>2. id \in 0..MaxAccounts /\ id \in 0..Len(accounts)
    BY <2>1, StoreLengths, Bounds DEF Ids, StoreOK
  <2>3. next \in Task
    BY <1>0, <2>2 DEF Task, TaskSteps
  <2>4. /\ next.at = "insert" /\ next.by = t.by /\ next.id = t.id /\ next.height = t.height
        /\ next.left = t.left /\ next.receiver = id
    BY <1>0 DEF Task
  <2>5. Continue(t, next)
    BY <1>2
  <2> HIDE DEF next
  <2>6. TaskGood(next)
    BY <1>0, <2>1, <2>2, <2>3, <2>4 DEF TaskGood, ChainFor
  <2> QED
    BY <2>4, <2>5, <2>6, GoesOnIsSteady DEF GoesOn
<1>3. \/ NextTransaction(t)
      \/ \E id \in found : Continue(t, [t EXCEPT !.at = "insert", !.receiver = id])
  BY DEF FindAccount
<1>4. UNCHANGED <<ledger, accounts, history>>
  BY DEF FindAccount, world
<1> QED
  BY <1>1, <1>2, <1>3, <1>4

LEMMA HangGood ==
  ASSUME StoreOK, NEW t, TaskGood(t), Hang(t)
  PROVE  Steady(t) /\ UNCHANGED <<ledger, accounts, history>>
<1>1. Goto(t, "hung")
  BY DEF Hang
<1>2. Steady(t)
  BY <1>1, GotoGood, GoesOnIsSteady
<1> QED
  BY <1>2 DEF Hang, world
-----------------------------------------------------------------------------
\* The steps of a task that change what is stored.
LEMMA SaveBalanceGood ==
  ASSUME StoreOK, NEW t, TaskGood(t), SaveBalance(t)
  PROVE  /\ Result(t) \/ GoesOn(t)
         /\ UNCHANGED <<ledger, history>>
         /\ \/ UNCHANGED accounts
            \/ /\ AccountEdited
               /\ \A id \in Ids : accounts'[id].balance =
                                    IF id = t.id THEN t.height ELSE accounts[id].balance
<1>1. CASE Result(t) /\ UNCHANGED accounts
  BY <1>1 DEF SaveBalance, world
<1>2. CASE /\ accounts' = [accounts EXCEPT ![t.id].balance = t.height]
           /\ Continue(t, [t EXCEPT !.at = "list", !.height = 0])
  <2> DEFINE next == [t EXCEPT !.at = "list", !.height = 0]
             v == [accounts[t.id] EXCEPT !.balance = t.height]
  <2>0. t \in Task /\ t.id \in Ids /\ accounts[t.id] \in Account /\ t.height \in 0..MaxLedger
    BY ElementOfSeq DEF TaskGood, StoreOK, Ids, Task
  <2>1. v \in Account /\ SameOwner(v, accounts[t.id]) /\ v.balance = t.height
    BY <2>0 DEF Account, SameOwner
  <2>2. accounts' = [accounts EXCEPT ![t.id] = v]
    BY <1>2
  <2>3. next \in Task
    <3> DEFINE none == 0
    <3>1. none \in 0..MaxLedger
      BY Bounds
    <3> HIDE DEF none
    <3>2. [t EXCEPT !.at = "list", !.height = none] \in Task
      BY <2>0, <3>1 DEF Task, TaskSteps
    <3> QED
      BY <3>2 DEF none
  <2>4. /\ next.at = "list" /\ next.by = t.by /\ next.id = t.id /\ next.height = 0
        /\ next.left = t.left /\ next.receiver = t.receiver
    BY <2>0 DEF Task
  <2>5. Continue(t, next)
    BY <1>2
  <2> HIDE DEF next, v
  <2>6. TaskGood(next)
    BY <2>3, <2>4, StoreLengths DEF TaskGood, ChainFor
  <2>7. GoesOn(t)
    BY <2>4, <2>5, <2>6 DEF GoesOn
  <2>8. AccountEdited
    BY <2>0, <2>1, <2>2 DEF AccountEdited
  <2>9. ASSUME NEW id \in Ids
        PROVE  accounts'[id].balance = IF id = t.id THEN t.height ELSE accounts[id].balance
    <3>1. accounts'[id] = IF id = t.id THEN v ELSE accounts[id]
      BY <2>0, <2>1, <2>2, ExceptSeq DEF StoreOK, Ids
    <3> QED
      BY <2>1, <3>1
  <2>10. UNCHANGED <<ledger, history>>
    BY DEF SaveBalance, world
  <2> QED
    BY <2>7, <2>8, <2>9, <2>10
<1> QED
  BY <1>1, <1>2 DEF SaveBalance

LEMMA HeadTouches ==
  ASSUME StoreOK, NEW t, TaskGood(t), t.left # <<>>
  PROVE  /\ Head(t.left) \in 1..Height /\ Touches(Head(t.left), t.id)
         /\ ledger[Head(t.left)] \in Transfers /\ ledger[Head(t.left)] \in Transfer
<1>1. t.left \in Seq(1..Height)
  BY DEF TaskGood
<1>2. 1 \in DOMAIN t.left /\ Head(t.left) = t.left[1] /\ Head(t.left) \in 1..Height
  <2> DEFINE left == t.left
  <2> HIDE DEF left
  <2>1. left \in Seq(1..Height) /\ left # <<>>
    BY <1>1 DEF left
  <2>2. Len(left) \in Nat /\ DOMAIN left = 1..Len(left) /\ Len(left) # 0
    BY <2>1, LenProperties, EmptySeq
  <2>3. 1 \in DOMAIN left /\ Head(left) = left[1]
    BY <2>1, <2>2
  <2>4. left[1] \in 1..Height
    BY <2>1, <2>2, <2>3, ElementOfSeq
  <2> QED
    BY <2>3, <2>4 DEF left
<1>3. ledger[Head(t.left)] \in Transfers
  BY <1>2, ElementOfSeq DEF StoreOK, Height
<1> QED
  BY <1>2, <1>3, PollerAssumption DEF TaskGood, PollerAssumption

LEMMA CreateAccountGood ==
  ASSUME StoreOK, NEW t, TaskGood(t), CreateAccount(t)
  PROVE  /\ UNCHANGED <<ledger, history>>
         /\ \/ (Result(t) \/ GoesOn(t)) /\ UNCHANGED accounts
            \/ /\ AccountMade /\ accounts' = Append(accounts, NewAccount(t))
               /\ \E next : /\ Continue(t, next) /\ next.at = "insert"
                            /\ StoreOK' /\ Kept /\ UNCHANGED started => TaskGood(next)'
<1>0. t.left # <<>> /\ t \in Task /\ UNCHANGED <<ledger, history>>
  BY DEF TaskGood, CreateAccount, At, world
<1>1. CASE NextTransaction(t) /\ UNCHANGED accounts
  BY <1>0, <1>1, NextTransactionGood
<1>2. CASE /\ Len(accounts) < MaxAccounts
           /\ accounts' = Append(accounts, NewAccount(t))
           /\ Continue(t, [t EXCEPT !.at = "insert", !.receiver = Len(accounts) + 1])
  <2> DEFINE n == Len(accounts) + 1
             next == [t EXCEPT !.at = "insert", !.receiver = n]
             v == NewAccount(t)
  <2>1. v \in Account
    <3>1. ChainFor(t) \in Chains
      BY <1>0, PollerAssumption DEF Task, ChainFor, PollerAssumption
    <3>2. accounts[t.id] \in Account
      BY ElementOfSeq DEF TaskGood, StoreOK, Ids
    <3>3. Recipient(Head(t.left)) \in StoredAddresses
      <4>1. ledger[Head(t.left)].to \in Addresses \cup {NoAddress}
        BY <1>0, HeadTouches DEF Transfer
      <4>2. CASE ledger[Head(t.left)].chain = "TRX" /\ ledger[Head(t.left)].kind = "coin"
        <5>1. ledger[Head(t.left)].to \in Addresses
          BY <1>0, <4>1, <4>2, HeadTouches, PollerAssumption DEF PollerAssumption
        <5> QED
          BY <4>2, <5>1 DEF Recipient, StoredAddresses
      <4>3. CASE ~(ledger[Head(t.left)].chain = "TRX" /\ ledger[Head(t.left)].kind = "coin")
        BY <4>1, <4>3 DEF Recipient, StoredAddresses
      <4> QED
        BY <4>2, <4>3
    <3> QED
      BY <3>1, <3>2, <3>3, Bounds DEF NewAccount, Account, Kinds
  <2>2. n \in 0..MaxAccounts /\ n \in Nat
    BY <1>2, StoreLengths, Bounds
  <2> HIDE DEF n
  <2>3. next \in Task
    BY <1>0, <2>2 DEF Task, TaskSteps
  <2>4. /\ next.at = "insert" /\ next.by = t.by /\ next.id = t.id /\ next.height = t.height
        /\ next.left = t.left /\ next.receiver = n
    BY <1>0 DEF Task
  <2>5. Continue(t, next)
    BY <1>2 DEF n
  <2> HIDE DEF next
  <2>x. PICK new : new = next
    OBVIOUS
  <2>y. PICK m : m = n
    OBVIOUS
  <2>z. /\ new.at = "insert" /\ new.by = t.by /\ new.id = t.id /\ new.height = t.height
        /\ new.left = t.left /\ new.receiver = m /\ new \in Task /\ Continue(t, new)
    BY <2>3, <2>4, <2>5, <2>x, <2>y
  <2>6. AccountMade /\ accounts' = Append(accounts, v)
    BY <1>2, <2>1 DEF AccountMade
  <2>7. Len(accounts') = m /\ accounts'[m] = v
    BY <2>1, <2>6, <2>y, AppendProperties DEF StoreOK, n
  <2>8. accounts'[m].addr = Recipient(Head(t.left))
    BY <2>7 DEF NewAccount
  <2> HIDE DEF v
  <2>9. ASSUME StoreOK', Kept, UNCHANGED started PROVE TaskGood(new)'
    <3>1. TaskGood(t)'
      BY <2>9, TaskStaysGood
    <3>2. Recipient(Head(t.left))' = Recipient(Head(t.left))
      BY <1>0 DEF Recipient
    <3>3. m \in Ids' /\ m \in (0..Len(accounts))'
      <4>1. m >= 1 /\ m \in Nat /\ Len(accounts') = m
        BY <2>2, <2>7, <2>y, StoreLengths DEF n
      <4> QED
        BY <4>1 DEF Ids
    <3> QED
      BY <1>0, <2>z, <2>8, <3>1, <3>2, <3>3 DEF TaskGood, ChainFor
  <2> QED
    BY <1>0, <2>z, <2>6, <2>9 DEF v
<1> QED
  BY <1>0, <1>1, <1>2 DEF CreateAccount

\* What is said of a document in the history.
DocTrue(d) ==
  LET tr == ledger[d.hash]
      own == accounts[d.sender]
  IN  /\ tr.chain = own.chain
      /\ own.addr \in Concerned(d.hash)
      /\ accounts[d.receiver].addr = Recipient(d.hash)
      /\ d.direction = "SEND" =>
           IF tr.chain = "SOL" THEN own.addr # tr.to ELSE own.addr = tr.from
      /\ d.direction = "RECEIVE" => own.addr = tr.to \/ <<tr.chain, tr.kind>> = <<"TRX", "coin">>

Documents == [hash : 1..Height, sender : Ids, receiver : Ids, direction : {"SEND", "RECEIVE"}]

LEMMA DocumentTrue ==
  ASSUME StoreOK, NEW t, TaskGood(t), t.at = "insert"
  PROVE  Document(t) \in Documents /\ DocTrue(Document(t))
<1> DEFINE p == Head(t.left)
           tr == ledger[p]
           own == accounts[t.id]
<1>0. t.left # <<>> /\ t \in Task
  BY DEF TaskGood
<1>1. p \in 1..Height /\ Touches(p, t.id) /\ tr \in Transfer /\ tr \in Transfers
  BY <1>0, HeadTouches
<1>2. ChainFor(t) \in Chains /\ tr.kind \in Kinds /\ tr.chain = ChainFor(t) /\ own.chain = ChainFor(t)
  BY <1>0, <1>1, PollerAssumption
     DEF Task, ChainFor, PollerAssumption, Transfer, Touches, TaskGood
<1>3. /\ own.addr \in Concerned(p)
      /\ ChainFor(t) # "SOL" => own.addr \in {tr.from, tr.to}
      /\ ChainFor(t) = "BTC" => own.addr = tr.to
  BY <1>1, <1>2 DEF Touches, Addr, Concerned
<1> HIDE DEF p
<1>4. Direction(t) \in {"SEND", "RECEIVE"} /\
      (Direction(t) = "RECEIVE" => own.addr = tr.to \/ (tr.chain = "TRX" /\ tr.kind = "coin")) /\
      (Direction(t) = "SEND" =>
         IF tr.chain = "SOL" THEN own.addr # tr.to ELSE own.addr = tr.from)
  <2>1. CASE ChainFor(t) = "BTC"
    BY <1>3, <2>1 DEF Direction, p
  <2>2. CASE ChainFor(t) = "SOL"
    <3>1. Direction(t) = IF tr.to = own.addr THEN "RECEIVE" ELSE "SEND"
      BY <2>2 DEF Direction, p, Addr
    <3>2. tr.chain = "SOL"
      BY <1>2, <2>2
    <3> QED
      BY <3>1, <3>2
  <2>3. CASE ChainFor(t) = "TRX" /\ tr.kind = "coin"
    <3>1. Direction(t) = IF Hex(tr.from) = own.addr THEN "SEND" ELSE "RECEIVE"
      BY <2>3 DEF Direction, p, Addr
    <3>2. own.addr \in Addresses /\ tr.from \in Addresses
      <4>1. tr.to # NoAddress /\ tr \in Transfer
        <5>1. tr \in Transfers /\ tr.chain # "SOL"
          BY <1>1, <1>2, <2>3
        <5>2. \A x \in Transfers : x \in Transfer /\ (x.to = NoAddress => x.chain = "SOL")
          BY PollerAssumption DEF PollerAssumption
        <5> QED
          BY <5>1, <5>2
      <4> QED
        BY <1>2, <1>3, <2>3, <4>1 DEF Transfer
    <3>3. own.addr # Hex(tr.from)
      BY <3>2, PollerAssumption DEF PollerAssumption
    <3> QED
      BY <1>2, <2>3, <3>1, <3>3
  <2>4. CASE ChainFor(t) = "TRX" /\ tr.kind = "token"
    <3>1. Direction(t) = IF tr.from = own.addr THEN "SEND" ELSE "RECEIVE"
      BY <2>4 DEF Direction, p, Addr
    <3> QED
      BY <1>2, <1>3, <2>4, <3>1
  <2> QED
    BY <1>2, <2>1, <2>2, <2>3, <2>4 DEF Chains, Kinds
<1> DEFINE d == Document(t)
<1>5. /\ d.hash = p /\ d.sender = t.id /\ d.receiver = t.receiver /\ d.direction = Direction(t)
      /\ d = [hash |-> p, sender |-> t.id, receiver |-> t.receiver, direction |-> Direction(t)]
  BY DEF Document, p
<1>6. t.id \in Ids /\ t.receiver \in Ids /\ accounts[t.receiver].addr = Recipient(p)
  BY DEF TaskGood, p
<1>7. d \in Documents
  BY <1>1, <1>4, <1>5, <1>6 DEF Documents, p
<1> HIDE DEF d
<1>8. DocTrue(d)
  BY <1>2, <1>3, <1>4, <1>5, <1>6 DEF DocTrue
<1> QED
  BY <1>7, <1>8 DEF d

LEMMA InsertTransactionGood ==
  ASSUME StoreOK, NEW t, TaskGood(t), InsertTransaction(t)
  PROVE  /\ Die \/ Result(t) \/ GoesOn(t)
         /\ UNCHANGED <<ledger, accounts>>
         /\ UNCHANGED history \/ \E d \in Documents : DocTrue(d) /\ history' = history \cup {d}
<1>0. t.at = "insert" /\ t.left # <<>>
  BY DEF InsertTransaction, At, TaskGood
<1>1. Die \/ NextTransaction(t)
  BY DEF InsertTransaction
<1>2. Die \/ Result(t) \/ GoesOn(t)
  BY <1>0, <1>1, NextTransactionGood
<1>3. UNCHANGED history \/ history' = history \cup {Document(t)}
  BY DEF InsertTransaction, Die
<1>4. UNCHANGED <<ledger, accounts>>
  BY DEF InsertTransaction, world
<1> QED
  BY <1>0, <1>2, <1>3, <1>4, DocumentTrue
-----------------------------------------------------------------------------
\* What a step of a task does to what is stored, and that it keeps the task good.
BalancesStep(t) ==
  \A id \in Ids :
    \/ accounts'[id].balance = accounts[id].balance
    \/ t.at = "save" /\ id = t.id /\ accounts'[id].balance = t.height
HistoryStep ==
  UNCHANGED history \/ \E d \in Documents : DocTrue(d) /\ history' = history \cup {d}
AccountsStep(t) ==
  Len(accounts') = Len(accounts) \/ (t.left # <<>> /\ accounts' = Append(accounts, NewAccount(t)))
TaskStep(t) ==
  \/ Die \/ Result(t)
  \/ \E next : Continue(t, next) /\ TaskGood(next)' /\ FreshTask(next)'

ProcessOK(t) ==
  /\ StoreStep /\ BalancesStep(t) /\ HistoryStep /\ AccountsStep(t)
  /\ UNCHANGED <<active, waiting, changes, started>>
  /\ TaskStep(t)

LEMMA SteadyStep ==
  ASSUME StoreOK, NEW t, Steady(t), UNCHANGED <<ledger, accounts, history>>,
         UNCHANGED <<active, waiting, changes, started>>
  PROVE  ProcessOK(t)
<1>1. StoreStep /\ BalancesStep(t) /\ HistoryStep /\ AccountsStep(t)
  BY DEF StoreStep, BalancesStep, HistoryStep, AccountsStep
<1>2. Kept
  BY <1>1, StoreStays
<1>3. ASSUME NEW next, TaskGood(next), FreshTask(next) PROVE TaskGood(next)' /\ FreshTask(next)'
  <2>1. TaskGood(next)'
    BY <1>2, <1>3, TaskStaysGood
  <2>2. FreshTask(next)'
    BY <1>3 DEF FreshTask, ChainFor, Alone
  <2> QED
    BY <2>1, <2>2
<1>4. TaskStep(t)
  BY <1>3 DEF Steady, GoesOnFresh, TaskStep
<1> QED
  BY <1>1, <1>4 DEF ProcessOK

LEMMA GoesOnStep ==
  ASSUME StoreOK, Kept, UNCHANGED started, NEW t, Die \/ Result(t) \/ GoesOn(t)
  PROVE  TaskStep(t)
<1>1. ASSUME NEW next, TaskGood(next), next.at # "save" PROVE TaskGood(next)' /\ FreshTask(next)'
  <2>1. TaskGood(next)'
    BY <1>1, TaskStaysGood
  <2>2. FreshTask(next)'
    BY <1>1 DEF FreshTask
  <2> QED
    BY <2>1, <2>2
<1> QED
  BY <1>1 DEF GoesOn, TaskStep

LEMMA ProcessGood ==
  ASSUME StoreOK, \A id \in Ids : accounts[id].balance <= Height,
         NEW t, TaskGood(t), ProcessAccount(t) \/ Hang(t)
  PROVE  ProcessOK(t)
<1>0. UNCHANGED <<active, waiting, changes, started>>
  BY DEF ProcessAccount, FindOrders, AskBalance, AskSolBalance, SaveBalance, ListTransactions, Lookup,
         CountAccounts, FindAccount, CreateAccount, InsertTransaction, Hang, Die, world
<1>1. CASE FindOrders(t)
  BY <1>0, <1>1, FindOrdersGood, SteadyStep
<1>2. CASE AskBalance(t) \/ AskSolBalance(t)
  BY <1>0, <1>2, AskBalanceGood, SteadyStep
<1>3. CASE ListTransactions(t)
  BY <1>0, <1>3, ListTransactionsGood, SteadyStep
<1>4. CASE Lookup(t) \/ CountAccounts(t)
  BY <1>0, <1>4, LookupGood, SteadyStep
<1>5. CASE FindAccount(t)
  BY <1>0, <1>5, FindAccountGood, SteadyStep
<1>6. CASE Hang(t)
  BY <1>0, <1>6, HangGood, SteadyStep
<1>7. CASE SaveBalance(t)
  <2>1. /\ Result(t) \/ GoesOn(t)
        /\ UNCHANGED <<ledger, history>>
        /\ \/ UNCHANGED accounts
           \/ /\ AccountEdited
              /\ \A id \in Ids : accounts'[id].balance =
                                   IF id = t.id THEN t.height ELSE accounts[id].balance
    BY <1>7, SaveBalanceGood
  <2>2. StoreStep
    BY <2>1 DEF StoreStep
  <2>3. t.at = "save"
    BY <1>7 DEF SaveBalance, At
  <2>4. BalancesStep(t) /\ HistoryStep
    BY <2>1, <2>3 DEF BalancesStep, HistoryStep
  <2>5. AccountsStep(t)
    <3>1. Len(accounts') = Len(accounts)
      BY <2>1, ExceptSeq DEF AccountEdited, StoreOK, Ids
    <3> QED
      BY <3>1 DEF AccountsStep
  <2>6. TaskStep(t)
    BY <1>0, <2>1, <2>2, StoreStays, GoesOnStep
  <2> QED
    BY <1>0, <2>2, <2>4, <2>5, <2>6 DEF ProcessOK
<1>8. CASE CreateAccount(t)
  <2>1. CASE (Result(t) \/ GoesOn(t)) /\ UNCHANGED <<ledger, history, accounts>>
    <3>1. Steady(t)
      BY <2>1, GoesOnIsSteady
    <3> QED
      BY <1>0, <2>1, <3>1, SteadyStep
  <2>2. CASE /\ UNCHANGED <<ledger, history>>
             /\ AccountMade /\ accounts' = Append(accounts, NewAccount(t))
             /\ \E next : /\ Continue(t, next) /\ next.at = "insert"
                          /\ StoreOK' /\ Kept /\ UNCHANGED started => TaskGood(next)'
    <3>1. StoreStep
      BY <2>2 DEF StoreStep
    <3>2. StoreOK' /\ Kept
      BY <3>1, StoreStays
    <3>3. TaskStep(t)
      BY <1>0, <2>2, <3>2 DEF TaskStep, FreshTask
    <3>4. BalancesStep(t) /\ HistoryStep
      <4>1. \A id \in Ids : accounts'[id] = accounts[id]
        BY <2>2, AppendProperties DEF AccountMade, StoreOK, Ids
      <4> QED
        BY <2>2, <4>1 DEF BalancesStep, HistoryStep
    <3>5. AccountsStep(t)
      BY <1>8, <2>2 DEF AccountsStep, TaskGood, CreateAccount, At
    <3> QED
      BY <1>0, <3>1, <3>3, <3>4, <3>5 DEF ProcessOK
  <2> QED
    BY <1>8, <2>1, <2>2, CreateAccountGood
<1>9. CASE InsertTransaction(t)
  <2>1. /\ Die \/ Result(t) \/ GoesOn(t)
        /\ UNCHANGED <<ledger, accounts>> /\ HistoryStep
    BY <1>9, InsertTransactionGood DEF HistoryStep
  <2>2. StoreStep /\ BalancesStep(t) /\ AccountsStep(t)
    BY <2>1 DEF StoreStep, HistoryStep, Stored, Documents, BalancesStep, AccountsStep
  <2>3. TaskStep(t)
    BY <1>0, <2>1, <2>2, StoreStays, GoesOnStep
  <2> QED
    BY <1>0, <2>1, <2>2, <2>3 DEF ProcessOK
<1> QED
  BY <1>1, <1>2, <1>3, <1>4, <1>5, <1>6, <1>7, <1>8, <1>9 DEF ProcessAccount
-----------------------------------------------------------------------------
\* PollerInv, in the parts that the proof of a step takes one by one.
OnChain(c) == {id \in Ids : accounts[id].chain = c}
SettingOK ==
  /\ active \subseteq Users /\ waiting \subseteq Watched
  /\ jobs \in [Chains -> 0..MaxJobs] /\ up \in BOOLEAN
  /\ faults \in 0..MaxFaults /\ changes \in 0..MaxChanges /\ started \in Settings
RunOK ==
  /\ trxAccounts \subseteq OnChain("TRX")
  /\ todo = [k \in Consumers |-> todo[k]]
  /\ \A k \in Consumers :
       todo[k] \subseteq OnChain(ChainOf[k]) /\ (todo[k] # {} => k \in started)
TasksGood == \A t \in tasks : TaskGood(t) /\ FreshTask(t)
BalancesOK == \A id \in Ids : accounts[id].balance <= Height
HistoryOK == \A d \in history : DocTrue(d)

Parts ==
  /\ PoolInv /\ StoreOK /\ SettingOK /\ RunOK /\ TasksGood
  /\ BalancesOK /\ HistoryOK /\ MadeAccountsAreRecipients

LEMMA PartsAreAll == Parts <=> PollerInv
<1>1. ASSUME Parts PROVE PollerInv
  <2>1. todo \in [Consumers -> SUBSET Ids] /\ trxAccounts \subseteq Ids
    BY <1>1 DEF Parts, RunOK, OnChain
  <2>2. awaited \in [Consumers -> Nat]
    BY <1>1 DEF Parts, PoolInv, RunsShape
  <2>3. tasks \subseteq Task
    BY <1>1 DEF Parts, TasksGood, TaskGood
  <2>4. \A t \in tasks :
          /\ t.id \in Ids /\ t.receiver \in 0..Len(accounts)
          /\ t.left \in Seq(1..Height)
          /\ t.at \in {"lookup", "count", "find", "create", "insert"} => t.left # <<>>
          /\ t.at = "insert" => t.receiver \in Ids
    BY <1>1 DEF Parts, TasksGood, TaskGood
  <2>5. TypeOK
    BY <1>1, <2>1, <2>2, <2>3, <2>4 DEF Parts, StoreOK, SettingOK, TypeOK
  <2>6. WorkInv
    BY <1>1 DEF Parts, RunOK, OnChain, TasksGood, TaskGood, WorkInv, OfChain
  <2>7. BalanceInv
    BY <1>1 DEF Parts, BalancesOK, TasksGood, TaskGood, FreshTask, BalanceInv
  <2>8. HistoryFollowsLedger
    BY <1>1 DEF Parts, HistoryOK, DocTrue, HistoryFollowsLedger
  <2> QED
    BY <1>1, <2>5, <2>6, <2>7, <2>8 DEF Parts, PollerInv
<1>2. ASSUME PollerInv PROVE Parts
  <2>1. PoolInv /\ TypeOK /\ WorkInv /\ BalanceInv /\ HistoryFollowsLedger /\ MadeAccountsAreRecipients
    BY <1>2 DEF PollerInv
  <2>2. StoreOK /\ SettingOK
    BY <2>1 DEF TypeOK, StoreOK, SettingOK
  <2>3. RunOK
    BY <2>1 DEF TypeOK, WorkInv, OfChain, RunOK, OnChain
  <2>4. TasksGood
    BY <2>1 DEF TypeOK, WorkInv, BalanceInv, TasksGood, TaskGood, FreshTask
  <2>5. BalancesOK /\ HistoryOK
    BY <2>1 DEF BalanceInv, BalancesOK, HistoryFollowsLedger, HistoryOK, DocTrue
  <2> QED
    BY <2>1, <2>2, <2>3, <2>4, <2>5 DEF Parts
<1> QED
  BY <1>1, <1>2

LEMMA PartsInit == ASSUME Init PROVE Parts
<1>1. PoolInv
  BY PollerAssumption, PoolInit
<1>2. accounts = Imported /\ ledger = <<>> /\ history = {} /\ tasks = {}
  BY DEF Init
<1>3. StoreOK
  BY <1>2, PollerAssumption, Bounds DEF StoreOK, PollerAssumption, Height
<1>4. SettingOK
  <2>1. 0 \in 0..MaxJobs /\ 0 \in 0..MaxFaults /\ 0 \in 0..MaxChanges
    BY PollerAssumption DEF PollerAssumption
  <2> QED
    BY <2>1 DEF Init, SettingOK
<1>5. RunOK
  BY DEF Init, RunOK
<1>6. TasksGood /\ HistoryOK
  BY <1>2 DEF TasksGood, HistoryOK
<1>7. BalancesOK
  <2>1. Height = 0
    BY <1>2 DEF Height
  <2>2. \A id \in Ids : accounts[id].balance = 0
    BY <1>2, LenProperties, PollerAssumption DEF PollerAssumption, Ids
  <2> QED
    BY <2>1, <2>2 DEF BalancesOK
<1>8. MadeAccountsAreRecipients
  <2>1. Len(Imported) \in Nat
    BY LenProperties, PollerAssumption DEF PollerAssumption
  <2> QED
    BY <1>2, <2>1 DEF MadeAccountsAreRecipients
<1> QED
  BY <1>1, <1>3, <1>4, <1>5, <1>6, <1>7, <1>8 DEF Parts
-----------------------------------------------------------------------------
\* What is true of the history and of made accounts stays so while what is
\* stored is kept.
LEMMA HistoryStays ==
  ASSUME StoreOK, Kept, HistoryOK, HistoryStep
  PROVE  HistoryOK'
<1>1. ASSUME NEW d \in Documents, DocTrue(d) PROVE DocTrue(d)'
  <2>1. /\ ledger'[d.hash] = ledger[d.hash]
        /\ SameOwner(accounts'[d.sender], accounts[d.sender])
        /\ SameOwner(accounts'[d.receiver], accounts[d.receiver])
    BY DEF Documents, Kept
  <2>2. Recipient(d.hash)' = Recipient(d.hash) /\ Concerned(d.hash)' = Concerned(d.hash)
    BY <2>1 DEF Recipient, Concerned
  <2> QED
    BY <1>1, <2>1, <2>2 DEF DocTrue, SameOwner
<1>2. history \subseteq Documents
  BY DEF StoreOK, Documents
<1> QED
  BY <1>1, <1>2 DEF HistoryOK, HistoryStep

LEMMA MadeStay ==
  ASSUME StoreOK, Kept, MadeAccountsAreRecipients,
         \/ Len(accounts') = Len(accounts)
         \/ \E t : /\ TaskGood(t) /\ t.left # <<>>
                   /\ accounts' = Append(accounts, NewAccount(t))
  PROVE  MadeAccountsAreRecipients'
<1>0. Len(Imported) \in Nat
  BY LenProperties, PollerAssumption DEF PollerAssumption
<1> DEFINE Made(id) ==
      \E p \in 1..Height, own \in 1..id - 1 :
        /\ accounts[id].addr = Recipient(p)
        /\ accounts[id].chain = ledger[p].chain
        /\ accounts[own].chain = accounts[id].chain
        /\ accounts[own].user = accounts[id].user
        /\ accounts[own].addr \in Concerned(p)
<1>1. ASSUME NEW id \in Ids, Made(id) PROVE Made(id)'
  <2>1. PICK p \in 1..Height, own \in 1..id - 1 :
          /\ accounts[id].addr = Recipient(p)
          /\ accounts[id].chain = ledger[p].chain
          /\ accounts[own].chain = accounts[id].chain
          /\ accounts[own].user = accounts[id].user
          /\ accounts[own].addr \in Concerned(p)
    BY <1>1
  <2>2. own \in Ids
    BY DEF Ids, Kept
  <2>3. /\ SameOwner(accounts'[id], accounts[id]) /\ SameOwner(accounts'[own], accounts[own])
        /\ ledger'[p] = ledger[p] /\ p \in (1..Height)'
    BY <2>2 DEF Kept
  <2>4. Recipient(p)' = Recipient(p) /\ Concerned(p)' = Concerned(p)
    BY <2>3 DEF Recipient, Concerned
  <2> QED
    BY <2>1, <2>3, <2>4 DEF SameOwner
<1>2. ASSUME NEW t, TaskGood(t), t.left # <<>>, accounts' = Append(accounts, NewAccount(t)),
             NEW n, n = Len(accounts) + 1
      PROVE  Len(accounts') = n /\ Made(n)'
  <2> DEFINE p == Head(t.left)
  <2>1. p \in 1..Height /\ Touches(p, t.id)
    BY <1>2, HeadTouches
  <2>2. Len(accounts') = n /\ accounts'[n] = NewAccount(t)
    <3>1. accounts \in Seq(Account \cup {NewAccount(t)})
      BY SeqMonotonic DEF StoreOK
    <3> QED
      BY <1>2, <3>1, AppendProperties
  <2>3. t.id \in Ids /\ t.id \in 1..n - 1
    BY <1>2 DEF TaskGood, Ids, Kept
  <2>4. /\ SameOwner(accounts'[t.id], accounts[t.id]) /\ ledger'[p] = ledger[p]
        /\ p \in (1..Height)'
    BY <2>1, <2>3 DEF Kept
  <2>5. /\ accounts'[n].addr = Recipient(p) /\ accounts'[n].chain = ChainFor(t)
        /\ accounts'[n].user = accounts[t.id].user
    BY <2>2 DEF NewAccount
  <2>6. ledger[p].chain = ChainFor(t) /\ accounts[t.id].chain = ChainFor(t)
        /\ accounts[t.id].addr \in Concerned(p)
    BY <1>2, <2>1 DEF Touches, TaskGood, Addr
  <2>7. Recipient(p)' = Recipient(p) /\ Concerned(p)' = Concerned(p)
    BY <2>4 DEF Recipient, Concerned
  <2> HIDE DEF p
  <2>8. /\ accounts'[n].addr = Recipient(p)'
        /\ accounts'[n].chain = ledger'[p].chain
        /\ accounts'[t.id].chain = accounts'[n].chain
        /\ accounts'[t.id].user = accounts'[n].user
        /\ accounts'[t.id].addr \in Concerned(p)'
    BY <2>4, <2>5, <2>6, <2>7 DEF SameOwner
  <2> QED
    BY <2>2, <2>3, <2>4, <2>8
<1>3. \A id \in Len(Imported) + 1..Len(accounts) : id \in Ids /\ Made(id)
  BY <1>0 DEF MadeAccountsAreRecipients, Ids, Kept
<1> HIDE DEF Made
<1>4. CASE Len(accounts') = Len(accounts)
  <2>1. \A id \in Len(Imported) + 1..Len(accounts') : Made(id)'
    BY <1>1, <1>3, <1>4
  <2> QED
    BY <2>1 DEF MadeAccountsAreRecipients, Made
<1>5. CASE \E t : /\ TaskGood(t) /\ t.left # <<>>
                  /\ accounts' = Append(accounts, NewAccount(t))
  <2>1. PICK n : n = Len(accounts) + 1
    OBVIOUS
  <2>2. Len(accounts') = n /\ Made(n)'
    BY <1>2, <1>5, <2>1
  <2>3. \A id \in Len(Imported) + 1..Len(accounts') : id = n \/ id \in Len(Imported) + 1..Len(accounts)
    BY <1>0, <2>1, <2>2 DEF Kept
  <2>4. \A id \in Len(Imported) + 1..Len(accounts') : Made(id)'
    BY <1>1, <1>3, <2>2, <2>3
  <2> QED
    BY <2>4 DEF MadeAccountsAreRecipients, Made
<1> QED
  BY <1>4, <1>5
-----------------------------------------------------------------------------
\* The steps that are no task's: they store no transaction and no balance, and
\* the tasks there are stay as they are or are gone.
Quiet ==
  /\ StoreStep
  /\ UNCHANGED <<history, started>> /\ Len(accounts') = Len(accounts)
  /\ \A id \in Ids : accounts'[id].balance = accounts[id].balance

LEMMA UntouchedIsQuiet ==
  ASSUME UNCHANGED <<ledger, accounts, history, started>>
  PROVE  Quiet
BY DEF Quiet, StoreStep

LEMMA MineIsQuiet ==
  ASSUME NEW tr \in Transfers, Mine(tr)
  PROVE  Quiet
BY DEF Mine, Quiet, StoreStep, Mined

LEMMA EditIsQuiet ==
  ASSUME StoreOK, NEW id \in Ids, NEW v \in Account, SameOwner(v, accounts[id]),
         v.balance = accounts[id].balance, accounts' = [accounts EXCEPT ![id] = v],
         UNCHANGED <<ledger, history, started>>
  PROVE  Quiet
<1>1. StoreStep
  BY DEF StoreStep, AccountEdited
<1>2. /\ Len(accounts') = Len(accounts)
      /\ \A j \in Ids : accounts'[j] = IF j = id THEN v ELSE accounts[j]
  BY ExceptSeq DEF StoreOK, Ids
<1> QED
  BY <1>1, <1>2 DEF Quiet

LEMMA DeleteIsQuiet ==
  ASSUME StoreOK, NEW id \in Ids, DeleteAccount(id) \/ WithdrawCurrency(id)
  PROVE  Quiet
<1>0. accounts[id] \in Account /\ UNCHANGED <<ledger, history, started>>
  BY ElementOfSeq DEF StoreOK, Ids, DeleteAccount, WithdrawCurrency
<1>1. CASE DeleteAccount(id)
  <2> DEFINE v == [accounts[id] EXCEPT !.deleted = TRUE]
  <2>1. v \in Account /\ SameOwner(v, accounts[id]) /\ v.balance = accounts[id].balance
    BY <1>0 DEF Account, SameOwner
  <2>2. accounts' = [accounts EXCEPT ![id] = v]
    BY <1>1 DEF DeleteAccount
  <2> QED
    BY <1>0, <2>1, <2>2, EditIsQuiet
<1>2. CASE WithdrawCurrency(id)
  <2> DEFINE v == [accounts[id] EXCEPT !.currency = "none"]
  <2>1. v \in Account /\ SameOwner(v, accounts[id]) /\ v.balance = accounts[id].balance
    BY <1>0 DEF Account, SameOwner
  <2>2. accounts' = [accounts EXCEPT ![id] = v]
    BY <1>2 DEF WithdrawCurrency
  <2> QED
    BY <1>0, <2>1, <2>2, EditIsQuiet
<1> QED
  BY <1>1, <1>2

LEMMA BalanceIsNumber ==
  ASSUME StoreOK, NEW id \in Ids
  PROVE  accounts[id].balance \in Nat
<1>1. accounts[id] \in Account
  BY ElementOfSeq DEF StoreOK, Ids
<1>2. accounts[id].balance \in 0..MaxLedger
  BY <1>1 DEF Account
<1> QED
  BY <1>2, Bounds

\* They keep what is stored in order, and every task good.
LEMMA QuietStep ==
  ASSUME Parts, Quiet
  PROVE  /\ StoreOK' /\ Kept /\ BalancesOK' /\ HistoryOK' /\ MadeAccountsAreRecipients'
         /\ \A t \in tasks : TaskGood(t)' /\ FreshTask(t)'
<1>0. StoreOK /\ TasksGood /\ BalancesOK /\ HistoryOK /\ MadeAccountsAreRecipients
  BY DEF Parts
<1>1. StoreOK' /\ Kept
  BY <1>0, StoreStays DEF Quiet
<1>2. BalancesOK'
  <2>1. Ids' = Ids
    BY DEF Quiet, Ids
  <2>2. ASSUME NEW id \in Ids PROVE accounts'[id].balance <= Height'
    <3>1. accounts[id].balance \in Nat
      BY <1>0, BalanceIsNumber
    <3> QED
      BY <1>0, <1>1, <3>1 DEF Quiet, BalancesOK, Kept
  <2> QED
    BY <2>1, <2>2 DEF BalancesOK
<1>3. HistoryOK'
  BY <1>0, <1>1, HistoryStays DEF Quiet, HistoryStep
<1>4. MadeAccountsAreRecipients'
  BY <1>0, <1>1, MadeStay DEF Quiet
<1>5. ASSUME NEW t \in tasks PROVE TaskGood(t)' /\ FreshTask(t)'
  <2>1. TaskGood(t) /\ FreshTask(t)
    BY <1>0 DEF TasksGood
  <2>2. TaskGood(t)'
    BY <1>0, <1>1, <2>1, TaskStaysGood DEF Quiet
  <2>3. FreshTask(t)'
    BY <2>1 DEF FreshTask, Quiet, TaskGood, ChainFor, Alone
  <2> QED
    BY <2>2, <2>3
<1> QED
  BY <1>1, <1>2, <1>3, <1>4, <1>5
-----------------------------------------------------------------------------
\* The steps of the tasks.  What a task has stored as a balance is no news to
\* another one with the same account: there is none where it is alone.
LEMMA OthersStayFresh ==
  ASSUME Parts, NEW t \in tasks, ProcessOK(t), Kept, NEW u \in tasks, u # t
  PROVE  FreshTask(u)'
<1>0. /\ TaskGood(t) /\ TaskGood(u) /\ FreshTask(u) /\ ResultsAddUp
      /\ t.by \in Consumers /\ u.by \in Consumers
  BY DEF Parts, TasksGood, PoolInv, TasksShape
<1>1. u.id \in Ids /\ t.id \in Ids
  BY <1>0 DEF TaskGood
<1>2. UNCHANGED started
  BY DEF ProcessOK
<1>3. CASE accounts'[u.id].balance = accounts[u.id].balance
  BY <1>0, <1>2, <1>3 DEF FreshTask, ChainFor, Alone
<1>4. CASE u.id = t.id
  <2> SUFFICES ASSUME Alone(u) PROVE FALSE
    BY <1>2 DEF FreshTask, ChainFor, Alone
  <2>1. ChainFor(u) = ChainFor(t) /\ t.by \in started
    BY <1>0, <1>4 DEF TaskGood
  <2>2. t.by = u.by
    BY <2>1 DEF Alone, ChainFor
  <2>3. t \in TasksOf(t.by) /\ u \in TasksOf(t.by)
    BY <2>2 DEF TasksOf
  <2>4. t = u
    BY <1>0, <1>4, <2>3 DEF ResultsAddUp
  <2> QED
    BY <2>4
<1> QED
  BY <1>1, <1>3, <1>4 DEF ProcessOK, BalancesStep

LEMMA ProcessStep ==
  ASSUME Parts, NEW t \in tasks, ProcessOK(t)
  PROVE  /\ StoreOK' /\ Kept /\ BalancesOK' /\ HistoryOK' /\ MadeAccountsAreRecipients'
         /\ TasksGood'
<1>0. /\ StoreOK /\ TasksGood /\ BalancesOK /\ HistoryOK /\ MadeAccountsAreRecipients
      /\ TaskGood(t)
  BY DEF Parts, TasksGood
<1>1. StoreOK' /\ Kept
  BY <1>0, StoreStays DEF ProcessOK
<1>2. HistoryOK'
  BY <1>0, <1>1, HistoryStays DEF ProcessOK
<1>3. MadeAccountsAreRecipients'
  BY <1>0, <1>1, MadeStay DEF ProcessOK, AccountsStep
<1>4. BalancesOK'
  <2>1. ASSUME NEW id \in Ids PROVE accounts'[id].balance <= Height'
    <3>1. accounts[id].balance \in Nat /\ t.height \in Nat
      BY <1>0, BalanceIsNumber, Bounds DEF TaskGood, Task
    <3>2. accounts[id].balance <= Height /\ t.height <= Height
      BY <1>0 DEF BalancesOK, TaskGood
    <3> QED
      BY <1>1, <3>1, <3>2 DEF ProcessOK, BalancesStep, Kept
  <2>2. ASSUME NEW id \in Ids', id \notin Ids PROVE accounts'[id].balance <= Height'
    <3>1. accounts' = Append(accounts, NewAccount(t))
      BY <2>2 DEF ProcessOK, AccountsStep, Ids
    <3>2. accounts \in Seq(Account \cup {NewAccount(t)})
      BY <1>0, SeqMonotonic DEF StoreOK
    <3>3. Len(accounts') = Len(accounts) + 1 /\ accounts'[Len(accounts) + 1] = NewAccount(t)
      BY <3>1, <3>2, AppendProperties
    <3>4. id = Len(accounts) + 1
      BY <1>1, <2>2, <3>3 DEF Ids, Kept
    <3>5. accounts'[id].balance = 0
      BY <3>3, <3>4 DEF NewAccount
    <3> QED
      BY <1>1, <3>5 DEF Kept
  <2> QED
    BY <2>1, <2>2 DEF BalancesOK
<1>5. ASSUME NEW u \in tasks, u # t PROVE TaskGood(u)' /\ FreshTask(u)'
  <2>1. TaskGood(u)'
    BY <1>0, <1>1, TaskStaysGood DEF TasksGood, ProcessOK
  <2>2. FreshTask(u)'
    BY <1>1, <1>5, OthersStayFresh
  <2> QED
    BY <2>1, <2>2
<1>6. TasksGood'
  <2>1. CASE Die
    BY <2>1 DEF Die, TasksGood
  <2>2. CASE Result(t)
    BY <1>5, <2>2 DEF Result, TasksGood
  <2>3. ASSUME NEW next, Continue(t, next), TaskGood(next)', FreshTask(next)' PROVE TasksGood'
    BY <1>5, <2>3 DEF Continue, TasksGood
  <2> QED
    BY <2>1, <2>2, <2>3 DEF ProcessOK, TaskStep
<1> QED
  BY <1>1, <1>2, <1>3, <1>4, <1>6
-----------------------------------------------------------------------------
LEMMA NumbersAre ==
  /\ MaxJobs \in Nat /\ MaxFaults \in Nat /\ MaxChanges \in Nat /\ 1 \in Nat
BY PollerAssumption DEF PollerAssumption

\* Settings, counters and orders stay of their types.
LEMMA FaultStays ==
  ASSUME faults \in 0..MaxFaults, Fault \/ NoFault
  PROVE  faults' \in 0..MaxFaults
BY NumbersAre DEF Fault, NoFault

LEMMA ProcessSetting ==
  ASSUME SettingOK, NEW t, ProcessAccount(t) \/ Hang(t)
  PROVE  SettingOK'
<1>1. Fault \/ NoFault
  BY DEF ProcessAccount, FindOrders, AskBalance, AskSolBalance, Answered, SaveBalance, ListTransactions,
         Lookup, CountAccounts, FindAccount, CreateAccount, InsertTransaction, Hang
<1>2. faults' \in 0..MaxFaults
  BY <1>1, FaultStays DEF SettingOK
<1>3. UNCHANGED <<active, waiting, changes, started, jobs>>
  BY DEF ProcessAccount, FindOrders, AskBalance, AskSolBalance, SaveBalance, ListTransactions, Lookup,
         CountAccounts, FindAccount, CreateAccount, InsertTransaction, Hang, Die, world
<1>4. up' = up \/ up' = FALSE
  BY DEF ProcessAccount, FindOrders, AskBalance, AskSolBalance, SaveBalance, ListTransactions, Lookup,
         CountAccounts, FindAccount, CreateAccount, InsertTransaction, Hang, Die, program
<1> QED
  BY <1>2, <1>3, <1>4 DEF SettingOK

\* The job lists change by one.
LEMMA JobsStay ==
  ASSUME jobs \in [Chains -> 0..MaxJobs], NEW c \in Chains,
         \/ jobs[c] < MaxJobs /\ jobs' = [jobs EXCEPT ![c] = @ + 1]
         \/ jobs[c] > 0 /\ jobs' = [jobs EXCEPT ![c] = @ - 1]
  PROVE  jobs' \in [Chains -> 0..MaxJobs]
<1>1. jobs[c] \in 0..MaxJobs
  OBVIOUS
<1>2. CASE jobs[c] < MaxJobs /\ jobs' = [jobs EXCEPT ![c] = @ + 1]
  <2>1. jobs[c] + 1 \in 0..MaxJobs
    BY <1>1, <1>2, NumbersAre
  <2> QED
    BY <1>2, <2>1
<1>3. CASE jobs[c] > 0 /\ jobs' = [jobs EXCEPT ![c] = @ - 1]
  <2>1. jobs[c] - 1 \in 0..MaxJobs
    BY <1>1, <1>3, NumbersAre
  <2> QED
    BY <1>3, <2>1
<1> QED
  BY <1>2, <1>3
-----------------------------------------------------------------------------
\* What the runs work on stays on the chains they work for.
LEMMA OnChainStays == ASSUME Kept, NEW c PROVE OnChain(c) \subseteq OnChain(c)'
BY DEF Kept, OnChain, SameOwner

LEMMA ActiveOnChain == ASSUME NEW c PROVE ActiveAccounts(c) \subseteq OnChain(c)
BY DEF ActiveAccounts, OnChain

LEMMA RunUntouched ==
  ASSUME RunOK, Kept, UNCHANGED <<trxAccounts, todo, started>>
  PROVE  RunOK'
<1>1. \A k \in Consumers : todo'[k] \subseteq OnChain(ChainOf[k])'
  BY OnChainStays DEF RunOK
<1>2. trxAccounts' \subseteq OnChain("TRX")'
  BY OnChainStays DEF RunOK
<1> QED
  BY <1>1, <1>2 DEF RunOK

LEMMA RunDies ==
  ASSUME Die
  PROVE  RunOK' /\ TasksGood'
BY DEF Die, RunOK, TasksGood

LEMMA TaskRun ==
  ASSUME RunOK, Kept, NEW t, ProcessAccount(t) \/ Hang(t), ProcessOK(t)
  PROVE  RunOK'
<1>1. CASE Die
  BY <1>1, RunDies
<1>2. CASE ~Die
  <2>1. UNCHANGED todo
    BY <1>2 DEF ProcessOK, TaskStep, Result, Continue, run
  <2>2. UNCHANGED trxAccounts
    BY <1>2 DEF ProcessAccount, FindOrders, AskBalance, AskSolBalance, SaveBalance, ListTransactions,
         Lookup, CountAccounts, FindAccount, CreateAccount, InsertTransaction, Hang, program
  <2> QED
    BY <2>1, <2>2, RunUntouched DEF ProcessOK
<1> QED
  BY <1>1, <1>2

LEMMA RunChanges ==
  ASSUME RunOK, UNCHANGED <<accounts, started, trxAccounts>>, NEW k \in Consumers, k \in started,
         NEW ids, ids \subseteq OnChain(ChainOf[k]), todo' = [todo EXCEPT ![k] = ids]
  PROVE  RunOK'
<1>1. todo' = [j \in Consumers |-> IF j = k THEN ids ELSE todo[j]]
  BY DEF RunOK
<1>2. \A c : OnChain(c)' = OnChain(c)
  BY DEF OnChain, Ids
<1>3. \A j \in Consumers :
        todo'[j] \subseteq OnChain(ChainOf[j])' /\ (todo'[j] # {} => j \in started')
  BY <1>1, <1>2 DEF RunOK
<1>4. todo' = [j \in Consumers |-> todo'[j]]
  BY <1>1
<1> QED
  BY <1>2, <1>3, <1>4 DEF RunOK

\* A goroutine takes an account: its task is a good one.
LEMMA FirstTaskGood ==
  ASSUME StoreOK, NEW k \in Consumers, k \in started, NEW id \in OnChain(ChainOf[k])
  PROVE  TaskGood(FirstTask(k, id)) /\ FreshTask(FirstTask(k, id))
<1> DEFINE t == FirstTask(k, id)
<1>0. /\ id \in Ids /\ accounts[id].chain = ChainOf[k] /\ id \in 1..MaxAccounts
      /\ 0 \in 0..MaxLedger /\ 0 \in 0..MaxAccounts /\ 0 <= Height /\ 0 \in 0..Len(accounts)
  BY StoreLengths, Bounds DEF OnChain, StoreOK, Ids
<1>1. FirstStep(ChainOf[k]) \in {"balance", "orders"}
  BY DEF FirstStep
<1>2. /\ t.by = k /\ t.id = id /\ t.at = FirstStep(ChainOf[k]) /\ t.height = 0
      /\ t.left = <<>> /\ t.receiver = 0
      /\ t = [by |-> k, id |-> id, at |-> FirstStep(ChainOf[k]), height |-> 0,
              batch |-> "coin", left |-> <<>>, receiver |-> 0]
  BY DEF FirstTask
<1>3. <<>> \in Seq(1..MaxLedger) /\ <<>> \in Seq(1..Height) /\ DOMAIN <<>> = {}
  OBVIOUS
<1>4. t \in Task
  <2> DEFINE none == <<>>
             step == FirstStep(ChainOf[k])
             zero == 0
  <2>1. none \in Seq(1..MaxLedger) /\ step \in TaskSteps /\ zero \in 0..MaxLedger /\ zero \in 0..MaxAccounts
    BY <1>0, <1>1, <1>3 DEF TaskSteps
  <2>2. t = [by |-> k, id |-> id, at |-> step, height |-> zero,
             batch |-> "coin", left |-> none, receiver |-> zero]
    BY <1>2
  <2> HIDE DEF none, step, zero, t
  <2> QED
    BY <1>0, <2>1, <2>2 DEF Task, Kinds
<1> HIDE DEF t
<1>5. TaskGood(t) /\ FreshTask(t)
  BY <1>0, <1>1, <1>2, <1>3, <1>4 DEF TaskGood, FreshTask, ChainFor
<1> QED
  BY <1>5 DEF t
-----------------------------------------------------------------------------
\* Every step is a step of a task, a goroutine's taking an account, or quiet.
LEMMA StepKinds ==
  ASSUME StoreOK, [Next]_vars
  PROVE  \/ \E t \in tasks : ProcessAccount(t) \/ Hang(t)
         \/ \E k \in Consumers : \E id \in todo[k] : Take(k, id)
         \/ Quiet /\ (UNCHANGED tasks \/ Die)
<1>1. CASE StartUp \/ Crash
  BY <1>1, UntouchedIsQuiet DEF StartUp, Crash, Die, world
<1>2. ASSUME NEW tr \in Transfers, Mine(tr) PROVE Quiet /\ UNCHANGED tasks
  BY <1>2, MineIsQuiet DEF Mine
<1>3. ASSUME NEW a, OrderChanges(a) \/ UserChanges(a) PROVE Quiet /\ UNCHANGED tasks
  BY <1>3, UntouchedIsQuiet DEF OrderChanges, UserChanges
<1>4. ASSUME NEW id \in Ids, DeleteAccount(id) \/ WithdrawCurrency(id)
      PROVE  Quiet /\ UNCHANGED tasks
  BY <1>4, DeleteIsQuiet DEF DeleteAccount, WithdrawCurrency
<1>5. ASSUME NEW c \in Chains, Enqueue(c) PROVE Quiet /\ UNCHANGED tasks
  BY <1>5, UntouchedIsQuiet DEF Enqueue, world
<1>6. ASSUME NEW k \in Consumers, StartRun(k) \/ StartTrxRun(k) PROVE Quiet /\ UNCHANGED tasks
  BY <1>6, UntouchedIsQuiet DEF StartRun, StartTrxRun, Pop, world
<1>7. CASE UNCHANGED vars
  BY <1>7, UntouchedIsQuiet DEF vars, world
<1> QED
  BY <1>1, <1>2, <1>3, <1>4, <1>5, <1>6, <1>7 DEF Next, Environment, Pool

LEMMA TakeIsQuiet ==
  ASSUME NEW k, NEW id, Take(k, id)
  PROVE  Quiet /\ UNCHANGED trxAccounts
BY UntouchedIsQuiet DEF Take, world, program

LEMMA SettingStep ==
  ASSUME SettingOK, [Next]_vars
  PROVE  SettingOK'
<1>1. CASE StartUp
  <2>1. Fault \/ NoFault
    BY <1>1 DEF StartUp
  <2>2. faults' \in 0..MaxFaults
    BY <2>1, FaultStays DEF SettingOK
  <2>3. jobs' \in [Chains -> 0..MaxJobs]
    <3>1. CASE UNCHANGED jobs
      BY <3>1 DEF SettingOK
    <3>2. CASE jobs' = [c \in Chains |-> IF jobs[c] < MaxJobs THEN jobs[c] + 1 ELSE jobs[c]]
      <4>1. ASSUME NEW c \in Chains
            PROVE  (IF jobs[c] < MaxJobs THEN jobs[c] + 1 ELSE jobs[c]) \in 0..MaxJobs
        BY NumbersAre DEF SettingOK
      <4> QED
        BY <3>2, <4>1
    <3> QED
      BY <1>1, <3>1, <3>2 DEF StartUp
  <2> QED
    BY <1>1, <2>2, <2>3 DEF StartUp, SettingOK, world, program
<1>2. CASE Crash
  <2>1. faults' \in 0..MaxFaults
    BY <1>2, FaultStays DEF SettingOK, Crash
  <2> QED
    BY <1>2, <2>1 DEF Crash, Die, SettingOK, world
<1>3. ASSUME NEW tr \in Transfers, Mine(tr) PROVE SettingOK'
  BY <1>3 DEF Mine, SettingOK, program
<1>4. ASSUME Change PROVE changes' \in 0..MaxChanges
  BY <1>4, NumbersAre DEF Change, SettingOK
<1>5. ASSUME NEW a \in Watched, OrderChanges(a) PROVE SettingOK'
  BY <1>4, <1>5 DEF OrderChanges, SettingOK, program
<1>6. ASSUME NEW u \in Users, UserChanges(u) PROVE SettingOK'
  BY <1>4, <1>6 DEF UserChanges, SettingOK, program
<1>7. ASSUME NEW id, DeleteAccount(id) \/ WithdrawCurrency(id) PROVE SettingOK'
  BY <1>4, <1>7 DEF DeleteAccount, WithdrawCurrency, SettingOK, program
<1>8. ASSUME NEW c \in Chains, Enqueue(c) PROVE SettingOK'
  <2>1. jobs' \in [Chains -> 0..MaxJobs]
    BY <1>8, JobsStay DEF Enqueue, SettingOK
  <2> QED
    BY <1>8, <2>1 DEF Enqueue, SettingOK, world, program
<1>9. ASSUME NEW k \in Consumers, StartRun(k) \/ StartTrxRun(k) PROVE SettingOK'
  <2>1. ChainOf[k] \in Chains
    BY PollerAssumption DEF PollerAssumption
  <2>2. jobs' \in [Chains -> 0..MaxJobs]
    BY <1>9, <2>1, JobsStay DEF StartRun, StartTrxRun, Pop, SettingOK
  <2>3. faults' \in 0..MaxFaults
    BY <1>9, FaultStays DEF StartRun, StartTrxRun, SettingOK
  <2> QED
    BY <1>9, <2>2, <2>3 DEF StartRun, StartTrxRun, Pop, SettingOK, world, program
<1>10. ASSUME NEW k, NEW id, Take(k, id) PROVE SettingOK'
  <2>1. faults' \in 0..MaxFaults
    BY <1>10, FaultStays DEF Take, SettingOK
  <2> QED
    BY <1>10, <2>1 DEF Take, SettingOK, world, program
<1>11. ASSUME NEW t \in tasks, ProcessAccount(t) \/ Hang(t) PROVE SettingOK'
  BY <1>11, ProcessSetting
<1>12. CASE UNCHANGED vars
  BY <1>12 DEF vars, SettingOK, world, program
<1> QED
  BY <1>1, <1>2, <1>3, <1>5, <1>6, <1>7, <1>8, <1>9, <1>10, <1>11, <1>12
     DEF Next, Environment, Pool

LEMMA RunStep ==
  ASSUME Parts, [Next]_vars, Kept
  PROVE  RunOK'
<1>0. RunOK /\ StoreOK /\ TasksGood /\ BalancesOK
  BY DEF Parts
<1>1. CASE StartUp
  <2>1. UNCHANGED <<accounts, todo, started>>
    BY <1>1 DEF StartUp, world, run
  <2>2. UNCHANGED trxAccounts \/ trxAccounts' = ActiveAccounts("TRX")
    BY <1>1 DEF StartUp, program
  <2>3. CASE UNCHANGED trxAccounts
    BY <1>0, <2>1, <2>3, RunUntouched
  <2>4. CASE trxAccounts' = ActiveAccounts("TRX")
    <3>1. trxAccounts' \subseteq OnChain("TRX")'
      BY <2>4, ActiveOnChain, OnChainStays
    <3>2. \A k \in Consumers : todo'[k] \subseteq OnChain(ChainOf[k])'
      BY <1>0, <2>1, OnChainStays DEF RunOK
    <3> QED
      BY <1>0, <2>1, <3>1, <3>2 DEF RunOK
  <2> QED
    BY <2>2, <2>3, <2>4
<1>2. CASE Crash
  BY <1>2, RunDies DEF Crash
<1>3. ASSUME UNCHANGED <<program, run, started>> PROVE RunOK'
  BY <1>0, <1>3, RunUntouched DEF program, run
<1>4. CASE Environment
  BY <1>3, <1>4 DEF Environment, Mine, OrderChanges, UserChanges, DeleteAccount, WithdrawCurrency
<1>5. ASSUME NEW c \in Chains, Enqueue(c) PROVE RunOK'
  BY <1>3, <1>5 DEF Enqueue, world
<1>6. ASSUME NEW k \in Consumers, StartRun(k) \/ StartTrxRun(k) PROVE RunOK'
  <2>1. k \in started /\ UNCHANGED <<program, started, accounts, trxAccounts>>
    BY <1>6 DEF StartRun, StartTrxRun, Pop, world, program
  <2>2. CASE UNCHANGED run
    BY <1>3, <2>1, <2>2
  <2>3. ASSUME NEW ids, ids \subseteq OnChain(ChainOf[k]), Run(k, ids) PROVE RunOK'
    BY <1>0, <2>1, <2>3, RunChanges DEF Run
  <2>4. CASE StartRun(k)
    BY <2>2, <2>3, <2>4, ActiveOnChain DEF StartRun
  <2>5. CASE StartTrxRun(k)
    BY <1>0, <2>2, <2>3, <2>5 DEF StartTrxRun, RunOK
  <2> QED
    BY <1>6, <2>4, <2>5
<1>7. ASSUME NEW k \in Consumers, NEW id \in todo[k], Take(k, id) PROVE RunOK'
  <2>1. UNCHANGED <<accounts, started, trxAccounts>> /\ todo' = [todo EXCEPT ![k] = todo[k] \ {id}]
    BY <1>7 DEF Take, world, program
  <2>2. k \in started /\ todo[k] \ {id} \subseteq OnChain(ChainOf[k])
    BY <1>0 DEF RunOK
  <2> QED
    BY <1>0, <2>1, <2>2, RunChanges
<1>8. ASSUME NEW t \in tasks, ProcessAccount(t) \/ Hang(t) PROVE RunOK'
  BY <1>0, <1>8, ProcessGood, TaskRun DEF TasksGood, BalancesOK
<1>9. CASE UNCHANGED vars
  BY <1>3, <1>9 DEF vars, world
<1> QED
  BY <1>1, <1>2, <1>4, <1>5, <1>6, <1>7, <1>8, <1>9 DEF Next, Pool

LEMMA PartsStep ==
  ASSUME Parts, [Next]_vars
  PROVE  Parts'
<1>0. RunOK /\ StoreOK /\ TasksGood /\ BalancesOK /\ SettingOK /\ PoolInv
  BY DEF Parts
<1>1. PoolInv' /\ SettingOK'
  BY <1>0, PollerAssumption, PoolStep, SettingStep
<1>2. ASSUME StoreOK', Kept, BalancesOK', HistoryOK', MadeAccountsAreRecipients', TasksGood'
      PROVE  Parts'
  BY <1>1, <1>2, RunStep DEF Parts
<1>3. ASSUME NEW t \in tasks, ProcessAccount(t) \/ Hang(t) PROVE Parts'
  <2>1. ProcessOK(t)
    BY <1>0, <1>3, ProcessGood DEF TasksGood, BalancesOK
  <2> QED
    BY <1>2, <2>1, ProcessStep
<1>4. ASSUME NEW k \in Consumers, NEW id \in todo[k], Take(k, id) PROVE Parts'
  <2>1. Quiet
    BY <1>4, TakeIsQuiet
  <2>2. k \in started /\ id \in OnChain(ChainOf[k])
    BY <1>0 DEF RunOK
  <2>3. PICK t : t = FirstTask(k, id)
    OBVIOUS
  <2>4. TaskGood(t) /\ FreshTask(t)
    BY <1>0, <2>2, <2>3, FirstTaskGood
  <2>5. TaskGood(t)' /\ FreshTask(t)'
    <3>1. TaskGood(t)'
      BY <1>0, <2>1, <2>4, QuietStep, TaskStaysGood DEF Quiet
    <3>2. t.at # "save"
      BY <2>3 DEF FirstTask, FirstStep
    <3> QED
      BY <3>1, <3>2 DEF FreshTask
  <2>6. tasks' \subseteq tasks \cup {t}
    BY <1>4, <2>3 DEF Take
  <2>7. TasksGood'
    BY <2>1, <2>5, <2>6, QuietStep DEF TasksGood
  <2> QED
    BY <1>2, <2>1, <2>7, QuietStep
<1>5. CASE Quiet /\ (UNCHANGED tasks \/ Die)
  <2>1. TasksGood'
    BY <1>5, QuietStep, RunDies DEF TasksGood
  <2> QED
    BY <1>2, <1>5, <2>1, QuietStep
<1> QED
  BY <1>0, <1>3, <1>4, <1>5, StepKinds

LEMMA PollerInvariance == Spec => []PollerInv
<1>1. Init => PollerInv
  BY PartsInit, PartsAreAll
<1>2. PollerInv /\ [Next]_vars => PollerInv'
  <2>1. ASSUME PollerInv, [Next]_vars PROVE Parts'
    BY <2>1, PartsAreAll, PartsStep
  <2>2. Parts' => PollerInv'
    BY PartsAreAll, PTL
  <2> QED
    BY <2>1, <2>2
<1> QED
  BY <1>1, <1>2, PTL DEF Spec

\* Every variable has its type in every reachable state, a task's step and
\* fields fit together, and every id that is kept is one of an account.
THEOREM PollerTypeCorrect == Spec => []TypeOK
<1>1. PollerInv => TypeOK
  BY DEF PollerInv
<1> QED
  BY <1>1, PollerInvariance, PTL

\* What processTransactionHistory stores about an account is a transaction of
\* its chain that concerns its address, with the recipient's account and the
\* direction the chain's poller makes of it, for any ledger and failures: paid
\* to the account if received, unless it is a coin of TRX, and sent by it if
\* sent, unless it is on SOL and was just not paid to it.
THEOREM HistoryAlwaysFollows == Spec => []HistoryFollowsLedger
<1>1. PollerInv => HistoryFollowsLedger
  BY DEF PollerInv
<1> QED
  BY <1>1, PollerInvariance, PTL

\* CreateOrFindAccount makes accounts only for the recipients of transactions
\* that concern an account of the same user and chain.
THEOREM StrangersAreRecipients == Spec => []MadeAccountsAreRecipients
<1>1. PollerInv => MadeAccountsAreRecipients
  BY DEF PollerInv
<1> QED
  BY <1>1, PollerInvariance, PTL

LEMMA BalanceStep ==
  ASSUME Parts, [Next]_vars, NEW c \in {"BTC", "TRX"},
         Cardinality({k \in started : ChainOf[k] = c}) = 1,
         NEW id \in Ids, accounts[id].chain = c
  PROVE  accounts'[id].balance >= accounts[id].balance
<1>0. StoreOK /\ TasksGood /\ BalancesOK /\ RunOK /\ accounts[id].balance \in Nat
  BY BalanceIsNumber DEF Parts
<1>1. CASE accounts'[id].balance = accounts[id].balance
  BY <1>0, <1>1
<1>2. CASE Quiet
  BY <1>1, <1>2 DEF Quiet
<1>3. ASSUME NEW k \in Consumers, NEW a \in todo[k], Take(k, a)
      PROVE  accounts'[id].balance >= accounts[id].balance
  BY <1>2, <1>3, TakeIsQuiet
<1>4. ASSUME NEW t \in tasks, ProcessAccount(t) \/ Hang(t)
      PROVE  accounts'[id].balance >= accounts[id].balance
  <2>1. ProcessOK(t) /\ TaskGood(t) /\ FreshTask(t)
    BY <1>0, <1>4, ProcessGood DEF TasksGood, BalancesOK
  <2>2. CASE t.at = "save" /\ id = t.id /\ accounts'[id].balance = t.height
    <3>1. ChainFor(t) = c /\ t.by \in started /\ ChainFor(t) # "SOL" /\ t.height \in Nat
      BY <2>1, <2>2, Bounds DEF TaskGood, Task
    <3>2. IsFiniteSet({k \in started : ChainOf[k] = c})
      <4>1. started \in SUBSET Consumers /\ IsFiniteSet(Consumers)
        BY PollerAssumption DEF Parts, SettingOK, PollerAssumption
      <4> QED
        BY <4>1, FS_Subset
    <3>3. \E x : {k \in started : ChainOf[k] = c} = {x}
      BY <3>2, FS_Singleton
    <3>4. Alone(t)
      BY <3>1, <3>3 DEF Alone, ChainFor
    <3>5. accounts[id].balance <= t.height
      BY <2>1, <2>2, <3>1, <3>4 DEF FreshTask
    <3> QED
      BY <1>0, <2>2, <3>1, <3>5
  <2> QED
    BY <1>1, <2>1, <2>2 DEF ProcessOK, BalancesStep
<1> QED
  BY <1>0, <1>2, <1>3, <1>4, StepKinds

\* Where one consumer works for BTC or for TRX, SaveBalance never replaces a
\* balance by an older one, however its goroutines are scheduled, fail or crash.
THEOREM BalancesGetNewer == Spec => BalanceNeverOlder
<1>1. PollerInv /\ [Next]_vars =>
        [\A c \in {"BTC", "TRX"} :
           Cardinality({k \in started : ChainOf[k] = c}) = 1 =>
             \A id \in Ids : accounts[id].chain = c =>
               accounts'[id].balance >= accounts[id].balance]_accounts
  BY PartsAreAll, BalanceStep
<1> QED
  BY <1>1, PollerInvariance, PTL DEF Spec, BalanceNeverOlder
=============================================================================
