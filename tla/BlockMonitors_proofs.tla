------------------------ MODULE BlockMonitors_proofs ------------------------
(***************************************************************************)
(* Proofs about BlockMonitors for any chains, workers and heights.         *)
(***************************************************************************)
EXTENDS BlockMonitors, TLAPS

LEMMA Bounds ==
  /\ 0 \in 0..MaxHeight /\ 0 \in 0..MaxHeight + 1 /\ 0 \in 0..MaxJobs /\ 1 \in Heights
  /\ Heights \subseteq 0..MaxHeight
  /\ \A h \in 0..MaxHeight : h + 1 \in 0..MaxHeight + 1
BY MonitorsAssumption DEF Heights

LEMMA MonitorsTypeInit == Init => TypeOK
<1> SUFFICES ASSUME Init PROVE TypeOK
  OBVIOUS
<1>1. chain \in [Workers -> Chains]
  BY MonitorsAssumption DEF Init
<1>2. QED
  BY <1>1, Bounds DEF Init, TypeOK, Steps

LEMMA ReturnKeepsType == ASSUME TypeOK, NEW w \in Workers, Return(w)
  PROVE  /\ at' \in [Workers -> Steps] /\ chain' \in [Workers -> Chains]
         /\ {last', top'} \subseteq [Workers -> 0..MaxHeight]
         /\ next' \in [Workers -> 0..MaxHeight + 1] /\ late' \in [Workers -> BOOLEAN]
BY Bounds DEF TypeOK, Return, Goto, Steps

\* A job that asks for a block is at one that is there.
LEMMA AskKeepsType ==
  ASSUME TypeOK, NEW w \in Workers, last[w] < next[w], next[w] <= top[w], Ask(w)
  PROVE  /\ next[w] \in Heights
         /\ tried' \in SUBSET (Chains \X Heights)
         /\ next' \in [Workers -> 0..MaxHeight + 1]
<1>1. next[w] \in Nat /\ last[w] \in Nat /\ top[w] \in 0..MaxHeight /\ chain[w] \in Chains
  BY MonitorsAssumption DEF TypeOK
<1>2. next[w] \in Heights
  BY <1>1, MonitorsAssumption DEF Heights
<1>3. next[w] + 1 \in 0..MaxHeight + 1
  BY <1>2, Bounds
<1>4. <<chain[w], next[w]>> \in Chains \X Heights
  BY <1>1, <1>2
<1>5. QED
  BY <1>2, <1>3, <1>4 DEF TypeOK, Ask

LEMMA MonitorsTypeStep ==
  ASSUME TypeOK, \A w \in Workers : JobInv(w), [Next]_vars
  PROVE  TypeOK'
<1> USE DEF world, redis, locals, scan, history
<1>1. ASSUME NEW w \in Workers, PopJob(w) PROVE TypeOK'
  <2>1. PICK c \in Chains : jobs[c] > 0 /\ jobs' = [jobs EXCEPT ![c] = @ - 1]
                              /\ chain' = [chain EXCEPT ![w] = c]
    BY <1>1 DEF PopJob
  <2>2. jobs[c] - 1 \in 0..MaxJobs
    BY <2>1, MonitorsAssumption DEF TypeOK
  <2>3. QED
    BY <1>1, <2>1, <2>2 DEF PopJob, TypeOK, Goto, Steps
<1>2. ASSUME NEW w \in Workers, ReadCursor(w) PROVE TypeOK'
  BY <1>2 DEF ReadCursor, TypeOK, Goto, Steps
<1>3. ASSUME NEW w \in Workers, ReadHead(w) PROVE TypeOK'
  <2>1. PICK h \in Answers(chain[w]) :
          IF 0 < last[w] /\ h <= last[w] THEN Return(w)
          ELSE /\ top' = [top EXCEPT ![w] = h]
               /\ next' = [next EXCEPT ![w] = last[w] + 1]
               /\ Goto(w, IF last[w] = 0 THEN "fresh" ELSE IF Of(w) = "SOL" THEN "batch" ELSE "block")
               /\ UNCHANGED <<chain, last, late>>
    BY <1>3 DEF ReadHead
  <2>2. h \in 0..MaxHeight /\ last[w] + 1 \in 0..MaxHeight + 1
    BY Bounds DEF Answers, TypeOK
  <2>3. UNCHANGED <<world, redis, jobs, starting, history>>
    BY <1>3 DEF ReadHead
  <2>4. CASE Return(w)
    BY <2>3, <2>4, ReturnKeepsType DEF TypeOK
  <2>5. CASE ~Return(w)
    BY <2>1, <2>2, <2>3, <2>5 DEF TypeOK, Goto, Steps
  <2>6. QED
    BY <2>4, <2>5
<1>4. ASSUME NEW w \in Workers, SaveFresh(w) PROVE TypeOK'
  BY <1>4, ReturnKeepsType DEF SaveFresh, TypeOK, Higher
<1>5. ASSUME NEW w \in Workers, TryBlock(w) \/ TrySlot(w) PROVE TypeOK'
  <2>1. last[w] < next[w] /\ next[w] <= top[w] /\ Ask(w)
    BY <1>5 DEF JobInv, TryBlock, TrySlot
  <2>2. at' \in [Workers -> Steps]
    BY <1>5 DEF TryBlock, TrySlot, TypeOK, Goto, Steps
  <2>3. QED
    BY <2>1, <2>2, AskKeepsType DEF TypeOK, Ask
<1>6. ASSUME NEW w \in Workers, NextBatch(w) PROVE TypeOK'
  <2>1. next[w] \in Nat /\ next[w] > 0 /\ top[w] \in 0..MaxHeight /\ chain[w] \in Chains
    BY <1>6, MonitorsAssumption DEF JobInv, NextBatch, TypeOK
  <2>2. {<<chain[w], h>> : h \in next[w]..top[w]} \subseteq Chains \X Heights
    BY <2>1, MonitorsAssumption DEF Heights
  <2>3. dropped' \in SUBSET (Chains \X Heights)
    BY <1>6, <2>2 DEF NextBatch, TypeOK
  <2>4. QED
    BY <1>6, <2>3 DEF NextBatch, TypeOK, Goto, Steps
<1>7. ASSUME NEW w \in Workers, OutOfTime(w) PROVE TypeOK'
  <2>1. next[w] - 1 \in 0..MaxHeight
    BY <1>7, MonitorsAssumption DEF JobInv, OutOfTime, TypeOK
  <2>2. top' \in [Workers -> 0..MaxHeight]
    BY <1>7, <2>1 DEF OutOfTime, TypeOK
  <2>3. QED
    BY <1>7, <2>2 DEF OutOfTime, TypeOK, Goto, Steps
<1>8. ASSUME NEW w \in Workers, SaveCursor(w) \/ Fail(w) PROVE TypeOK'
  BY <1>8, ReturnKeepsType DEF SaveCursor, Fail, TypeOK
<1>9. ASSUME NEW w \in Workers, TimePasses(w) \/ Hang(w) PROVE TypeOK'
  <2>1. late' \in [Workers -> BOOLEAN]
    BY <1>9 DEF TimePasses, Hang, TypeOK
  <2>2. at' \in [Workers -> Steps]
    BY <1>9 DEF TimePasses, Hang, TypeOK, Goto, Steps
  <2>3. UNCHANGED <<enabled, head, cursor, jobs, starting, chain, last, top, next, origin, tried, dropped>>
    BY <1>9 DEF TimePasses, Hang
  <2>4. QED
    BY <2>1, <2>2, <2>3 DEF TypeOK
<1>10. ASSUME NEW c \in Chains, StartBlockMonitor(c) \/ StoreStart(c) PROVE TypeOK'
  <2>1. CASE StartBlockMonitor(c)
    <3>1. PICK h \in 0..MaxHeight : starting' = [starting EXCEPT ![c] = h]
      BY <2>1, Bounds DEF StartBlockMonitor, Answers
    <3>2. starting' \in [Chains -> 0..MaxHeight]
      BY <3>1 DEF TypeOK
    <3>3. QED
      BY <2>1, <3>2 DEF StartBlockMonitor, TypeOK
  <2>2. CASE StoreStart(c)
    <3>1. starting' \in [Chains -> 0..MaxHeight]
      BY <2>2, Bounds DEF StoreStart, TypeOK
    <3>2. starting[c] \in 0..MaxHeight /\ Higher(origin[c], starting[c]) \in 0..MaxHeight
      BY DEF TypeOK, Higher
    <3>3. cursor' = cursor \/ cursor' = [cursor EXCEPT ![c] = starting[c]]
      BY <2>2 DEF StoreStart
    <3>4. origin' = origin \/ origin' = [origin EXCEPT ![c] = Higher(origin[c], starting[c])]
      BY <2>2 DEF StoreStart
    <3>5. cursor' \in [Chains -> 0..MaxHeight]
      BY <3>2, <3>3 DEF TypeOK
    <3>6. origin' \in [Chains -> 0..MaxHeight]
      BY <3>2, <3>4 DEF TypeOK
    <3>7. QED
      BY <2>2, <3>1, <3>5, <3>6 DEF StoreStart, TypeOK
  <2>3. QED
    BY <1>10, <2>1, <2>2
<1>11. ASSUME NEW c \in Chains, ExpireCursor(c) PROVE TypeOK'
  BY <1>11, Bounds DEF ExpireCursor, TypeOK
<1>12. ASSUME NEW c \in Chains, MineBlock(c) \/ PushJob(c) PROVE TypeOK'
  BY <1>12, MonitorsAssumption DEF MineBlock, PushJob, TypeOK, Heights
<1>13. CASE Crash
  BY <1>13, Bounds DEF Crash, TypeOK, Steps
<1>14. CASE UNCHANGED vars
  BY <1>14 DEF vars, TypeOK
<1>15. QED
  BY <1>1, <1>2, <1>3, <1>4, <1>5, <1>6, <1>7, <1>8, <1>9, <1>10, <1>11, <1>12, <1>13, <1>14
     DEF Next, Work
-----------------------------------------------------------------------------
LEMMA MonitorsInit == Init => MonitorsInv
<1> SUFFICES ASSUME Init PROVE MonitorsInv
  OBVIOUS
<1>1. TypeOK
  BY MonitorsTypeInit
<1>2. NothingSkippedUnnoticed
  BY MonitorsAssumption DEF Init, NothingSkippedUnnoticed, Passed, Heights
<1>3. \A w \in Workers : JobInv(w)
  BY DEF Init, JobInv
<1>4. QED
  BY <1>1, <1>2, <1>3 DEF MonitorsInv

\* What a step may do to the blocks asked for.
Grows ==
  /\ \A c \in Chains : origin[c] <= origin'[c]
  /\ tried \subseteq tried' /\ dropped \subseteq dropped'

LEMMA PassedStays ==
  ASSUME TypeOK, TypeOK', Grows, NEW c \in Chains, NEW k \in Int, Passed(c, k)
  PROVE  Passed(c, k)'
<1>1. origin[c] \in Int /\ origin'[c] \in Int /\ origin[c] <= origin'[c]
  BY DEF TypeOK, Grows
<1>2. SUFFICES ASSUME NEW h \in Heights, origin'[c] < h, h <= k
               PROVE  <<c, h>> \in tried' \/ (Kind[c] = "SOL" /\ <<c, h>> \in dropped')
  BY DEF Passed
<1>3. origin[c] < h
  BY <1>1, <1>2 DEF Heights
<1>4. QED
  BY <1>2, <1>3 DEF Passed, Grows

LEMMA JobStays ==
  ASSUME TypeOK, TypeOK', Grows, NEW w \in Workers, JobInv(w),
         at'[w] = at[w] \/ at'[w] \in {"idle", "hung"}, chain'[w] = chain[w],
         at[w] # "idle" /\ at'[w] = at[w] =>
           last'[w] = last[w] /\ top'[w] = top[w] /\ next'[w] = next[w]
  PROVE  JobInv(w)'
<1>1. CASE at'[w] \in {"idle", "hung"}
  BY <1>1 DEF JobInv
<1>2. CASE at'[w] = at[w] /\ at[w] # "idle"
  <2>1. PICK c \in Chains, l \in Int, t \in Int, n \in Int :
          c = chain[w] /\ l = last[w] /\ t = top[w] /\ n = next[w]
    BY DEF TypeOK
  <2>2. at[w] = "head" => Passed(c, l)'
    BY <2>1, PassedStays DEF JobInv
  <2>3. at[w] \in {"batch", "block"} => Passed(c, n - 1)'
    <3>1. n - 1 \in Int
      OBVIOUS
    <3>2. QED
      BY <2>1, <3>1, PassedStays DEF JobInv
  <2>4. at[w] = "save" => Passed(c, t)'
    BY <2>1, PassedStays DEF JobInv
  <2>5. QED
    BY <1>2, <2>1, <2>2, <2>3, <2>4 DEF JobInv, Passed, Of
<1>3. QED
  BY <1>1, <1>2

\* A step of one worker, or of none: the other jobs and the other cursors stay
\* as they are.
LEMMA MonitorsKeep ==
  ASSUME MonitorsInv, TypeOK', Grows, NEW w \in Workers, JobInv(w)',
         \A v \in Workers \ {w} :
           at'[v] = at[v] /\ chain'[v] = chain[v] /\ last'[v] = last[v]
             /\ top'[v] = top[v] /\ next'[v] = next[v],
         \A c \in Chains : cursor'[c] = cursor[c] \/ Passed(c, cursor[c])'
  PROVE  MonitorsInv'
<1>1. \A v \in Workers : JobInv(v)'
  BY JobStays DEF MonitorsInv
<1>2. NothingSkippedUnnoticed'
  <2> SUFFICES ASSUME NEW c \in Chains PROVE Passed(c, cursor[c])'
    BY DEF NothingSkippedUnnoticed
  <2>1. CASE cursor'[c] = cursor[c]
    <3>1. PICK k \in Int : k = cursor[c]
      BY DEF MonitorsInv, TypeOK
    <3>2. Passed(c, k)'
      BY <3>1, PassedStays DEF MonitorsInv, NothingSkippedUnnoticed
    <3>3. QED
      BY <2>1, <3>1, <3>2 DEF Passed
  <2>2. QED
    BY <2>1
<1>3. QED
  BY <1>1, <1>2 DEF MonitorsInv

\* What a job asks for joins what was passed.
LEMMA AskPasses ==
  ASSUME MonitorsInv, TypeOK', Grows, NEW w \in Workers, at[w] = "block", Ask(w),
         NEW c \in Chains, NEW n \in Int, c = chain[w], n = next[w]
  PROVE  Passed(c, n)'
<1>1. Passed(c, n - 1)'
  <2>1. Passed(c, n - 1) /\ n - 1 \in Int
    BY DEF MonitorsInv, JobInv
  <2>2. QED
    BY <2>1, PassedStays DEF MonitorsInv
<1>2. <<c, n>> \in tried'
  BY DEF Ask
<1>3. \A h \in Heights : h <= n => h <= n - 1 \/ h = n
  BY DEF Heights
<1>4. QED
  BY <1>1, <1>2, <1>3 DEF Passed

\* The blocks from next on are given up on.
LEMMA DropPasses ==
  ASSUME MonitorsInv, TypeOK', Grows, NEW w \in Workers, at[w] = "batch",
         dropped' = dropped \cup {<<chain[w], h>> : h \in next[w]..top[w]},
         NEW c \in Chains, NEW t \in Int, c = chain[w], t = top[w]
  PROVE  Passed(c, t)'
<1>1. PICK n \in Int : n = next[w]
  BY DEF MonitorsInv, TypeOK
<1>2. Kind[c] = "SOL" /\ Passed(c, n - 1)'
  <2>1. Kind[c] = "SOL" /\ Passed(c, n - 1) /\ n - 1 \in Int
    BY <1>1 DEF MonitorsInv, JobInv, Of
  <2>2. QED
    BY <2>1, PassedStays DEF MonitorsInv
<1>3. \A h \in Heights : h <= t => h <= n - 1 \/ h \in n..t
  BY DEF Heights
<1>4. \A h \in n..t : <<c, h>> \in dropped'
  BY <1>1
<1>5. QED
  BY <1>2, <1>3, <1>4 DEF Passed

LEMMA WorkKeeps == ASSUME MonitorsInv, TypeOK', NEW w \in Workers, Work(w) PROVE MonitorsInv'
<1> USE DEF world, redis, locals, scan, history, Goto
<1>1. TypeOK /\ JobInv(w) /\ \A c \in Chains : origin[c] \in Int /\ origin[c] <= origin[c]
  BY DEF MonitorsInv, TypeOK
<1>2. PICK c \in Chains, l \in Int, t \in Int, n \in Int :
        c = chain[w] /\ l = last[w] /\ t = top[w] /\ n = next[w]
  BY <1>1 DEF TypeOK
<1>3. ASSUME Return(w), UNCHANGED <<redis, history>> PROVE MonitorsInv'
  <2>1. Grows /\ JobInv(w)'
    BY <1>1, <1>3 DEF Grows, JobInv, Return, TypeOK
  <2>2. QED
    BY <1>1, <1>3, <2>1, MonitorsKeep DEF Return, TypeOK
<1>4. CASE ReadCursor(w)
  <2>1. Grows /\ last'[w] = cursor[c] /\ at'[w] = "head" /\ chain'[w] = c
    BY <1>1, <1>2, <1>4 DEF ReadCursor, Grows, TypeOK
  <2>2. JobInv(w)'
    <3>1. Passed(c, cursor[c])
      BY DEF MonitorsInv, NothingSkippedUnnoticed
    <3>2. QED
      BY <1>4, <2>1, <3>1 DEF ReadCursor, JobInv, Passed
  <2>3. QED
    BY <1>1, <1>4, <2>1, <2>2, MonitorsKeep DEF ReadCursor, TypeOK
<1>5. CASE ReadHead(w)
  <2>1. UNCHANGED <<redis, history>> /\ Grows
    BY <1>1, <1>5 DEF ReadHead, Grows
  <2>2. CASE Return(w)
    BY <1>3, <2>1, <2>2
  <2>3. CASE ~Return(w)
    <3>1. PICK h \in Answers(c) :
            /\ ~(0 < l /\ h <= l)
            /\ top' = [top EXCEPT ![w] = h]
            /\ next' = [next EXCEPT ![w] = l + 1]
            /\ Goto(w, IF l = 0 THEN "fresh" ELSE IF Of(w) = "SOL" THEN "batch" ELSE "block")
            /\ UNCHANGED <<chain, last, late>>
      BY <1>2, <1>5, <2>3 DEF ReadHead
    <3>2. h \in Int /\ l >= 0 /\ l + 1 - 1 = l
      BY <1>1, <1>2 DEF Answers, Heights, TypeOK
    <3>3. Passed(c, l)
      BY <1>1, <1>2, <1>5 DEF ReadHead, JobInv
    <3>4. /\ at'[w] = IF l = 0 THEN "fresh" ELSE IF Kind[c] = "SOL" THEN "batch" ELSE "block"
          /\ chain'[w] = c /\ last'[w] = l /\ top'[w] = h /\ next'[w] = l + 1
      BY <1>1, <1>2, <3>1 DEF TypeOK, Of
    <3>5. JobInv(w)'
      BY <2>1, <3>1, <3>2, <3>3, <3>4 DEF JobInv, Passed, Of
    <3>6. QED
      BY <1>1, <2>1, <3>1, <3>5, MonitorsKeep DEF TypeOK
  <2>4. QED
    BY <2>2, <2>3
<1>6. CASE SaveFresh(w)
  <2>1. /\ cursor' = [cursor EXCEPT ![c] = t]
        /\ origin' = [origin EXCEPT ![c] = Higher(origin[c], t)]
        /\ UNCHANGED history /\ Return(w)
    BY <1>2, <1>6 DEF SaveFresh
  <2>2. origin'[c] >= t /\ origin'[c] \in Int /\ Grows
    BY <1>1, <2>1 DEF Grows, Higher, TypeOK
  <2>3. Passed(c, cursor[c])'
    BY <1>1, <2>1, <2>2 DEF Passed, Heights, TypeOK
  <2>4. JobInv(w)'
    BY <1>1, <2>1 DEF JobInv, Return, TypeOK
  <2>5. \A d \in Chains : cursor'[d] = cursor[d] \/ Passed(d, cursor[d])'
    BY <1>1, <2>1, <2>3 DEF TypeOK
  <2>6. QED
    BY <1>1, <2>1, <2>2, <2>4, <2>5, MonitorsKeep DEF Return, TypeOK
<1>7. CASE TryBlock(w) \/ TrySlot(w)
  <2>1. /\ at[w] = "block" /\ Ask(w) /\ UNCHANGED <<redis, chain, last, top>>
        /\ \E step \in {"save", "batch", "block"} :
             /\ Goto(w, step) /\ (step = "save" <=> n = t)
             /\ step = "batch" => Kind[c] = "SOL"
    BY <1>2, <1>7 DEF TryBlock, TrySlot, Ask, Of
  <2>2. Grows
    BY <1>1, <2>1 DEF Grows, Ask
  <2>3. Passed(c, n)'
    BY <1>2, <2>1, <2>2, AskPasses
  <2>4. l < n /\ n <= t /\ n + 1 - 1 = n
    BY <1>1, <1>2, <2>1 DEF JobInv
  <2>5. /\ chain'[w] = c /\ last'[w] = l /\ top'[w] = t /\ next'[w] = n + 1
        /\ at'[w] \in {"save", "batch", "block"} /\ (at'[w] = "save" <=> n = t)
        /\ at'[w] = "batch" => Kind[c] = "SOL"
    BY <1>1, <1>2, <2>1 DEF Ask, TypeOK
  <2>6. JobInv(w)'
    BY <2>3, <2>4, <2>5 DEF JobInv, Passed, Of
  <2>7. QED
    BY <1>1, <2>1, <2>2, <2>6, MonitorsKeep DEF Ask, TypeOK
<1>8. CASE NextBatch(w)
  <2>1. Grows
    BY <1>1, <1>8 DEF NextBatch, Grows
  <2>2. UNCHANGED <<redis, locals>> /\ at[w] = "batch"
    BY <1>8 DEF NextBatch
  <2>3. CASE late[w]
    <3>1. at'[w] = "save" /\ Passed(c, t)'
      BY <1>1, <1>2, <1>8, <2>1, <2>3, DropPasses DEF NextBatch, TypeOK
    <3>2. JobInv(w)'
      BY <1>2, <2>2, <3>1 DEF JobInv, Passed
    <3>3. QED
      BY <1>1, <1>8, <2>1, <2>2, <3>2, MonitorsKeep DEF NextBatch, TypeOK
  <2>4. CASE ~late[w]
    <3>1. at'[w] = "block" /\ UNCHANGED history
      BY <1>1, <1>8, <2>4 DEF NextBatch, TypeOK
    <3>2. JobInv(w)'
      BY <1>1, <2>2, <3>1 DEF JobInv, Passed
    <3>3. QED
      BY <1>1, <1>8, <2>1, <2>2, <3>2, MonitorsKeep DEF NextBatch, TypeOK
  <2>5. QED
    BY <2>3, <2>4
<1>9. CASE OutOfTime(w)
  <2>1. UNCHANGED <<redis, history, chain, last, next>> /\ Grows
    BY <1>1, <1>9 DEF OutOfTime, Grows
  <2>2. at'[w] = "save" /\ (top'[w] = l \/ top'[w] = n - 1)
    BY <1>1, <1>2, <1>9 DEF OutOfTime, TypeOK
  <2>3. l <= n - 1 /\ Passed(c, n - 1)
    BY <1>1, <1>2, <1>9 DEF OutOfTime, JobInv
  <2>4. Passed(c, l)
    BY <2>3 DEF Passed, Heights
  <2>5. JobInv(w)'
    BY <1>2, <2>1, <2>2, <2>3, <2>4 DEF JobInv, Passed
  <2>6. QED
    BY <1>1, <1>9, <2>1, <2>5, MonitorsKeep DEF OutOfTime, TypeOK
<1>10. CASE SaveCursor(w)
  <2>1. cursor' = [cursor EXCEPT ![c] = t] /\ UNCHANGED <<origin, history>> /\ Return(w) /\ at[w] = "save"
    BY <1>2, <1>10 DEF SaveCursor
  <2>2. Grows /\ JobInv(w)'
    BY <1>1, <2>1 DEF Grows, JobInv, Return, TypeOK
  <2>3. Passed(c, t)
    BY <1>1, <1>2, <2>1 DEF JobInv
  <2>4. Passed(c, cursor[c])'
    BY <1>1, <2>1, <2>3 DEF Passed, TypeOK
  <2>5. \A d \in Chains : cursor'[d] = cursor[d] \/ Passed(d, cursor[d])'
    BY <1>1, <2>1, <2>4 DEF TypeOK
  <2>6. QED
    BY <1>1, <2>1, <2>2, <2>5, MonitorsKeep DEF Return, TypeOK
<1>11. CASE Fail(w)
  BY <1>3, <1>11 DEF Fail
<1>12. QED
  BY <1>4, <1>5, <1>6, <1>7, <1>8, <1>9, <1>10, <1>11 DEF Work

LEMMA MonitorsStep == MonitorsInv /\ [Next]_vars => MonitorsInv'
<1> SUFFICES ASSUME MonitorsInv, [Next]_vars PROVE MonitorsInv'
  OBVIOUS
<1> USE DEF world, redis, locals, scan, history, Goto
<1>1. TypeOK /\ TypeOK' /\ \A c \in Chains : origin[c] \in Int /\ origin[c] <= origin[c]
  BY MonitorsTypeStep DEF MonitorsInv, TypeOK
<1>2. ASSUME NEW w \in Workers, UNCHANGED <<redis, history>>,
             at'[w] = at[w] \/ at'[w] \in {"idle", "hung", "cursor"},
             at[w] # "idle" /\ at'[w] = at[w] => UNCHANGED <<chain, last, top, next>>,
             \A v \in Workers \ {w} :
               at'[v] = at[v] /\ chain'[v] = chain[v] /\ last'[v] = last[v]
                 /\ top'[v] = top[v] /\ next'[v] = next[v]
      PROVE  MonitorsInv'
  <2>1. Grows
    BY <1>1, <1>2 DEF Grows
  <2>2. JobInv(w) /\ JobInv(w)'
    BY <1>2 DEF MonitorsInv, JobInv, Of, Passed
  <2>3. QED
    BY <1>1, <1>2, <2>1, <2>2, MonitorsKeep
<1>3. ASSUME NEW w \in Workers, PopJob(w) \/ TimePasses(w) \/ Hang(w) PROVE MonitorsInv'
  BY <1>1, <1>2, <1>3 DEF PopJob, TimePasses, Hang, TypeOK
<1>4. ASSUME NEW w \in Workers, Work(w) PROVE MonitorsInv'
  BY <1>1, <1>4, WorkKeeps
<1>5. ASSUME Grows, UNCHANGED <<at, locals>>,
             \A c \in Chains : cursor'[c] = cursor[c] \/ Passed(c, cursor[c])'
      PROVE  MonitorsInv'
  <2>1. CASE Workers = {}
    <3>1. NothingSkippedUnnoticed'
      <4> SUFFICES ASSUME NEW c \in Chains, cursor'[c] = cursor[c] PROVE Passed(c, cursor[c])'
        BY <1>5 DEF NothingSkippedUnnoticed
      <4>1. PICK k \in Int : k = cursor[c]
        BY <1>1 DEF TypeOK
      <4>2. Passed(c, k)'
        BY <1>1, <1>5, <4>1, PassedStays DEF MonitorsInv, NothingSkippedUnnoticed
      <4>3. QED
        BY <4>1, <4>2 DEF Passed
    <3>2. QED
      BY <1>1, <2>1, <3>1 DEF MonitorsInv
  <2>2. ASSUME NEW w \in Workers PROVE MonitorsInv'
    <3>1. JobInv(w)'
      BY <1>1, <1>5, JobStays DEF MonitorsInv
    <3>2. QED
      BY <1>1, <1>5, <3>1, MonitorsKeep
  <2>3. QED
    BY <2>1, <2>2
<1>6. ASSUME NEW c \in Chains, StartBlockMonitor(c) \/ MineBlock(c) \/ PushJob(c) PROVE MonitorsInv'
  BY <1>1, <1>5, <1>6 DEF StartBlockMonitor, MineBlock, PushJob, Grows
<1>7. ASSUME NEW c \in Chains, StoreStart(c) PROVE MonitorsInv'
  <2>1. CASE UNCHANGED redis
    BY <1>1, <1>5, <1>7, <2>1 DEF StoreStart, Grows
  <2>2. CASE cursor' = [cursor EXCEPT ![c] = starting[c]]
               /\ origin' = [origin EXCEPT ![c] = Higher(@, starting[c])]
    <3>1. origin'[c] >= starting[c] /\ origin'[c] \in Int
      BY <1>1, <2>2 DEF Higher, TypeOK
    <3>2. Grows
      BY <1>1, <1>7, <2>2 DEF StoreStart, Grows, Higher, TypeOK
    <3>3. Passed(c, cursor[c])'
      BY <1>1, <2>2, <3>1 DEF Passed, Heights, TypeOK
    <3>4. \A d \in Chains : cursor'[d] = cursor[d] \/ Passed(d, cursor[d])'
      BY <1>1, <2>2, <3>3 DEF TypeOK
    <3>5. QED
      BY <1>5, <1>7, <3>2, <3>4 DEF StoreStart
  <2>3. QED
    BY <1>7, <2>1, <2>2 DEF StoreStart
<1>8. ASSUME NEW c \in Chains, ExpireCursor(c) PROVE MonitorsInv'
  <2>1. Grows
    BY <1>1, <1>8 DEF ExpireCursor, Grows
  <2>2. Passed(c, cursor[c])'
    BY <1>1, <1>8 DEF ExpireCursor, Passed, Heights, TypeOK
  <2>3. \A d \in Chains : cursor'[d] = cursor[d] \/ Passed(d, cursor[d])'
    BY <1>1, <1>8, <2>2 DEF ExpireCursor, TypeOK
  <2>4. QED
    BY <1>5, <1>8, <2>1, <2>3 DEF ExpireCursor
<1>9. CASE Crash
  <2>1. \A w \in Workers : JobInv(w)'
    BY <1>9 DEF Crash, JobInv
  <2>2. NothingSkippedUnnoticed'
    BY <1>9 DEF Crash, MonitorsInv, NothingSkippedUnnoticed, Passed
  <2>3. QED
    BY <1>1, <2>1, <2>2 DEF MonitorsInv
<1>10. CASE UNCHANGED vars
  BY <1>1, <1>5, <1>10 DEF vars, Grows
<1>11. QED
  BY <1>3, <1>4, <1>6, <1>7, <1>8, <1>9, <1>10 DEF Next
-----------------------------------------------------------------------------
\* The fields of the monitors keep their types; in particular no job asks for
\* a block above the height it was told (ProcessBlockMonitorJob).
THEOREM MonitorsTypeCorrect == Spec => []TypeOK
<1>1. MonitorsInv => TypeOK
  BY DEF MonitorsInv
<1>2. QED
  BY <1>1, MonitorsInit, MonitorsStep, PTL DEF Spec

\* Whatever jobs overlap, fail, hang or die, and whenever a cursor expires, a
\* block that a scan has moved the cursor past has been asked for, or is one of
\* a Solana batch given up on (ProcessBlockMonitorJob, StartBlockMonitor).
THEOREM NothingSkipped == Spec => []NothingSkippedUnnoticed
<1>1. MonitorsInv => NothingSkippedUnnoticed
  BY DEF MonitorsInv
<1>2. QED
  BY <1>1, MonitorsInit, MonitorsStep, PTL DEF Spec
=============================================================================
