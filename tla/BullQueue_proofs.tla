--------------------------- MODULE BullQueue_proofs ---------------------------
(***************************************************************************)
(* Proofs about BullQueue for any jobs, producers, processors, faults and  *)
(* pipelines sent again.                                                   *)
(***************************************************************************)
EXTENDS BullQueue, TLAPS

\* What is waiting after Append and after Tail.
LEMMA WaitAppend ==
  ASSUME NEW S, NEW s \in Seq(S), NEW x \in S
  PROVE  /\ Append(s, x) \in Seq(S) /\ DOMAIN Append(s, x) = DOMAIN s \cup {Len(s) + 1}
         /\ Len(s) + 1 \notin DOMAIN s
         /\ Append(s, x)[Len(s) + 1] = x /\ \A i \in DOMAIN s : Append(s, x)[i] = s[i]
OBVIOUS

LEMMA WaitTail ==
  ASSUME NEW S, NEW s \in Seq(S), s # <<>>
  PROVE  /\ Tail(s) \in Seq(S) /\ Head(s) \in S /\ 1 \in DOMAIN s /\ Head(s) = s[1]
         /\ \A i \in DOMAIN Tail(s) : i + 1 \in DOMAIN s /\ i + 1 # 1 /\ Tail(s)[i] = s[i + 1]
         /\ \A i, j \in DOMAIN Tail(s) : i + 1 = j + 1 => i = j
OBVIOUS

\* What each command does.
LEMMA Executed ==
  /\ \A x : Execute(Push(x)) => wait' = Append(wait, x) /\ UNCHANGED <<filed, data, defs, lost>>
  /\ \A x, s : Execute(Set(x, s)) =>
       /\ data' = [j \in Jobs |-> IF j = x THEN s ELSE data[j]]
       /\ UNCHANGED <<wait, filed, defs, lost>>
  /\ \A x : Execute(Define(x)) => defs' = defs \cup {x} /\ UNCHANGED <<wait, filed, data, lost>>
  /\ \A x, l : Execute(List(x, l)) =>
       filed' = [filed EXCEPT ![l] = @ \cup {x}] /\ UNCHANGED <<wait, data, defs, lost>>
  /\ \A x : Execute(Unlist(x)) =>
       filed' = [filed EXCEPT !["active"] = @ \ {x}] /\ UNCHANGED <<wait, data, defs, lost>>
  /\ Execute(Pop) =>
       /\ wait # <<>> /\ wait' = Tail(wait) /\ lost' = lost \cup ({Head(wait)} \cap Jobs)
       /\ UNCHANGED <<filed, data, defs>>
  /\ Execute(Del("wait")) =>
       wait' = <<>> /\ lost' = lost \cup (Waiting \cap Jobs) /\ UNCHANGED <<filed, data, defs>>
  /\ \A l : l # "wait" /\ Execute(Del(l)) =>
       filed' = [filed EXCEPT ![l] = {}] /\ UNCHANGED <<wait, data, defs, lost>>
<1> USE DEF Execute, Command, listVars
<1>1. \A x : Execute(Push(x)) => wait' = Append(wait, x) /\ UNCHANGED <<filed, data, defs, lost>>
  BY DEF Push, Queue
<1>2. \A x, s : Execute(Set(x, s)) =>
        /\ data' = [j \in Jobs |-> IF j = x THEN s ELSE data[j]]
        /\ UNCHANGED <<wait, filed, defs, lost>>
  BY DEF Set, Store
<1>3. \A x : Execute(Define(x)) => defs' = defs \cup {x} /\ UNCHANGED <<wait, filed, data, lost>>
  BY DEF Define
<1>4. \A x, l : Execute(List(x, l)) =>
        filed' = [filed EXCEPT ![l] = @ \cup {x}] /\ UNCHANGED <<wait, data, defs, lost>>
  BY DEF List
<1>5. \A x : Execute(Unlist(x)) =>
        filed' = [filed EXCEPT !["active"] = @ \ {x}] /\ UNCHANGED <<wait, data, defs, lost>>
  BY DEF Unlist
<1>6. Execute(Pop) =>
        /\ wait # <<>> /\ wait' = Tail(wait) /\ lost' = lost \cup ({Head(wait)} \cap Jobs)
        /\ UNCHANGED <<filed, data, defs>>
  BY DEF Pop, Lose
<1>7. Execute(Del("wait")) =>
        wait' = <<>> /\ lost' = lost \cup (Waiting \cap Jobs) /\ UNCHANGED <<filed, data, defs>>
  BY DEF Del, Lose
<1>8. \A l : l # "wait" /\ Execute(Del(l)) =>
        filed' = [filed EXCEPT ![l] = {}] /\ UNCHANGED <<wait, data, defs, lost>>
  BY DEF Del
<1>9. QED
  BY <1>1, <1>2, <1>3, <1>4, <1>5, <1>6, <1>7, <1>8

\* The forms of what is under way.
LEMMA SentForms ==
  ASSUME NEW s \in SentOK
  PROVE  \/ s = Nothing
         \/ s = Sent("pop", None, None, 1)
         \/ \E id \in RepeatIds : s = Sent("define", id, None, 1)
         \/ \E list \in {"wait"} \cup Lists : s = Sent("del", None, list, 1)
         \/ \E id \in Ids : s = Sent("add", id, None, 1)
         \/ \E id \in Ids : s = Sent("add", id, None, 2)
         \/ \E id \in Jobs : s = Sent("activate", id, None, 1)
         \/ \E id \in Jobs : s = Sent("activate", id, None, 2)
         \/ \E id \in Jobs, l \in Settled : s = Sent("file", id, l, 1)
         \/ \E id \in Jobs, l \in Settled : s = Sent("file", id, l, 2)
         \/ \E id \in Jobs, l \in Settled : s = Sent("file", id, l, 3)
<1>1. 1..2 = {1, 2} /\ 1..3 = {1, 2, 3}
  OBVIOUS
<1>2. QED
  BY <1>1 DEF SentOK

\* One command of connection n is executed, and the connection goes on to next.
Goes(n, from, c, next) ==
  late[n] = from /\ Execute(c) /\ late' = [late EXCEPT ![n] = next]

\* The commands of each connection given up, one after the other.
Arrivals(n) ==
  \/ Goes(n, Sent("pop", None, None, 1), Pop, Nothing)
  \/ \E id \in RepeatIds : Goes(n, Sent("define", id, None, 1), Define(id), Nothing)
  \/ \E list \in {"wait"} \cup Lists : Goes(n, Sent("del", None, list, 1), Del(list), Nothing)
  \/ \E id \in Ids :
       \/ Goes(n, Sent("add", id, None, 1), Push(id), Sent("add", id, None, 2))
       \/ Goes(n, Sent("add", id, None, 2), Set(id, "waiting"), Nothing)
  \/ \E id \in Jobs :
       \/ Goes(n, Sent("activate", id, None, 1), Set(id, "active"), Sent("activate", id, None, 2))
       \/ Goes(n, Sent("activate", id, None, 2), List(id, "active"), Nothing)
  \/ \E id \in Jobs, l \in Settled :
       \/ Goes(n, Sent("file", id, l, 1), Set(id, l), Sent("file", id, l, 2))
       \/ Goes(n, Sent("file", id, l, 2), Unlist(id), Sent("file", id, l, 3))
       \/ Goes(n, Sent("file", id, l, 3), List(id, l), Nothing)

LEMMA Arrived == ASSUME TypeOK, NEW n \in 1..MaxFaults, Arrive(n) PROVE Arrivals(n)
<1> DEFINE cmds == Commands(late[n])
           at   == late[n].at
<1>1. /\ cmds # <<>> /\ Execute(cmds[at])
      /\ late' = [late EXCEPT ![n] = IF at = Len(cmds) THEN Nothing
                                     ELSE Sent(late[n].what, late[n].id, late[n].to, at + 1)]
  BY DEF Arrive
<1>2. late[n] \in SentOK
  BY DEF TypeOK
<1>3. late[n] # Nothing
  BY <1>1 DEF Commands, Nothing, Sent
<1>4. ASSUME late[n] = Sent("pop", None, None, 1) PROVE Arrivals(n)
  <2>1. cmds = <<Pop>> /\ at = 1
    BY <1>4 DEF Commands, Sent
  <2>2. cmds[at] = Pop /\ at = Len(cmds)
    BY <2>1
  <2>3. Goes(n, Sent("pop", None, None, 1), Pop, Nothing)
    BY <1>1, <1>4, <2>2 DEF Goes
  <2>4. QED
    BY <2>3 DEF Arrivals
<1>5. ASSUME NEW id \in RepeatIds, late[n] = Sent("define", id, None, 1) PROVE Arrivals(n)
  <2>1. cmds = <<Define(id)>> /\ at = 1
    BY <1>5 DEF Commands, Sent
  <2>2. cmds[at] = Define(id) /\ at = Len(cmds)
    BY <2>1
  <2>3. Goes(n, Sent("define", id, None, 1), Define(id), Nothing)
    BY <1>1, <1>5, <2>2 DEF Goes
  <2>4. QED
    BY <2>3 DEF Arrivals
<1>6. ASSUME NEW l \in {"wait"} \cup Lists, late[n] = Sent("del", None, l, 1) PROVE Arrivals(n)
  <2>1. cmds = <<Del(l)>> /\ at = 1
    BY <1>6 DEF Commands, Sent
  <2>2. cmds[at] = Del(l) /\ at = Len(cmds)
    BY <2>1
  <2>3. Goes(n, Sent("del", None, l, 1), Del(l), Nothing)
    BY <1>1, <1>6, <2>2 DEF Goes
  <2>4. QED
    BY <2>3 DEF Arrivals
<1>7. ASSUME NEW id \in Ids, NEW k \in {1, 2}, late[n] = Sent("add", id, None, k) PROVE Arrivals(n)
  <2>1. /\ cmds = <<Push(id), Set(id, "waiting")>> /\ at = k
        /\ late[n].what = "add" /\ late[n].id = id /\ late[n].to = None
    BY <1>7 DEF Commands, Sent, Adding
  <2>2. Len(cmds) = 2 /\ cmds[1] = Push(id) /\ cmds[2] = Set(id, "waiting")
    BY <2>1
  <2>3. CASE k = 1
    <3>1. at # Len(cmds) /\ cmds[at] = Push(id) /\ at + 1 = 2
      BY <2>1, <2>2, <2>3
    <3>2. Goes(n, Sent("add", id, None, 1), Push(id), Sent("add", id, None, 2))
      BY <1>1, <1>7, <2>1, <2>3, <3>1 DEF Goes
    <3>3. QED
      BY <3>2 DEF Arrivals
  <2>4. CASE k = 2
    <3>1. Goes(n, Sent("add", id, None, 2), Set(id, "waiting"), Nothing)
      BY <1>1, <1>7, <2>1, <2>2, <2>4 DEF Goes
    <3>2. QED
      BY <3>1 DEF Arrivals
  <2>5. QED
    BY <2>3, <2>4
<1>8. ASSUME NEW id \in Jobs, NEW k \in {1, 2}, late[n] = Sent("activate", id, None, k)
      PROVE  Arrivals(n)
  <2>1. /\ cmds = <<Set(id, "active"), List(id, "active")>> /\ at = k
        /\ late[n].what = "activate" /\ late[n].id = id /\ late[n].to = None
    BY <1>8 DEF Commands, Sent, Activating
  <2>2. Len(cmds) = 2 /\ cmds[1] = Set(id, "active") /\ cmds[2] = List(id, "active")
    BY <2>1
  <2>3. CASE k = 1
    <3>1. at # Len(cmds) /\ cmds[at] = Set(id, "active") /\ at + 1 = 2
      BY <2>1, <2>2, <2>3
    <3>2. Goes(n, Sent("activate", id, None, 1), Set(id, "active"), Sent("activate", id, None, 2))
      BY <1>1, <1>8, <2>1, <2>3, <3>1 DEF Goes
    <3>3. QED
      BY <3>2 DEF Arrivals
  <2>4. CASE k = 2
    <3>1. Goes(n, Sent("activate", id, None, 2), List(id, "active"), Nothing)
      BY <1>1, <1>8, <2>1, <2>2, <2>4 DEF Goes
    <3>2. QED
      BY <3>1 DEF Arrivals
  <2>5. QED
    BY <2>3, <2>4
<1>9. ASSUME NEW id \in Jobs, NEW l \in Settled, NEW k \in {1, 2, 3}, late[n] = Sent("file", id, l, k)
      PROVE  Arrivals(n)
  <2>1. /\ cmds = <<Set(id, l), Unlist(id), List(id, l)>> /\ at = k
        /\ late[n].what = "file" /\ late[n].id = id /\ late[n].to = l
    BY <1>9 DEF Commands, Sent, Filing
  <2>2. Len(cmds) = 3 /\ cmds[1] = Set(id, l) /\ cmds[2] = Unlist(id) /\ cmds[3] = List(id, l)
    BY <2>1
  <2>3. CASE k = 1
    <3>1. at # Len(cmds) /\ cmds[at] = Set(id, l) /\ at + 1 = 2
      BY <2>1, <2>2, <2>3
    <3>2. Goes(n, Sent("file", id, l, 1), Set(id, l), Sent("file", id, l, 2))
      BY <1>1, <1>9, <2>1, <2>3, <3>1 DEF Goes
    <3>3. QED
      BY <3>2 DEF Arrivals
  <2>4. CASE k = 2
    <3>1. at # Len(cmds) /\ cmds[at] = Unlist(id) /\ at + 1 = 3
      BY <2>1, <2>2, <2>4
    <3>2. Goes(n, Sent("file", id, l, 2), Unlist(id), Sent("file", id, l, 3))
      BY <1>1, <1>9, <2>1, <2>4, <3>1 DEF Goes
    <3>3. QED
      BY <3>2 DEF Arrivals
  <2>5. CASE k = 3
    <3>1. Goes(n, Sent("file", id, l, 3), List(id, l), Nothing)
      BY <1>1, <1>9, <2>1, <2>2, <2>5 DEF Goes
    <3>2. QED
      BY <3>1 DEF Arrivals
  <2>6. QED
    BY <2>3, <2>4, <2>5
<1>10. QED
  <2> HIDE DEF cmds, at
  <2>1. /\ late[n] # Sent("pop", None, None, 1) \/ Arrivals(n)
        /\ \A id \in RepeatIds : late[n] # Sent("define", id, None, 1) \/ Arrivals(n)
        /\ \A l \in {"wait"} \cup Lists : late[n] # Sent("del", None, l, 1) \/ Arrivals(n)
    BY <1>4, <1>5, <1>6
  <2>2. CASE \E id \in Ids : late[n] = Sent("add", id, None, 1) \/ late[n] = Sent("add", id, None, 2)
    BY <1>7, <2>2
  <2>3. CASE \E id \in Jobs : late[n] = Sent("activate", id, None, 1) \/ late[n] = Sent("activate", id, None, 2)
    BY <1>8, <2>3
  <2>4. CASE \E id \in Jobs, l \in Settled : \/ late[n] = Sent("file", id, l, 1)
                                             \/ late[n] = Sent("file", id, l, 2)
                                             \/ late[n] = Sent("file", id, l, 3)
    BY <1>9, <2>4
  <2>5. QED
    BY <1>2, <1>3, <2>1, <2>2, <2>3, <2>4, SentForms
-----------------------------------------------------------------------------
\* The part of TypeOK about what Redis holds, ...
StoreType ==
  /\ wait \in Seq(Ids)
  /\ filed \in [Lists -> SUBSET Jobs]
  /\ data \in [Jobs -> {None, "waiting", "active"} \cup Settled]
  /\ defs \subseteq RepeatIds
  /\ lost \subseteq Jobs

\* ... the part about what is under way, ...
LateType ==
  /\ faults \in 0..MaxFaults
  /\ late \in [1..MaxFaults -> SentOK]
  /\ \A n \in 1..MaxFaults : n > faults => late[n] = Nothing

\* ... the part about the producers, ...
AddingType ==
  /\ adding \in [Producers -> [id : Ids \cup {None}, phase : Phases]]
  /\ \A r \in Producers : adding[r].phase # "idle" => adding[r].id \in Ids

\* ... the part about the processors, ...
ProcType ==
  /\ pc \in [Processors -> Steps]
  /\ hand \in [Processors -> Ids \cup {None}]
  /\ outcome \in [Processors -> Settled \cup {None}]
  /\ \A p \in Processors :
       /\ pc[p] = "repeat" => hand[p] \in RepeatIds
       /\ pc[p] \in {"activate", "handle", "finish"} => hand[p] \in Jobs
       /\ pc[p] = "get" => hand[p] \in Ids
       /\ pc[p] = "finish" => outcome[p] \in Settled

\* ... and the rest.
RestType ==
  /\ now \in 0..MaxTime
  /\ issued \subseteq Jobs
  /\ clear \in ClearSteps
  /\ handled \in [Jobs -> Nat]
  /\ readded \subseteq Jobs /\ reactivated \subseteq Jobs

LEMMA Types == TypeOK <=> StoreType /\ LateType /\ AddingType /\ ProcType /\ RestType
BY DEF TypeOK, StoreType, LateType, AddingType, ProcType, RestType

LEMMA TypesNext == StoreType' /\ LateType' /\ AddingType' /\ ProcType' /\ RestType' => TypeOK'
BY DEF TypeOK, StoreType, LateType, AddingType, ProcType, RestType

LEMMA RepeatIdType == \A h \in Hashes, t \in 0..MaxTime : RepeatId(h, t) \in RepeatIds
BY DEF RepeatId, RepeatIds

LEMMA QueueTypeInit == Init => TypeOK
<1> SUFFICES ASSUME Init PROVE TypeOK
  OBVIOUS
<1>1. StoreType
  BY DEF Init, StoreType
<1>2. LateType
  <2>1. Nothing \in SentOK
    BY DEF SentOK
  <2>2. QED
    BY <2>1, QueueAssumption DEF Init, LateType
<1>3. AddingType
  BY DEF Init, AddingType, Phases
<1>4. ProcType
  BY DEF Init, ProcType, Steps
<1>5. RestType
  BY QueueAssumption DEF Init, RestType, ClearSteps
<1>6. QED
  BY <1>1, <1>2, <1>3, <1>4, <1>5, Types

LEMMA ListNames == "active" \in Lists /\ Settled \subseteq Lists /\ "wait" \notin Lists
BY DEF Lists, Settled

LEMMA PushType == ASSUME StoreType, NEW id \in Ids, Execute(Push(id)) PROVE StoreType'
<1>1. wait' = Append(wait, id) /\ UNCHANGED <<filed, data, defs, lost>>
  BY Executed
<1>2. wait' \in Seq(Ids)
  BY <1>1, WaitAppend DEF StoreType
<1>3. QED
  BY <1>1, <1>2 DEF StoreType

LEMMA SetType ==
  ASSUME StoreType, NEW id, NEW s \in {"waiting", "active"} \cup Settled, Execute(Set(id, s))
  PROVE  StoreType'
BY Executed DEF StoreType

LEMMA ListType ==
  ASSUME StoreType, NEW id \in Jobs, NEW l \in Lists, Execute(List(id, l)) PROVE StoreType'
BY Executed DEF StoreType

LEMMA UnlistType == ASSUME StoreType, NEW id, Execute(Unlist(id)) PROVE StoreType'
BY Executed, ListNames DEF StoreType

LEMMA PopType == ASSUME StoreType, Execute(Pop) PROVE StoreType'
<1>1. wait # <<>> /\ wait' = Tail(wait) /\ lost' = lost \cup ({Head(wait)} \cap Jobs)
      /\ UNCHANGED <<filed, data, defs>>
  BY Executed
<1>2. wait' \in Seq(Ids)
  BY <1>1, WaitTail DEF StoreType
<1>3. QED
  BY <1>1, <1>2 DEF StoreType

LEMMA DefineType == ASSUME StoreType, NEW id \in RepeatIds, Execute(Define(id)) PROVE StoreType'
BY Executed DEF StoreType

LEMMA DelType ==
  ASSUME StoreType, NEW l \in {"wait"} \cup Lists, Execute(Del(l)) PROVE StoreType'
<1>1. CASE l = "wait"
  <2>1. wait' = <<>> /\ lost' = lost \cup (Waiting \cap Jobs) /\ UNCHANGED <<filed, data, defs>>
    BY <1>1, Executed
  <2>2. <<>> \in Seq(Ids)
    OBVIOUS
  <2>3. QED
    BY <2>1, <2>2 DEF StoreType
<1>2. CASE l # "wait"
  BY <1>2, Executed DEF StoreType
<1>3. QED
  BY <1>1, <1>2

\* Connections go on within their pipelines, and new ones are given up.
LEMMA GoesType ==
  ASSUME LateType, NEW n \in 1..MaxFaults, NEW from, NEW c, NEW next \in SentOK,
         Goes(n, from, c, next), late[n] # Nothing, UNCHANGED faults
  PROVE  LateType'
BY DEF LateType, Goes

LEMMA UnansweredType ==
  ASSUME LateType, NEW sent \in SentOK, Unanswered(sent) PROVE LateType'
<1>1. faults + 1 \in 1..MaxFaults /\ faults' = faults + 1 /\ faults' \in 0..MaxFaults
      /\ \A n \in 1..MaxFaults : n > faults + 1 => n > faults
  BY QueueAssumption DEF LateType, Unanswered
<1>2. late' = [late EXCEPT ![faults + 1] = sent]
  BY DEF Unanswered
<1>3. QED
  BY <1>1, <1>2 DEF LateType

LEMMA SentTypes ==
  /\ Nothing \in SentOK /\ Sent("pop", None, None, 1) \in SentOK
  /\ \A id \in RepeatIds : Sent("define", id, None, 1) \in SentOK
  /\ \A l \in {"wait"} \cup Lists : Sent("del", None, l, 1) \in SentOK
  /\ \A id \in Ids : Sent("add", id, None, 1) \in SentOK /\ Sent("add", id, None, 2) \in SentOK
  /\ \A id \in Jobs : /\ Sent("activate", id, None, 1) \in SentOK
                      /\ Sent("activate", id, None, 2) \in SentOK
  /\ \A id \in Jobs, l \in Settled :
       /\ Sent("file", id, l, 1) \in SentOK
       /\ Sent("file", id, l, 2) \in SentOK
       /\ Sent("file", id, l, 3) \in SentOK
<1>1. 1 \in 1..2 /\ 2 \in 1..2 /\ 1 \in 1..3 /\ 2 \in 1..3 /\ 3 \in 1..3
  OBVIOUS
<1>2. QED
  BY <1>1 DEF SentOK

LEMMA FaultType == ASSUME LateType, Fault PROVE LateType'
BY UnansweredType, SentTypes DEF Fault

LEMMA ArriveType == ASSUME TypeOK, NEW n \in 1..MaxFaults, Arrive(n) PROVE TypeOK'
<1>1. StoreType /\ LateType /\ AddingType /\ ProcType /\ RestType
  BY Types
<1>2. UNCHANGED <<now, issued, adding, pc, hand, outcome, clear, faults, handled, readded, reactivated>>
  BY DEF Arrive, procVars, retryVars
<1>3. AddingType' /\ ProcType' /\ RestType'
  BY <1>1, <1>2 DEF AddingType, ProcType, RestType
<1>4. late[n] # Nothing
  BY DEF Arrive, Commands, Nothing, Sent
<1>5. StoreType' /\ LateType'
  <2>1. CASE Goes(n, Sent("pop", None, None, 1), Pop, Nothing)
    BY <1>1, <1>2, <1>4, <2>1, PopType, SentTypes, GoesType DEF Goes
  <2>2. ASSUME NEW id \in RepeatIds, Goes(n, Sent("define", id, None, 1), Define(id), Nothing)
        PROVE  StoreType' /\ LateType'
    BY <1>1, <1>2, <1>4, <2>2, DefineType, SentTypes, GoesType DEF Goes
  <2>3. ASSUME NEW l \in {"wait"} \cup Lists, Goes(n, Sent("del", None, l, 1), Del(l), Nothing)
        PROVE  StoreType' /\ LateType'
    BY <1>1, <1>2, <1>4, <2>3, DelType, SentTypes, GoesType DEF Goes
  <2>4. ASSUME NEW id \in Ids,
               \/ Goes(n, Sent("add", id, None, 1), Push(id), Sent("add", id, None, 2))
               \/ Goes(n, Sent("add", id, None, 2), Set(id, "waiting"), Nothing)
        PROVE  StoreType' /\ LateType'
    <3>1. CASE Goes(n, Sent("add", id, None, 1), Push(id), Sent("add", id, None, 2))
      BY <1>1, <1>2, <1>4, <3>1, PushType, SentTypes, GoesType DEF Goes
    <3>2. CASE Goes(n, Sent("add", id, None, 2), Set(id, "waiting"), Nothing)
      BY <1>1, <1>2, <1>4, <3>2, SetType, SentTypes, GoesType DEF Goes
    <3>3. QED
      BY <2>4, <3>1, <3>2
  <2>5. ASSUME NEW id \in Jobs,
               \/ Goes(n, Sent("activate", id, None, 1), Set(id, "active"), Sent("activate", id, None, 2))
               \/ Goes(n, Sent("activate", id, None, 2), List(id, "active"), Nothing)
        PROVE  StoreType' /\ LateType'
    <3>1. CASE Goes(n, Sent("activate", id, None, 1), Set(id, "active"), Sent("activate", id, None, 2))
      BY <1>1, <1>2, <1>4, <3>1, SetType, SentTypes, GoesType DEF Goes
    <3>2. CASE Goes(n, Sent("activate", id, None, 2), List(id, "active"), Nothing)
      BY <1>1, <1>2, <1>4, <3>2, ListType, ListNames, SentTypes, GoesType DEF Goes
    <3>3. QED
      BY <2>5, <3>1, <3>2
  <2>6. ASSUME NEW id \in Jobs, NEW l \in Settled,
               \/ Goes(n, Sent("file", id, l, 1), Set(id, l), Sent("file", id, l, 2))
               \/ Goes(n, Sent("file", id, l, 2), Unlist(id), Sent("file", id, l, 3))
               \/ Goes(n, Sent("file", id, l, 3), List(id, l), Nothing)
        PROVE  StoreType' /\ LateType'
    <3>1. CASE Goes(n, Sent("file", id, l, 1), Set(id, l), Sent("file", id, l, 2))
      BY <1>1, <1>2, <1>4, <3>1, SetType, SentTypes, GoesType DEF Goes
    <3>2. CASE Goes(n, Sent("file", id, l, 2), Unlist(id), Sent("file", id, l, 3))
      BY <1>1, <1>2, <1>4, <3>2, UnlistType, SentTypes, GoesType DEF Goes
    <3>3. CASE Goes(n, Sent("file", id, l, 3), List(id, l), Nothing)
      BY <1>1, <1>2, <1>4, <3>3, ListType, ListNames, SentTypes, GoesType DEF Goes
    <3>4. QED
      BY <2>6, <3>1, <3>2, <3>3
  <2>7. QED
    <3>1. Arrivals(n)
      BY Arrived
    <3>2. QED
      BY <2>1, <2>2, <2>3, <2>4, <2>5, <2>6, <3>1, Zenon DEF Arrivals
<1>6. QED
  BY <1>1, <1>3, <1>5, TypesNext

\* What the fields of a processor look like after a round is over.
LEMMA FinishType ==
  ASSUME ProcType, NEW p \in Processors, Finish(p) PROVE ProcType'
BY DEF ProcType, Finish, Goto, Steps

LEMMA AddJobType == ASSUME TypeOK, NEW r \in Producers, AddJob(r) PROVE TypeOK'
<1>0. StoreType /\ LateType /\ AddingType /\ ProcType /\ RestType
  BY Types
<1> USE DEF retryVars, procVars, failVars, storeVars, listVars, NoFault, histVars
<1>1. ASSUME UNCHANGED procVars PROVE ProcType'
  BY <1>0, <1>1 DEF ProcType
<1>2. ASSUME UNCHANGED <<now, issued, clear, handled, reactivated>>, readded' \subseteq Jobs
      PROVE  RestType'
  BY <1>0, <1>2 DEF RestType
<1>3. ASSUME UNCHANGED failVars PROVE LateType'
  BY <1>0, <1>3 DEF LateType
<1>4. ASSUME UNCHANGED <<storeVars, lost>> PROVE StoreType'
  BY <1>0, <1>4 DEF StoreType
<1>5. ASSUME EndAdd(r) PROVE AddingType'
  BY <1>0, <1>5 DEF EndAdd, AddingType, Phases
<1>6. ASSUME NEW phase \in Phases, adding[r].phase # "idle", adding' = [adding EXCEPT ![r].phase = phase]
      PROVE  AddingType'
  <2>1. adding[r] \in [id : Ids \cup {None}, phase : Phases] /\ adding[r].id \in Ids
    BY <1>0, <1>6 DEF AddingType
  <2>2. adding' = [adding EXCEPT ![r] = [id |-> adding[r].id, phase |-> phase]]
    <3>1. [adding[r] EXCEPT !.phase = phase] = [id |-> adding[r].id, phase |-> phase]
      BY <2>1
    <3>2. QED
      BY <1>6, <3>1
  <2>3. QED
    BY <1>0, <2>1, <2>2 DEF AddingType
<1>7. ASSUME NEW id \in Ids, adding' = [adding EXCEPT ![r] = [id |-> id, phase |-> "push"]]
      PROVE  AddingType'
  BY <1>0, <1>7 DEF AddingType, Phases
<1>8. readded \subseteq Jobs /\ issued \subseteq Jobs
  BY <1>0 DEF RestType
<1>9. ASSUME NEW id \in Jobs, StartJob(r, id) PROVE TypeOK'
  <2>1. RestType'
    BY <1>0, <1>9 DEF StartJob, RestType
  <2>2. AddingType'
    BY <1>7, <1>9 DEF StartJob, Ids
  <2>3. StoreType' /\ LateType' /\ ProcType'
    BY <1>1, <1>3, <1>4, <1>9 DEF StartJob
  <2>4. QED
    BY <2>1, <2>2, <2>3, TypesNext
<1>10. ASSUME NEW h \in Hashes, StartRepeat(r, h) PROVE TypeOK'
  <2> DEFINE id == RepeatId(h, now)
  <2>1. id \in RepeatIds /\ id \in Ids
    BY <1>0, RepeatIdType DEF RestType, Ids
  <2>2. RestType' /\ ProcType'
    BY <1>1, <1>2, <1>8, <1>10 DEF StartRepeat
  <2>3. \/ NoFault /\ Execute(Define(id)) /\ adding' = [adding EXCEPT ![r] = [id |-> id, phase |-> "push"]]
        \/ Unanswered(Sent("define", id, None, 1)) /\ UNCHANGED <<storeVars, lost, adding>>
    BY <1>10 DEF StartRepeat
  <2> HIDE DEF id
  <2>4. StoreType' /\ AddingType' /\ LateType'
    <3>1. CASE NoFault /\ Execute(Define(id)) /\ adding' = [adding EXCEPT ![r] = [id |-> id, phase |-> "push"]]
      BY <1>0, <1>3, <1>7, <2>1, <3>1, DefineType
    <3>2. CASE Unanswered(Sent("define", id, None, 1)) /\ UNCHANGED <<storeVars, lost, adding>>
      <4>1. LateType'
        BY <1>0, <2>1, <3>2, UnansweredType, SentTypes
      <4>2. AddingType'
        BY <1>0, <3>2 DEF AddingType
      <4>3. QED
        BY <1>4, <3>2, <4>1, <4>2
    <3>3. QED
      BY <2>3, <3>1, <3>2
  <2>5. QED
    BY <2>2, <2>4, TypesNext
<1>11. adding[r].phase # "idle" => adding[r].id \in Ids
  BY <1>0 DEF AddingType
<1>12. ASSUME NEW x, NEW y PROVE <<x, y>>[1] = x /\ <<x, y>>[2] = y
  OBVIOUS
<1>13. CASE PushJob(r)
  <2>1. Execute(Push(adding[r].id))
    BY <1>12, <1>13 DEF PushJob, Adding
  <2>2. StoreType'
    BY <1>0, <1>11, <1>13, <2>1, PushType DEF PushJob
  <2>3. AddingType'
    BY <1>6, <1>13 DEF PushJob, Phases
  <2>4. QED
    BY <1>1, <1>2, <1>3, <1>8, <1>13, <2>2, <2>3, TypesNext DEF PushJob
<1>14. CASE StoreJob(r)
  <2>1. Execute(Set(adding[r].id, "waiting"))
    BY <1>12, <1>14 DEF StoreJob, Adding
  <2>2. StoreType'
    BY <1>0, <2>1, SetType
  <2>3. QED
    BY <1>1, <1>2, <1>3, <1>5, <1>8, <1>14, <2>2, TypesNext DEF StoreJob
<1>15. CASE ResendAdd(r)
  <2>1. LateType'
    <3> DEFINE at == IF adding[r].phase = "push" THEN 1 ELSE 2
    <3>1. Sent("add", adding[r].id, None, at) \in SentOK
      BY <1>11, <1>15, SentTypes DEF ResendAdd
    <3>2. Unanswered(Sent("add", adding[r].id, None, at))
      BY <1>15 DEF ResendAdd
    <3>3. QED
      BY <1>0, <3>1, <3>2, UnansweredType
  <2>2. AddingType'
    BY <1>5, <1>6, <1>15 DEF ResendAdd, Phases
  <2>3. readded' \subseteq Jobs
    BY <1>8, <1>15 DEF ResendAdd
  <2>4. QED
    BY <1>1, <1>2, <1>4, <1>15, <2>1, <2>2, <2>3, TypesNext DEF ResendAdd
<1>16. QED
  BY <1>9, <1>10, <1>13, <1>14, <1>15 DEF AddJob

LEMMA ProcessorType ==
  ASSUME TypeOK, NEW p \in Processors,
         ProcessQueue(p) \/ Shutdown(p) \/ StartUp(p) \/ Crash(p)
  PROVE  TypeOK'
<1>0. StoreType /\ LateType /\ AddingType /\ ProcType /\ RestType
  BY Types
<1> USE DEF retryVars, procVars, failVars, storeVars, listVars, NoFault, histVars
<1>1. ASSUME UNCHANGED adding PROVE AddingType'
  BY <1>0, <1>1 DEF AddingType
<1>2. ASSUME UNCHANGED <<now, issued, clear>>, handled' \in [Jobs -> Nat],
             readded' \subseteq Jobs, reactivated' \subseteq Jobs
      PROVE  RestType'
  BY <1>0, <1>2 DEF RestType
<1>3. ASSUME UNCHANGED failVars PROVE LateType'
  BY <1>0, <1>3 DEF LateType
<1>4. ASSUME UNCHANGED storeVars, lost' \subseteq Jobs PROVE StoreType'
  BY <1>0, <1>4 DEF StoreType
<1>5. handled \in [Jobs -> Nat] /\ readded \subseteq Jobs /\ reactivated \subseteq Jobs /\ lost \subseteq Jobs
  BY <1>0 DEF RestType, StoreType
<1>6. \A ids : Lose(ids) => lost' \subseteq Jobs
  BY <1>5 DEF Lose
<1>7. ASSUME UNCHANGED procVars PROVE ProcType'
  BY <1>0, <1>7 DEF ProcType
<1>8. Fault => LateType'
  BY <1>0, FaultType
<1>9. CASE PopJob(p)
  <2>1. AddingType' /\ RestType'
    BY <1>1, <1>2, <1>5, <1>9 DEF PopJob
  <2>2. CASE NoFault /\ wait # <<>> /\ wait' = Tail(wait) /\ hand' = [hand EXCEPT ![p] = Head(wait)]
             /\ Goto(p, "get")
    <3>1. wait' \in Seq(Ids) /\ Head(wait) \in Ids
      BY <1>0, <2>2, WaitTail DEF StoreType
    <3>2. StoreType'
      BY <1>0, <1>9, <3>1 DEF PopJob, StoreType
    <3>3. ProcType'
      BY <1>0, <1>9, <2>2, <3>1 DEF PopJob, ProcType, Goto, Steps
    <3>4. QED
      BY <1>3, <2>1, <2>2, <3>2, <3>3, TypesNext
  <2>3. CASE Unanswered(Sent("pop", None, None, 1)) /\ UNCHANGED <<wait, pc, hand>>
    <3>1. LateType'
      BY <1>0, <2>3, UnansweredType, SentTypes
    <3>2. StoreType'
      BY <1>4, <1>5, <1>9, <2>3 DEF PopJob
    <3>3. ProcType'
      BY <1>7, <1>9, <2>3 DEF PopJob
    <3>4. QED
      BY <2>1, <3>1, <3>2, <3>3, TypesNext
  <2>4. QED
    BY <1>9, <2>2, <2>3 DEF PopJob
<1>10. CASE GetJob(p)
  <2>1. AddingType' /\ RestType'
    BY <1>1, <1>2, <1>5, <1>10 DEF GetJob
  <2>2. StoreType' /\ LateType'
    <3>1. lost' \subseteq Jobs
      BY <1>5, <1>6, <1>10 DEF GetJob
    <3>2. LateType'
      BY <1>3, <1>8, <1>10 DEF GetJob
    <3>3. QED
      BY <1>4, <1>10, <3>1, <3>2 DEF GetJob
  <2>3. ProcType'
    <3>1. CASE Finish(p)
      BY <1>0, <3>1, FinishType
    <3>2. CASE ~Finish(p)
      <4>1. /\ UNCHANGED <<hand, outcome>> /\ hand[p] \in Ids
            /\ Goto(p, IF IsRepeat(hand[p]) THEN "repeat" ELSE "activate")
        BY <1>0, <1>10, <3>2 DEF GetJob, ProcType
      <4>2. QED
        BY <1>0, <4>1 DEF ProcType, Goto, Steps, IsRepeat, Ids
    <3>3. QED
      BY <3>1, <3>2
  <2>4. QED
    BY <2>1, <2>2, <2>3, TypesNext
<1>11. CASE ActivateJob(p)
  <2>1. hand[p] \in Jobs
    BY <1>0, <1>11 DEF ActivateJob, ProcType
  <2>2. AddingType' /\ RestType'
    <3>1. reactivated' \subseteq Jobs
      BY <1>5, <1>11, <2>1 DEF ActivateJob
    <3>2. QED
      BY <1>1, <1>2, <1>5, <1>11, <3>1 DEF ActivateJob
  <2>3. StoreType'
    <3>1. lost' \subseteq Jobs
      BY <1>5, <1>6, <1>11 DEF ActivateJob
    <3>2. data' = data \/ data' = [data EXCEPT ![hand[p]] = "active"]
      BY <1>11 DEF ActivateJob
    <3>3. filed' = filed \/ filed' = [filed EXCEPT !["active"] = @ \cup {hand[p]}]
      BY <1>11 DEF ActivateJob
    <3>4. data' \in [Jobs -> {None, "waiting", "active"} \cup Settled]
      BY <1>0, <2>1, <3>2 DEF StoreType
    <3>5. filed["active"] \cup {hand[p]} \in SUBSET Jobs
      BY <1>0, <2>1, ListNames DEF StoreType
    <3>6. filed' \in [Lists -> SUBSET Jobs]
      BY <1>0, <3>3, <3>5, ListNames DEF StoreType
    <3>7. UNCHANGED <<wait, defs>>
      BY <1>11 DEF ActivateJob
    <3>8. QED
      BY <1>0, <3>1, <3>4, <3>6, <3>7 DEF StoreType
  <2>4. LateType'
    <3>1. NoFault \/ Unanswered(Sent("activate", hand[p], None, 1))
      BY <1>11 DEF ActivateJob
    <3>2. QED
      BY <1>0, <1>3, <2>1, <3>1, UnansweredType, SentTypes
  <2>5. ProcType'
    <3>1. Finish(p) \/ UNCHANGED procVars \/ (UNCHANGED <<hand, outcome>> /\ Goto(p, "handle"))
      BY <1>11 DEF ActivateJob
    <3>2. CASE UNCHANGED <<hand, outcome>> /\ Goto(p, "handle")
      BY <1>0, <2>1, <3>2 DEF ProcType, Goto, Steps
    <3>3. QED
      BY <1>0, <1>7, <3>1, <3>2, FinishType
  <2>6. QED
    BY <2>2, <2>3, <2>4, <2>5, TypesNext
<1>12. CASE HandleJob(p)
  <2>1. hand[p] \in Jobs
    BY <1>0, <1>12 DEF HandleJob, ProcType
  <2>2. handled' \in [Jobs -> Nat]
    BY <1>5, <1>12, <2>1 DEF HandleJob
  <2>3. AddingType' /\ RestType' /\ LateType'
    BY <1>1, <1>2, <1>3, <1>5, <1>12, <2>2 DEF HandleJob
  <2>4. StoreType'
    BY <1>4, <1>5, <1>12 DEF HandleJob
  <2>5. ProcType'
    <3>1. PICK result \in Settled : outcome' = [outcome EXCEPT ![p] = result]
      BY <1>12 DEF HandleJob
    <3>2. Goto(p, "finish") /\ UNCHANGED hand
      BY <1>12 DEF HandleJob
    <3>3. QED
      BY <1>0, <2>1, <3>1, <3>2 DEF ProcType, Goto, Steps
  <2>6. QED
    BY <2>3, <2>4, <2>5, TypesNext
<1>13. CASE FinishJob(p)
  <2>1. hand[p] \in Jobs /\ outcome[p] \in Settled
    BY <1>0, <1>13 DEF FinishJob, ProcType
  <2>2. AddingType' /\ RestType'
    BY <1>1, <1>2, <1>5, <1>13 DEF FinishJob
  <2>3. StoreType'
    <3>1. data' = data \/ data' = [data EXCEPT ![hand[p]] = outcome[p]]
      BY <1>13 DEF FinishJob
    <3>2. data' \in [Jobs -> {None, "waiting", "active"} \cup Settled]
      BY <1>0, <2>1, <3>1 DEF StoreType
    <3>3. filed' = filed
          \/ filed' = [l \in Lists |-> IF l = outcome[p] THEN filed[l] \cup {hand[p]}
                                      ELSE IF l = "active" THEN filed[l] \ {hand[p]}
                                      ELSE filed[l]]
      BY <1>13 DEF FinishJob
    <3>4. filed' \in [Lists -> SUBSET Jobs]
      BY <1>0, <2>1, <3>3 DEF StoreType
    <3>5. UNCHANGED <<wait, defs, lost>>
      BY <1>13 DEF FinishJob
    <3>6. QED
      BY <1>0, <3>2, <3>4, <3>5 DEF StoreType
  <2>4. LateType'
    <3>1. NoFault \/ Unanswered(Sent("file", hand[p], outcome[p], 1))
      BY <1>13 DEF FinishJob
    <3>2. QED
      BY <1>0, <1>3, <2>1, <3>1, UnansweredType, SentTypes
  <2>5. ProcType'
    <3>1. Finish(p) \/ UNCHANGED procVars
      BY <1>13 DEF FinishJob
    <3>2. QED
      BY <1>0, <1>7, <3>1, FinishType
  <2>6. QED
    BY <2>2, <2>3, <2>4, <2>5, TypesNext
<1>14. CASE RescheduleJob(p)
  <2> DEFINE next == RepeatId(hand[p][1], now)
  <2>1. hand[p] \in RepeatIds /\ next \in Ids
    <3>1. hand[p] \in RepeatIds /\ now \in 0..MaxTime
      BY <1>0, <1>14 DEF RescheduleJob, ProcType, RestType
    <3>2. hand[p][1] \in Hashes
      BY <3>1 DEF RepeatIds
    <3>3. QED
      BY <3>1, <3>2, RepeatIdType DEF Ids
  <2>2. /\ Finish(p) /\ UNCHANGED <<filed, data, defs, lost>>
        /\ wait' = wait \/ wait' = Append(wait, next)
        /\ NoFault \/ Fault \/ Unanswered(Sent("add", next, None, 1))
    BY <1>14 DEF RescheduleJob, Queue
  <2>3. AddingType' /\ RestType'
    BY <1>1, <1>2, <1>5, <1>14 DEF RescheduleJob
  <2> HIDE DEF next
  <2>4. StoreType'
    <3>1. wait' \in Seq(Ids)
      BY <1>0, <2>1, <2>2, WaitAppend DEF StoreType
    <3>2. QED
      BY <1>0, <2>2, <3>1 DEF StoreType
  <2>5. LateType'
    BY <1>0, <1>3, <1>8, <2>1, <2>2, UnansweredType, SentTypes
  <2>6. ProcType'
    BY <1>0, <2>2, FinishType
  <2>7. QED
    BY <2>3, <2>4, <2>5, <2>6, TypesNext
<1>15. CASE Shutdown(p) \/ StartUp(p)
  <2>1. AddingType' /\ RestType' /\ StoreType'
    BY <1>1, <1>2, <1>4, <1>5, <1>15 DEF Shutdown, StartUp
  <2>2. LateType'
    BY <1>3, <1>8, <1>15 DEF Shutdown, StartUp
  <2>3. ProcType'
    <3>1. UNCHANGED <<hand, outcome>> /\ (Goto(p, "down") \/ Goto(p, "idle"))
      BY <1>15 DEF Shutdown, StartUp
    <3>2. QED
      BY <1>0, <3>1 DEF ProcType, Goto, Steps
  <2>4. QED
    BY <2>1, <2>2, <2>3, TypesNext
<1>16. CASE Crash(p)
  <2>1. AddingType' /\ RestType'
    BY <1>1, <1>2, <1>5, <1>16 DEF Crash
  <2>2. StoreType'
    BY <1>4, <1>6, <1>16 DEF Crash
  <2>3. LateType'
    <3>1. /\ pc[p] = "activate" => hand[p] \in Jobs
          /\ pc[p] = "finish" => hand[p] \in Jobs /\ outcome[p] \in Settled
      BY <1>0 DEF ProcType
    <3>2. CASE Fault
      BY <1>8, <3>2
    <3>3. CASE pc[p] = "activate" /\ Unanswered(Sent("activate", hand[p], None, 1))
      BY <1>0, <3>1, <3>3, UnansweredType, SentTypes
    <3>4. CASE pc[p] = "finish" /\ Unanswered(Sent("file", hand[p], outcome[p], 1))
      BY <1>0, <3>1, <3>4, UnansweredType, SentTypes
    <3>5. QED
      BY <1>16, <3>2, <3>3, <3>4 DEF Crash
  <2>4. ProcType'
    BY <1>0, <1>16 DEF Crash, ProcType, Steps
  <2>5. QED
    BY <2>1, <2>2, <2>3, <2>4, TypesNext
<1>17. QED
  BY <1>9, <1>10, <1>11, <1>12, <1>13, <1>14, <1>15, <1>16 DEF ProcessQueue

LEMMA ClearType == ASSUME TypeOK, ClearList PROVE TypeOK'
<1>0. StoreType /\ LateType /\ AddingType /\ ProcType /\ RestType
  BY Types
<1>1. clear \in {"idle", "wait", "active", "completed", "failed"} /\ clear # "idle"
  BY <1>0 DEF RestType, ClearSteps, Lists, Settled, ClearList
<1>2. clear \in {"wait"} \cup Lists
  BY <1>1 DEF Lists, Settled
<1>3. clear' \in {"idle", "wait", "active", "completed", "failed"}
  BY <1>1 DEF ClearList
<1>4. UNCHANGED <<now, issued, adding, pc, hand, outcome, handled, readded, reactivated>>
  BY DEF ClearList, procVars, retryVars
<1>5. AddingType' /\ ProcType'
  BY <1>0, <1>4 DEF AddingType, ProcType
<1>6. RestType'
  BY <1>0, <1>3, <1>4 DEF RestType, ClearSteps, Lists, Settled
<1>7. StoreType'
  <2>1. Execute(Del(clear)) \/ UNCHANGED <<storeVars, lost>>
    BY DEF ClearList
  <2>2. CASE UNCHANGED <<storeVars, lost>>
    BY <1>0, <2>2 DEF StoreType, storeVars, listVars
  <2>3. QED
    BY <1>0, <1>2, <2>1, <2>2, DelType
<1>8. LateType'
  <2>1. NoFault \/ Unanswered(Sent("del", None, clear, 1))
    BY DEF ClearList
  <2>2. CASE NoFault
    BY <1>0, <2>2 DEF LateType, NoFault, failVars
  <2>3. QED
    BY <1>0, <1>2, <2>1, <2>2, UnansweredType, SentTypes
<1>9. QED
  BY <1>5, <1>6, <1>7, <1>8, TypesNext

LEMMA QueueTypeStep == TypeOK /\ [Next]_vars => TypeOK'
<1> SUFFICES ASSUME TypeOK, [Next]_vars PROVE TypeOK'
  OBVIOUS
<1>1. CASE Tick \/ StartClear \/ UNCHANGED vars
  <2>1. UNCHANGED <<wait, filed, data, defs, issued, adding, pc, hand, outcome, faults, late,
                    handled, lost, readded, reactivated>>
    BY <1>1 DEF Tick, StartClear, vars, storeVars, listVars, procVars, failVars, histVars, retryVars
  <2>2. now' \in 0..MaxTime
    BY <1>1, QueueAssumption DEF Tick, StartClear, vars, TypeOK
  <2>3. clear' \in ClearSteps
    BY <1>1 DEF Tick, StartClear, vars, TypeOK, ClearSteps
  <2>4. QED
    BY <2>1, <2>2, <2>3 DEF TypeOK
<1>2. QED
  BY <1>1, AddJobType, ProcessorType, ClearType, ArriveType DEF Next

\* The lists, the states and the fields of the processors keep their types; in
\* particular only regular jobs are filed (processQueue), also by commands of
\* connections given up.
THEOREM QueueTypeCorrect == Spec => []TypeOK
BY QueueTypeInit, QueueTypeStep, PTL DEF Spec
-----------------------------------------------------------------------------
\* The invariant, one job at a time.
OnceIn(s, id) == \A i, j \in DOMAIN s : s[i] = id /\ s[j] = id => i = j
JobInv(id) == OnceIn(wait, id) /\ PlaceInv(id) /\ (id \notin reactivated => FileInv(id))

LEMMA ByJob == QueueInv <=> TypeOK /\ \A id \in Jobs : id \notin readded => JobInv(id)
<1>1. ASSUME QueueInv, NEW id \in Jobs, id \notin readded PROVE JobInv(id)
  BY <1>1 DEF QueueInv, HandledOnce, JobInv, OnceIn
<1>2. ASSUME TypeOK, \A id \in Jobs : id \notin readded => JobInv(id) PROVE QueueInv
  <2>1. \A list \in Settled : \A id \in filed[list] : id \in Jobs
    BY <1>2 DEF TypeOK, Lists
  <2>2. FiledByState
    BY <1>2, <2>1 DEF FiledByState, JobInv, FileInv
  <2>3. HandledOnce
    BY <1>2 DEF HandledOnce, JobInv, OnceIn, PlaceInv, Unseen
  <2>4. QED
    BY <1>2, <2>2, <2>3 DEF QueueInv, JobInv
<1>3. QED
  BY <1>1, <1>2 DEF QueueInv

LEMMA ByJobNext == TypeOK' /\ (\A id \in Jobs : id \notin readded' => JobInv(id)') => QueueInv'
<1>1. (TypeOK /\ \A id \in Jobs : id \notin readded => JobInv(id))' => QueueInv'
  BY ByJob, PTL
<1>2. QED
  BY <1>1

\* What is waiting after the wait list has changed.
LEMMA Pushed ==
  ASSUME wait \in Seq(Ids), NEW x \in Ids, wait' = Append(wait, x), NEW id \in Jobs, OnceIn(wait, id)
  PROVE  /\ (id \in Waiting)' <=> id \in Waiting \/ id = x
         /\ x # id \/ id \notin Waiting => OnceIn(wait, id)'
BY WaitAppend DEF Waiting, OnceIn

LEMMA Popped ==
  ASSUME wait \in Seq(Ids), wait # <<>>, wait' = Tail(wait), NEW id \in Jobs, OnceIn(wait, id)
  PROVE  /\ OnceIn(wait, id)' /\ ((id \in Waiting)' => id \in Waiting)
         /\ Head(wait) = id => id \in Waiting /\ ~(id \in Waiting)'
<1>1. /\ 1 \in DOMAIN wait /\ Head(wait) = wait[1]
      /\ \A i \in DOMAIN Tail(wait) : i + 1 \in DOMAIN wait /\ i + 1 # 1 /\ Tail(wait)[i] = wait[i + 1]
      /\ \A i, j \in DOMAIN Tail(wait) : i + 1 = j + 1 => i = j
  BY WaitTail
<1>2. OnceIn(wait, id)'
  BY <1>1 DEF OnceIn
<1>3. Head(wait) = id => id \in Waiting /\ ~(id \in Waiting)'
  BY <1>1 DEF OnceIn, Waiting
<1>4. (id \in Waiting)' => id \in Waiting
  BY <1>1 DEF Waiting
<1>5. QED
  BY <1>2, <1>3, <1>4

\* The wait list is unchanged or empty.
LEMMA WaitShrinks ==
  ASSUME NEW id \in Jobs, OnceIn(wait, id), wait' = wait \/ wait' = <<>>
  PROVE  OnceIn(wait, id)' /\ ((id \in Waiting)' => id \in Waiting)
BY DEF OnceIn, Waiting

\* What a connection given up adds to what is under way.
LEMMA UnansweredLate ==
  ASSUME TypeOK, NEW sent \in SentOK, Unanswered(sent)
  PROVE  /\ faults + 1 \in 1..MaxFaults /\ late[faults + 1] = Nothing
         /\ late'[faults + 1] = sent
         /\ \A n \in 1..MaxFaults : n # faults + 1 => late'[n] = late[n]
<1>1. faults + 1 \in 1..MaxFaults /\ faults + 1 > faults
  BY QueueAssumption DEF TypeOK, Unanswered
<1>2. late' = [late EXCEPT ![faults + 1] = sent] /\ late \in [1..MaxFaults -> SentOK]
  BY DEF Unanswered, TypeOK
<1>3. QED
  BY <1>1, <1>2 DEF TypeOK

\* Connection n changes to or from something about other jobs.
OtherLate(id) ==
  \A n \in 1..MaxFaults : late'[n].id = id => late'[n] = late[n]

LEMMA OtherSent ==
  ASSUME TypeOK, NEW sent \in SentOK, Unanswered(sent), NEW id, sent.id # id
  PROVE  OtherLate(id)
BY UnansweredLate DEF OtherLate

LEMMA OtherFault == ASSUME TypeOK, Fault, NEW id \in Jobs PROVE OtherLate(id)
<1>1. Nothing \in SentOK /\ Nothing.id # id
  BY SentTypes, QueueAssumption DEF Nothing, Sent
<1>2. QED
  BY <1>1, OtherSent DEF Fault

LEMMA OtherGoes ==
  ASSUME TypeOK, NEW n \in 1..MaxFaults, NEW from, NEW c, NEW next, Goes(n, from, c, next),
         NEW id, next.id # id
  PROVE  OtherLate(id)
BY DEF TypeOK, Goes, OtherLate

\* A step after which there is less of the job, and what there is has not
\* changed.
LEMMA JobShrinks ==
  ASSUME NEW id \in Jobs, JobInv(id), OnceIn(wait, id)', (id \in Waiting)' => id \in Waiting,
         handled'[id] = handled[id], data'[id] = data[id], id \in issued' <=> id \in issued,
         id \in reactivated => id \in reactivated',
         \A l \in Lists : id \in filed'[l] => id \in filed[l],
         \A r \in Producers : adding'[r].id = id => adding'[r] = adding[r],
         \A p \in Processors : hand'[p] = id => hand[p] = id /\ pc'[p] = pc[p] /\ outcome'[p] = outcome[p],
         OtherLate(id)
  PROVE  JobInv(id)'
<1>1. \A what : \A n \in Late(what, id)' : n \in Late(what, id) /\ late'[n] = late[n]
  BY DEF Late, OtherLate
<1>2. \A what : Late(what, id) = {} => Late(what, id)' = {}
  BY <1>1
<1>3. Untouched(id) => Untouched(id)'
  BY DEF Untouched
<1>4. Unseen(id) => Unseen(id)'
  BY <1>2, <1>3 DEF Unseen
<1>5. (Held(id)' => Held(id)) /\ (Added(id) => Added(id)')
  BY DEF Held, Added
<1>6. Unpushed(id) => Unpushed(id)'
  BY <1>5 DEF Unpushed
<1>7. PlaceInv(id)'
  <2>1. PlaceInv(id)
    BY DEF JobInv
  <2>2. /\ handled'[id] <= 1
        /\ \A r, s \in Producers : adding'[r].id = id /\ adding'[s].id = id => r = s
        /\ \A p, q \in Processors : hand'[p] = id /\ hand'[q] = id => p = q
        /\ \A m, n \in Late("add", id)' : m = n
    BY <1>1, <2>1 DEF PlaceInv
  <2>3. id \notin issued' =>
          /\ Added(id)' /\ Unpushed(id)' /\ Unseen(id)'
          /\ data'[id] = None /\ Late("add", id)' = {}
    BY <1>2, <1>4, <1>5, <1>6, <2>1 DEF PlaceInv
  <2>4. \A r \in Producers : adding'[r].id = id =>
          /\ data'[id] = None /\ Unseen(id)' /\ Late("add", id)' = {}
          /\ adding'[r].phase # "idle"
          /\ adding'[r].phase = "push" => Unpushed(id)'
    BY <1>2, <1>4, <1>6, <2>1 DEF PlaceInv
  <2>5. \A n \in Late("add", id)' :
          /\ data'[id] = None /\ Unseen(id)'
          /\ late'[n].at = 1 => Unpushed(id)'
    BY <1>1, <1>4, <1>6, <2>1 DEF PlaceInv
  <2>6. (id \in Waiting)' => ~Held(id)' /\ Unseen(id)'
    BY <1>4, <1>5, <2>1 DEF PlaceInv
  <2>7. \A p \in Processors : hand'[p] = id =>
          /\ pc'[p] \in {"get", "activate", "handle", "finish"}
          /\ pc'[p] = "get" => Unseen(id)'
          /\ pc'[p] # "get" => Added(id)' /\ Late("add", id)' = {}
          /\ pc'[p] # "finish" => handled'[id] = 0
    BY <1>2, <1>4, <1>5, <2>1 DEF PlaceInv
  <2>8. QED
    BY <2>2, <2>3, <2>4, <2>5, <2>6, <2>7 DEF PlaceInv
<1>8. ASSUME id \notin reactivated' PROVE FileInv(id)'
  <2>1. FileInv(id)
    BY <1>8 DEF JobInv
  <2>2. \A l \in Settled : id \in filed'[l] => id \in filed[l]
    BY ListNames
  <2>3. /\ handled'[id] = 0 => Late("file", id)' = {} /\ \A l \in Settled : id \notin filed'[l]
        /\ Late("activate", id)' # {} => handled'[id] = 0 /\ ~Held(id)'
    BY <1>2, <1>5, <2>1, <2>2 DEF FileInv
  <2>4. \A p \in Processors : hand'[p] = id /\ pc'[p] = "finish" =>
          /\ handled'[id] > 0
          /\ \A n \in Late("file", id)' : late'[n].to = outcome'[p]
          /\ \A l \in Settled : id \in filed'[l] => l = outcome'[p]
    BY <1>1, <2>1, <2>2 DEF FileInv
  <2>5. \A n \in Late("file", id)' :
          /\ \A m \in Late("file", id)' : late'[m].to = late'[n].to
          /\ \A l \in Settled : id \in filed'[l] => l = late'[n].to
          /\ late'[n].at > 1 => data'[id] = late'[n].to
          /\ late'[n].at > 2 => id \notin filed'["active"]
    BY <1>1, <2>1, <2>2, ListNames DEF FileInv
  <2>6. \A l \in Settled : id \in filed'[l] =>
          data'[id] = l /\ \A k \in Lists \ {l} : id \notin filed'[k]
    BY <2>1, <2>2 DEF FileInv
  <2>7. QED
    BY <2>3, <2>4, <2>5, <2>6 DEF FileInv
<1>9. QED
  BY <1>7, <1>8 DEF JobInv

\* The processors have begun with a job that is not Unseen: nobody adds it, it
\* does not wait, and it stays with the processor that has it, if any.
LEMMA SeenKeeps ==
  ASSUME NEW id \in Jobs, JobInv(id), ~Unseen(id),
         UNCHANGED <<wait, issued, adding, pc, hand, handled>>, Late("add", id)' = Late("add", id)
  PROVE  PlaceInv(id)' /\ OnceIn(wait, id)'
<1>1. PlaceInv(id) /\ OnceIn(wait, id)' /\ ((id \in Waiting)' <=> id \in Waiting)
  BY DEF JobInv, OnceIn, Waiting
<1>2. id \in issued /\ Added(id) /\ Late("add", id) = {} /\ id \notin Waiting
      /\ \A p \in Processors : hand[p] = id => pc[p] # "get"
  BY <1>1 DEF PlaceInv, Added
<1>3. QED
  BY <1>1, <1>2 DEF PlaceInv, Added, Held

\* The state of a job that no pipeline has settled or will settle is of no
\* matter to how it is filed.
LEMMA UnseenKeeps ==
  ASSUME NEW id \in Jobs, JobInv(id), id \notin reactivated, handled[id] = 0,
         UNCHANGED handled, Late("file", id)' = {},
         Late("activate", id)' # {} => ~Held(id)',
         \A l \in Settled : id \in filed'[l] => id \in filed[l],
         \A p \in Processors : hand'[p] = id => pc'[p] # "finish"
  PROVE  FileInv(id)'
<1>1. \A l \in Settled : id \notin filed[l]
  BY DEF JobInv, FileInv
<1>2. QED
  BY <1>1 DEF FileInv

LEMMA GoesTo ==
  ASSUME TypeOK, NEW n \in 1..MaxFaults, NEW from, NEW c, NEW next, Goes(n, from, c, next)
  PROVE  late[n] = from /\ late'[n] = next /\ \A m \in 1..MaxFaults : m # n => late'[m] = late[m]
BY DEF TypeOK, Goes

LEMMA SentFields ==
  /\ Nothing.what = "nothing"
  /\ \A what, id, to, k : LET s == Sent(what, id, to, k)
                          IN s.what = what /\ s.id = id /\ s.to = to /\ s.at = k
BY DEF Nothing, Sent

\* Commands of connections given up, about this job.
LEMMA ArriveAdd ==
  ASSUME TypeOK, NEW id \in Jobs, JobInv(id), NEW n \in 1..MaxFaults,
         UNCHANGED <<issued, adding, pc, hand, outcome, handled, reactivated>>,
         \/ Goes(n, Sent("add", id, None, 1), Push(id), Sent("add", id, None, 2))
         \/ Goes(n, Sent("add", id, None, 2), Set(id, "waiting"), Nothing)
  PROVE  JobInv(id)'
<1>1. PlaceInv(id) /\ late \in [1..MaxFaults -> SentOK] /\ wait \in Seq(Ids) /\ id \in Ids
  BY DEF JobInv, TypeOK, Ids
<1>2. n \in Late("add", id)
  BY DEF Goes, Late, Sent
<1>3. /\ data[id] = None /\ Unseen(id) /\ Added(id) /\ id \in issued
      /\ \A m \in Late("add", id) : m = n
      /\ late[n].at = 1 => Unpushed(id)
  BY <1>1, <1>2 DEF PlaceInv, Added
<1>4. Late("file", id)' = {} /\ Late("activate", id)' = {}
  <2>1. Late("file", id) = {} /\ Late("activate", id) = {}
    BY <1>3 DEF Unseen
  <2>2. late'[n].what \in {"add", "nothing"} /\ \A m \in 1..MaxFaults : m # n => late'[m] = late[m]
    BY GoesTo, SentFields
  <2>3. QED
    BY <2>1, <2>2 DEF Late
<1>5. CASE Goes(n, Sent("add", id, None, 1), Push(id), Sent("add", id, None, 2))
  <2>1. wait' = Append(wait, id) /\ UNCHANGED <<filed, data>>
    BY <1>5, Executed DEF Goes
  <2>2. OnceIn(wait, id)' /\ Unpushed(id)
    <3>1. Unpushed(id)
      BY <1>3, <1>5 DEF Goes, Sent
    <3>2. QED
      BY <1>1, <2>1, <3>1, Pushed DEF Unpushed, JobInv
  <2>3. Untouched(id)' /\ Unseen(id)'
    BY <1>3, <1>4, <2>1 DEF Unseen, Untouched
  <2>4. ~Held(id)' /\ Added(id)'
    BY <1>3, <2>2 DEF Unpushed, Held, Added
  <2>5. late'[n].at = 2 /\ \A m \in Late("add", id)' : m = n
    <3>1. late'[n] = Sent("add", id, None, 2) /\ \A m \in 1..MaxFaults : m # n => late'[m] = late[m]
      BY <1>1, <1>5 DEF Goes
    <3>2. QED
      BY <1>3, <3>1 DEF Late, Sent
  <2>6. PlaceInv(id)'
    <3>1. (\A r \in Producers : adding'[r].id # id) /\ \A p \in Processors : hand'[p] # id
      BY <2>4 DEF Added, Held
    <3>2. handled'[id] <= 1 /\ data'[id] = None /\ id \in issued'
      BY <1>1, <1>3, <2>1 DEF PlaceInv
    <3>3. QED
      BY <2>3, <2>4, <2>5, <3>1, <3>2 DEF PlaceInv
  <2>7. id \notin reactivated' => FileInv(id)'
    BY <1>3, <1>4, <2>1, <2>4, UnseenKeeps DEF Unseen, Untouched, Held
  <2>8. QED
    BY <2>2, <2>6, <2>7 DEF JobInv
<1>6. CASE Goes(n, Sent("add", id, None, 2), Set(id, "waiting"), Nothing)
  <2>1. UNCHANGED <<wait, filed>>
    BY <1>6, Executed DEF Goes
  <2>2. OnceIn(wait, id)' /\ ((id \in Waiting)' <=> id \in Waiting)
    BY <2>1 DEF JobInv, OnceIn, Waiting
  <2>3. Untouched(id)' /\ Unseen(id)'
    BY <1>3, <1>4, <2>1 DEF Unseen, Untouched
  <2>4. Late("add", id)' = {}
    <3>1. late'[n] = Nothing /\ \A m \in 1..MaxFaults : m # n => late'[m] = late[m]
      BY <1>1, <1>6 DEF Goes
    <3>2. QED
      BY <1>3, <3>1 DEF Late, Sent, Nothing
  <2>5. PlaceInv(id)'
    BY <1>1, <1>3, <2>2, <2>3, <2>4 DEF PlaceInv, Added, Held
  <2>6. id \notin reactivated' => FileInv(id)'
    <3>1. \A p \in Processors : hand[p] = id => pc[p] # "finish"
      BY <1>1, <1>2 DEF PlaceInv
    <3>2. QED
      BY <1>3, <1>4, <2>1, <3>1, UnseenKeeps DEF Unseen, Untouched
  <2>7. QED
    BY <2>2, <2>5, <2>6 DEF JobInv
<1>7. QED
  BY <1>5, <1>6

LEMMA ArriveActivate ==
  ASSUME TypeOK, NEW id \in Jobs, JobInv(id), NEW n \in 1..MaxFaults,
         UNCHANGED <<issued, adding, pc, hand, outcome, handled, reactivated>>,
         \/ Goes(n, Sent("activate", id, None, 1), Set(id, "active"), Sent("activate", id, None, 2))
         \/ Goes(n, Sent("activate", id, None, 2), List(id, "active"), Nothing)
  PROVE  JobInv(id)'
<1>1. late \in [1..MaxFaults -> SentOK] /\ filed \in [Lists -> SUBSET Jobs]
  BY DEF TypeOK
<1>2. n \in Late("activate", id)
  BY DEF Goes, Late, Sent
<1>3. /\ late[n].what = "activate" /\ late'[n].what \in {"activate", "nothing"}
      /\ \A m \in 1..MaxFaults : m # n => late'[m] = late[m]
  BY GoesTo, SentFields
<1>4. Late("add", id)' = Late("add", id) /\ Late("file", id)' = Late("file", id)
  BY <1>3 DEF Late
<1>5. UNCHANGED wait /\ \A l \in Settled : id \in filed'[l] => id \in filed[l]
  <2>1. UNCHANGED wait /\ (UNCHANGED filed \/ filed' = [filed EXCEPT !["active"] = @ \cup {id}])
    BY Executed DEF Goes
  <2>2. \A l \in Settled : l # "active" /\ l \in Lists
    BY ListNames DEF Settled
  <2>3. QED
    BY <1>1, <2>1, <2>2
<1>6. PlaceInv(id)' /\ OnceIn(wait, id)'
  <2>1. ~Unseen(id)
    BY <1>2 DEF Unseen
  <2>2. QED
    BY <1>4, <1>5, <2>1, SeenKeeps
<1>7. ASSUME id \notin reactivated' PROVE FileInv(id)'
  <2>1. handled[id] = 0 /\ ~Held(id) /\ Late("file", id) = {}
    BY <1>2, <1>7 DEF JobInv, FileInv
  <2>2. QED
    BY <1>4, <1>5, <1>7, <2>1, UnseenKeeps DEF Held
<1>8. QED
  BY <1>6, <1>7 DEF JobInv

LEMMA ArriveFile ==
  ASSUME TypeOK, NEW id \in Jobs, JobInv(id), NEW n \in 1..MaxFaults, NEW l \in Settled,
         UNCHANGED <<issued, adding, pc, hand, outcome, handled, reactivated>>,
         \/ Goes(n, Sent("file", id, l, 1), Set(id, l), Sent("file", id, l, 2))
         \/ Goes(n, Sent("file", id, l, 2), Unlist(id), Sent("file", id, l, 3))
         \/ Goes(n, Sent("file", id, l, 3), List(id, l), Nothing)
  PROVE  JobInv(id)'
<1>1. /\ late \in [1..MaxFaults -> SentOK] /\ filed \in [Lists -> SUBSET Jobs]
      /\ data \in [Jobs -> {None, "waiting", "active"} \cup Settled] /\ handled \in [Jobs -> Nat]
      /\ l \in Lists /\ l # "active"
  BY ListNames DEF TypeOK, Settled
<1>2. n \in Late("file", id) /\ late[n].to = l
  BY DEF Goes, Late, Sent
<1>3. /\ late[n].what = "file" /\ late'[n].what \in {"file", "nothing"}
      /\ late'[n].what = "file" => late'[n].id = id /\ late'[n].to = l
      /\ \A m \in 1..MaxFaults : m # n => late'[m] = late[m]
  BY GoesTo, SentFields
<1>4. /\ Late("add", id)' = Late("add", id) /\ Late("activate", id)' = Late("activate", id)
      /\ Late("file", id)' \subseteq Late("file", id)
      /\ \A m \in Late("file", id)' : late'[m].to = late[m].to
  BY <1>2, <1>3 DEF Late
<1>5. UNCHANGED wait
  BY Executed DEF Goes
<1>6. PlaceInv(id)' /\ OnceIn(wait, id)'
  <2>1. ~Unseen(id)
    BY <1>2 DEF Unseen
  <2>2. QED
    BY <1>4, <1>5, <2>1, SeenKeeps
<1>7. ASSUME id \notin reactivated' PROVE FileInv(id)'
  <2>1. FileInv(id) /\ handled[id] > 0
    <3>1. FileInv(id) /\ handled[id] # 0
      BY <1>2, <1>7 DEF JobInv, FileInv
    <3>2. QED
      BY <1>1, <3>1
  <2>2. (\A m \in Late("file", id) : late[m].to = l) /\ \A k \in Settled : id \in filed[k] => k = l
    BY <1>2, <2>1 DEF FileInv
  <2>3. /\ Late("activate", id)' = {}
        /\ \A p \in Processors : hand'[p] = id /\ pc'[p] = "finish" => outcome'[p] = l
        /\ \A m \in Late("file", id)' : late'[m].to = l
    BY <1>2, <1>4, <2>1, <2>2 DEF FileInv
  <2>4. /\ \A k \in Settled : id \in filed'[k] => k = l /\ data'[id] = l /\ id \notin filed'["active"]
        /\ \A m \in Late("file", id)' :
             /\ late'[m].at > 1 => data'[id] = l
             /\ late'[m].at > 2 => id \notin filed'["active"]
    <3>1. CASE Goes(n, Sent("file", id, l, 1), Set(id, l), Sent("file", id, l, 2))
      <4>1. UNCHANGED filed /\ data'[id] = l
        BY <1>1, <3>1, Executed DEF Goes
      <4>2. late'[n].at = 2
        BY <1>1, <3>1 DEF Goes, Sent
      <4>3. id \in filed[l] => id \notin filed["active"]
        BY <1>1, <2>1, ListNames DEF FileInv
      <4>4. \A m \in Late("file", id)' : late'[m].at > 2 => late[m].at > 2 /\ m \in Late("file", id)
        BY <1>3, <1>4, <4>2 DEF Late
      <4>5. \A m \in Late("file", id) : late[m].at > 2 => id \notin filed["active"]
        BY <2>1 DEF FileInv
      <4>6. QED
        BY <2>2, <4>1, <4>3, <4>4, <4>5
    <3>2. CASE Goes(n, Sent("file", id, l, 2), Unlist(id), Sent("file", id, l, 3))
      <4>1. UNCHANGED data /\ filed' = [filed EXCEPT !["active"] = @ \ {id}]
        BY <3>2, Executed DEF Goes
      <4>2. id \notin filed'["active"] /\ \A k \in Settled : filed'[k] = filed[k]
        <5>1. \A k \in Settled : k # "active" /\ k \in Lists
          BY ListNames DEF Settled
        <5>2. QED
          BY <1>1, <4>1, <5>1, ListNames
      <4>3. late[n].at = 2 /\ data[id] = l
        <5>1. late[n].at = 2
          BY <3>2 DEF Goes, Sent
        <5>2. QED
          BY <1>2, <2>1, <5>1 DEF FileInv
      <4>4. QED
        BY <2>2, <4>1, <4>2, <4>3
    <3>3. CASE Goes(n, Sent("file", id, l, 3), List(id, l), Nothing)
      <4>1. UNCHANGED data /\ filed' = [filed EXCEPT ![l] = @ \cup {id}]
        BY <3>3, Executed DEF Goes
      <4>2. late[n].at = 3 /\ data[id] = l /\ id \notin filed["active"]
        <5>1. late[n].at = 3
          BY <3>3 DEF Goes, Sent
        <5>2. QED
          BY <1>2, <2>1, <5>1 DEF FileInv
      <4>3. id \notin filed'["active"] /\ \A k \in Lists : k # l => filed'[k] = filed[k]
        BY <1>1, <4>1, <4>2, ListNames
      <4>4. \A k \in Settled : id \in filed'[k] => k = l
        BY <2>2, <4>3, ListNames
      <4>5. QED
        BY <4>1, <4>2, <4>3, <4>4
    <3>4. QED
      BY <3>1, <3>2, <3>3
  <2>5. \A k \in Settled : id \in filed'[k] =>
          data'[id] = k /\ \A other \in Lists \ {k} : id \notin filed'[other]
    <3>1. \A other \in Lists : other = "active" \/ other \in Settled
      BY DEF Lists
    <3>2. QED
      BY <2>4, <3>1
  <2>6. QED
    BY <2>1, <2>3, <2>4, <2>5 DEF FileInv
<1>8. QED
  BY <1>6, <1>7 DEF JobInv

LEMMA ArriveKeeps ==
  ASSUME TypeOK, NEW id \in Jobs, JobInv(id), NEW n \in 1..MaxFaults, Arrive(n)
  PROVE  JobInv(id)'
<1>1. UNCHANGED <<issued, adding, pc, hand, outcome, handled, reactivated>>
  BY DEF Arrive, procVars, retryVars
<1>2. filed \in [Lists -> SUBSET Jobs] /\ wait \in Seq(Ids)
      /\ data \in [Jobs -> {None, "waiting", "active"} \cup Settled]
  BY DEF TypeOK
<1>3. id \in Ids /\ id # None /\ id \notin RepeatIds
  BY QueueAssumption DEF Ids
\* A command about something else.
<1>4. ASSUME NEW from, NEW c, NEW next, Goes(n, from, c, next), next.id # id,
             OnceIn(wait, id)', (id \in Waiting)' => id \in Waiting, data'[id] = data[id],
             \A l \in Lists : id \in filed'[l] => id \in filed[l]
      PROVE  JobInv(id)'
  BY <1>1, <1>4, OtherGoes, JobShrinks
<1>5. Nothing.id # id
  BY <1>3 DEF Nothing, Sent
<1>6. UNCHANGED wait => OnceIn(wait, id)' /\ ((id \in Waiting)' => id \in Waiting)
  BY WaitShrinks DEF JobInv
<1>7. CASE Goes(n, Sent("pop", None, None, 1), Pop, Nothing)
  <2>1. wait # <<>> /\ wait' = Tail(wait) /\ UNCHANGED <<filed, data>>
    BY <1>7, Executed DEF Goes
  <2>2. OnceIn(wait, id)' /\ ((id \in Waiting)' => id \in Waiting)
    BY <1>2, <2>1, Popped DEF JobInv
  <2>3. QED
    BY <1>4, <1>5, <1>7, <2>1, <2>2
<1>8. ASSUME NEW x \in RepeatIds, Goes(n, Sent("define", x, None, 1), Define(x), Nothing)
      PROVE  JobInv(id)'
  <2>1. UNCHANGED <<wait, filed, data>>
    BY <1>8, Executed DEF Goes
  <2>2. QED
    BY <1>4, <1>5, <1>6, <1>8, <2>1
<1>9. ASSUME NEW l \in {"wait"} \cup Lists, Goes(n, Sent("del", None, l, 1), Del(l), Nothing)
      PROVE  JobInv(id)'
  <2>1. /\ UNCHANGED data /\ (wait' = wait \/ wait' = <<>>)
        /\ UNCHANGED filed \/ filed' = [filed EXCEPT ![l] = {}]
    BY <1>9, Executed DEF Goes
  <2>2. OnceIn(wait, id)' /\ ((id \in Waiting)' => id \in Waiting)
    BY <2>1, WaitShrinks DEF JobInv
  <2>3. \A k \in Lists : id \in filed'[k] => id \in filed[k]
    BY <1>2, <2>1
  <2>4. QED
    BY <1>4, <1>5, <1>9, <2>1, <2>2, <2>3
<1>10. ASSUME NEW x \in Ids,
              \/ Goes(n, Sent("add", x, None, 1), Push(x), Sent("add", x, None, 2))
              \/ Goes(n, Sent("add", x, None, 2), Set(x, "waiting"), Nothing)
       PROVE  JobInv(id)'
  <2>1. CASE x = id
    BY <1>1, <1>10, <2>1, ArriveAdd
  <2>2. ASSUME x # id, Goes(n, Sent("add", x, None, 1), Push(x), Sent("add", x, None, 2))
        PROVE  JobInv(id)'
    <3>1. wait' = Append(wait, x) /\ UNCHANGED <<filed, data>>
      BY <2>2, Executed DEF Goes
    <3>2. OnceIn(wait, id)' /\ ((id \in Waiting)' => id \in Waiting)
      BY <1>2, <2>2, <3>1, Pushed DEF JobInv
    <3>3. Sent("add", x, None, 2).id # id
      BY <2>2 DEF Sent
    <3>4. QED
      BY <1>4, <2>2, <3>1, <3>2, <3>3
  <2>3. ASSUME x # id, Goes(n, Sent("add", x, None, 2), Set(x, "waiting"), Nothing)
        PROVE  JobInv(id)'
    <3>1. data' = [j \in Jobs |-> IF j = x THEN "waiting" ELSE data[j]] /\ UNCHANGED <<wait, filed>>
      BY <2>3, Executed DEF Goes
    <3>2. data'[id] = data[id]
      BY <2>3, <3>1
    <3>3. QED
      BY <1>4, <1>5, <1>6, <2>3, <3>1, <3>2
  <2>4. QED
    BY <1>10, <2>1, <2>2, <2>3
<1>11. ASSUME NEW x \in Jobs,
              \/ Goes(n, Sent("activate", x, None, 1), Set(x, "active"), Sent("activate", x, None, 2))
              \/ Goes(n, Sent("activate", x, None, 2), List(x, "active"), Nothing)
       PROVE  JobInv(id)'
  <2>1. CASE x = id
    BY <1>1, <1>11, <2>1, ArriveActivate
  <2>2. ASSUME x # id,
               Goes(n, Sent("activate", x, None, 1), Set(x, "active"), Sent("activate", x, None, 2))
        PROVE  JobInv(id)'
    <3>1. data' = [j \in Jobs |-> IF j = x THEN "active" ELSE data[j]] /\ UNCHANGED <<wait, filed>>
      BY <2>2, Executed DEF Goes
    <3>2. data'[id] = data[id] /\ Sent("activate", x, None, 2).id # id
      BY <2>2, <3>1 DEF Sent
    <3>3. QED
      BY <1>4, <1>6, <2>2, <3>1, <3>2
  <2>3. ASSUME x # id, Goes(n, Sent("activate", x, None, 2), List(x, "active"), Nothing)
        PROVE  JobInv(id)'
    <3>1. filed' = [filed EXCEPT !["active"] = @ \cup {x}] /\ UNCHANGED <<wait, data>>
      BY <2>3, Executed DEF Goes
    <3>2. \A k \in Lists : id \in filed'[k] => id \in filed[k]
      BY <1>2, <2>3, <3>1
    <3>3. QED
      BY <1>4, <1>5, <1>6, <2>3, <3>1, <3>2
  <2>4. QED
    BY <1>11, <2>1, <2>2, <2>3
<1>12. ASSUME NEW x \in Jobs, NEW l \in Settled,
              \/ Goes(n, Sent("file", x, l, 1), Set(x, l), Sent("file", x, l, 2))
              \/ Goes(n, Sent("file", x, l, 2), Unlist(x), Sent("file", x, l, 3))
              \/ Goes(n, Sent("file", x, l, 3), List(x, l), Nothing)
       PROVE  JobInv(id)'
  <2>1. CASE x = id
    BY <1>1, <1>12, <2>1, ArriveFile
  <2>2. ASSUME x # id, Goes(n, Sent("file", x, l, 1), Set(x, l), Sent("file", x, l, 2))
        PROVE  JobInv(id)'
    <3>1. data' = [j \in Jobs |-> IF j = x THEN l ELSE data[j]] /\ UNCHANGED <<wait, filed>>
      BY <2>2, Executed DEF Goes
    <3>2. data'[id] = data[id] /\ Sent("file", x, l, 2).id # id
      BY <2>2, <3>1 DEF Sent
    <3>3. QED
      BY <1>4, <1>6, <2>2, <3>1, <3>2
  <2>3. ASSUME x # id, Goes(n, Sent("file", x, l, 2), Unlist(x), Sent("file", x, l, 3))
        PROVE  JobInv(id)'
    <3>1. filed' = [filed EXCEPT !["active"] = @ \ {x}] /\ UNCHANGED <<wait, data>>
      BY <2>3, Executed DEF Goes
    <3>2. \A k \in Lists : id \in filed'[k] => id \in filed[k]
      BY <1>2, <3>1
    <3>3. Sent("file", x, l, 3).id # id
      BY <2>3 DEF Sent
    <3>4. QED
      BY <1>4, <1>6, <2>3, <3>1, <3>2, <3>3
  <2>4. ASSUME x # id, Goes(n, Sent("file", x, l, 3), List(x, l), Nothing) PROVE JobInv(id)'
    <3>1. filed' = [filed EXCEPT ![l] = @ \cup {x}] /\ UNCHANGED <<wait, data>>
      BY <2>4, Executed DEF Goes
    <3>2. \A k \in Lists : id \in filed'[k] => id \in filed[k]
      BY <1>2, <2>4, <3>1
    <3>3. QED
      BY <1>4, <1>5, <1>6, <2>4, <3>1, <3>2
  <2>5. QED
    BY <1>12, <2>1, <2>2, <2>3, <2>4
<1>13. QED
  <2>1. Arrivals(n)
    BY Arrived
  <2>2. QED
    BY <1>7, <1>8, <1>9, <1>10, <1>11, <1>12, <2>1, Zenon DEF Arrivals
-----------------------------------------------------------------------------
LEMMA AddJobKeeps ==
  ASSUME TypeOK, TypeOK', NEW id \in Jobs, JobInv(id), id \notin readded', NEW r \in Producers, AddJob(r)
  PROVE  JobInv(id)'
<1> USE DEF retryVars, procVars, failVars, storeVars, listVars, NoFault, histVars
<1>1. /\ adding \in [Producers -> [id : Ids \cup {None}, phase : Phases]] /\ wait \in Seq(Ids)
      /\ data \in [Jobs -> {None, "waiting", "active"} \cup Settled]
      /\ late \in [1..MaxFaults -> SentOK]
  BY DEF TypeOK
<1>2. id \notin RepeatIds /\ id # None /\ id \in Ids
  BY QueueAssumption DEF Ids
<1>3. UNCHANGED wait => OnceIn(wait, id)' /\ ((id \in Waiting)' => id \in Waiting)
  BY WaitShrinks DEF JobInv
<1>4. adding[r].id = id =>
        /\ adding[r].phase # "idle" /\ data[id] = None /\ Unseen(id) /\ Late("add", id) = {}
        /\ adding[r].phase = "push" => Unpushed(id)
        /\ id \in issued /\ \A q \in Producers : q # r => adding[q].id # id
  BY DEF JobInv, PlaceInv, Added
<1>5. UNCHANGED failVars => OtherLate(id) /\ \A what : Late(what, id)' = Late(what, id)
  BY DEF OtherLate, Late
\* A step about another job.
<1>6. ASSUME \A q \in Producers : adding'[q].id = id => adding'[q] = adding[q],
             OnceIn(wait, id)', (id \in Waiting)' => id \in Waiting, data'[id] = data[id],
             id \in issued' <=> id \in issued, OtherLate(id),
             UNCHANGED <<filed, procVars, handled, reactivated>>
      PROVE  JobInv(id)'
  BY <1>6, JobShrinks
<1>7. ASSUME NEW j \in Jobs, StartJob(r, j) PROVE JobInv(id)'
  <2>1. /\ adding' = [adding EXCEPT ![r] = [id |-> j, phase |-> "push"]] /\ j \notin issued
        /\ issued' = issued \cup {j} /\ adding[r].id # id
        /\ UNCHANGED <<storeVars, procVars, failVars, histVars>>
    BY <1>4, <1>7 DEF StartJob
  <2>2. CASE j # id
    BY <1>1, <1>3, <1>5, <1>6, <2>1, <2>2
  <2>3. CASE j = id
    <3>1. Added(id) /\ Unpushed(id) /\ Unseen(id) /\ data[id] = None /\ Late("add", id) = {}
      BY <2>1, <2>3 DEF JobInv, PlaceInv
    <3>2. Unpushed(id)' /\ Unseen(id)' /\ Late("add", id)' = {} /\ data'[id] = None /\ id \in issued'
      BY <1>5, <2>1, <2>3, <3>1 DEF Unpushed, Unseen, Untouched, Waiting, Held
    <3>3. \A q \in Producers : adding'[q].id = id => q = r /\ adding'[q].phase = "push"
      BY <1>1, <2>1, <3>1 DEF Added
    <3>4. \A p \in Processors : hand'[p] # id
      BY <3>2 DEF Unpushed, Held
    <3>5. PlaceInv(id)'
      BY <2>1, <3>2, <3>3, <3>4 DEF JobInv, PlaceInv, Unpushed
    <3>6. id \notin reactivated' => FileInv(id)'
      BY <2>1, <3>1, <3>2, <3>4, UnseenKeeps DEF Unseen, Untouched
    <3>7. QED
      BY <1>3, <2>1, <3>5, <3>6 DEF JobInv
  <2>4. QED
    BY <2>2, <2>3
<1>8. ASSUME NEW h \in Hashes, StartRepeat(r, h) PROVE JobInv(id)'
  <2> DEFINE x == RepeatId(h, now)
  <2>1. x \in RepeatIds /\ x # id
    BY <1>2, RepeatIdType DEF TypeOK
  <2>2. /\ adding' = adding \/ adding' = [adding EXCEPT ![r] = [id |-> x, phase |-> "push"]]
        /\ adding[r].id # id /\ UNCHANGED <<procVars, issued, handled, reactivated>>
        /\ \/ UNCHANGED failVars /\ Execute(Define(x))
           \/ Unanswered(Sent("define", x, None, 1)) /\ UNCHANGED <<wait, filed, data>>
    BY <1>4, <1>8 DEF StartRepeat
  <2> HIDE DEF x
  <2>3. UNCHANGED <<wait, filed, data>>
    BY <2>2, Executed
  <2>4. OtherLate(id)
    <3>1. Sent("define", x, None, 1) \in SentOK /\ Sent("define", x, None, 1).id # id
      BY <2>1, SentTypes, SentFields
    <3>2. QED
      BY <1>5, <2>2, <3>1, OtherSent
  <2>5. \A q \in Producers : adding'[q].id = id => adding'[q] = adding[q]
    BY <1>1, <2>1, <2>2
  <2>6. QED
    BY <1>3, <1>6, <2>2, <2>3, <2>4, <2>5
<1>9. ASSUME NEW x, NEW y PROVE <<x, y>>[1] = x /\ <<x, y>>[2] = y
  OBVIOUS
<1>10. CASE PushJob(r)
  <2>1. /\ adding[r].phase = "push" /\ Execute(Push(adding[r].id))
        /\ adding' = [adding EXCEPT ![r].phase = "store"]
        /\ UNCHANGED <<issued, procVars, failVars, handled, reactivated>>
    BY <1>9, <1>10 DEF PushJob, Adding
  <2>2. wait' = Append(wait, adding[r].id) /\ UNCHANGED <<filed, data>> /\ adding[r].id \in Ids
    <3>1. adding[r].id \in Ids
      BY <2>1 DEF TypeOK
    <3>2. QED
      BY <2>1, <3>1, Executed
  <2>3. /\ (id \in Waiting)' <=> id \in Waiting \/ id = adding[r].id
        /\ adding[r].id # id \/ id \notin Waiting => OnceIn(wait, id)'
    BY <1>1, <2>2, Pushed DEF JobInv
  <2>4. adding'[r].id = adding[r].id /\ adding'[r].phase = "store"
        /\ \A q \in Producers : q # r => adding'[q] = adding[q]
    BY <1>1, <2>1
  <2>5. CASE adding[r].id # id
    <3>1. \A q \in Producers : adding'[q].id = id => adding'[q] = adding[q]
      BY <2>4, <2>5
    <3>2. QED
      BY <1>5, <1>6, <2>1, <2>2, <2>3, <2>5, <3>1
  <2>6. CASE adding[r].id = id
    <3>1. Unpushed(id) /\ Unseen(id) /\ OnceIn(wait, id)' /\ \A p \in Processors : hand'[p] # id
      BY <1>4, <2>1, <2>3, <2>6 DEF Unpushed, Held
    <3>2. Unseen(id)' /\ Late("add", id)' = {} /\ data'[id] = None /\ id \in issued'
      BY <1>4, <1>5, <2>1, <2>2, <2>6, <3>1 DEF Unseen, Untouched
    <3>3. PlaceInv(id)'
      BY <1>4, <2>1, <2>4, <2>6, <3>1, <3>2 DEF JobInv, PlaceInv, Held
    <3>4. id \notin reactivated' => FileInv(id)'
      BY <2>1, <2>2, <3>1, <3>2, UnseenKeeps DEF Unseen, Untouched
    <3>5. QED
      BY <3>1, <3>3, <3>4 DEF JobInv
  <2>7. QED
    BY <2>5, <2>6
\* The producer has done with the job.
<1>11. ASSUME EndAdd(r), adding[r].id = id,
              UNCHANGED <<wait, filed, issued, procVars, handled, reactivated>>,
              Late("activate", id)' = {}, Late("file", id)' = {},
              \A m, n \in Late("add", id)' : m = n,
              \A n \in Late("add", id)' :
                data'[id] = None /\ (late'[n].at = 1 => Unpushed(id))
       PROVE  JobInv(id)'
  <2>1. /\ Unseen(id) /\ Unseen(id)' /\ Untouched(id) /\ id \in issued'
        /\ \A p \in Processors : hand'[p] = id => hand[p] = id /\ pc'[p] = "get" /\ pc[p] = "get"
    BY <1>4, <1>11 DEF Unseen, Untouched, JobInv, PlaceInv, Added
  <2>2. \A q \in Producers : adding'[q].id # id
    BY <1>1, <1>2, <1>4, <1>11 DEF EndAdd
  <2>3. OnceIn(wait, id)' /\ ((id \in Waiting)' => id \in Waiting) /\ (Unpushed(id) => Unpushed(id)')
    BY <1>3, <1>11 DEF Unpushed, Held
  <2>4. id \in Waiting => ~Held(id)'
    BY <1>11 DEF JobInv, PlaceInv, Held
  <2>5. PlaceInv(id)'
    BY <1>11, <2>1, <2>2, <2>3, <2>4 DEF JobInv, PlaceInv, Added
  <2>6. id \notin reactivated' => FileInv(id)'
    BY <1>11, <2>1, UnseenKeeps DEF Untouched
  <2>7. QED
    BY <2>3, <2>5, <2>6 DEF JobInv
<1>12. EndAdd(r) /\ adding[r].id # id => \A q \in Producers : adding'[q].id = id => adding'[q] = adding[q]
  BY <1>1, <1>2 DEF EndAdd
<1>13. CASE StoreJob(r)
  <2>1. /\ EndAdd(r) /\ Execute(Set(adding[r].id, "waiting")) /\ UNCHANGED failVars
        /\ UNCHANGED <<issued, procVars, handled, reactivated>>
    BY <1>9, <1>13 DEF StoreJob, Adding
  <2>2. /\ data' = [j \in Jobs |-> IF j = adding[r].id THEN "waiting" ELSE data[j]]
        /\ UNCHANGED <<wait, filed>>
    BY <2>1, Executed
  <2>3. CASE adding[r].id = id
    <3>1. Late("activate", id)' = {} /\ Late("file", id)' = {} /\ Late("add", id)' = {}
      BY <1>4, <1>5, <2>1, <2>3 DEF Unseen
    <3>2. QED
      BY <1>11, <2>1, <2>2, <2>3, <3>1
  <2>4. CASE adding[r].id # id
    <3>1. data'[id] = data[id]
      BY <2>2, <2>4
    <3>2. QED
      BY <1>3, <1>5, <1>6, <1>12, <2>1, <2>2, <2>4, <3>1
  <2>5. QED
    BY <2>3, <2>4
<1>14. CASE ResendAdd(r)
  <2> DEFINE at   == IF adding[r].phase = "push" THEN 1 ELSE 2
             sent == Sent("add", adding[r].id, None, at)
  <2>1. /\ Unanswered(sent) /\ adding[r].phase # "idle"
        /\ UNCHANGED <<storeVars, issued, procVars, handled, reactivated>>
    BY <1>14 DEF ResendAdd
  <2>2. /\ sent \in SentOK /\ sent.id = adding[r].id /\ sent.what = "add"
        /\ sent.at = 1 => adding[r].phase = "push"
    <3>1. adding[r].id \in Ids
      BY <2>1 DEF TypeOK
    <3>2. QED
      BY <3>1, SentTypes, SentFields
  <2>3. \/ EndAdd(r)
        \/ adding' = [adding EXCEPT ![r].phase = "push"] /\ adding[r].id # id
    <3>1. readded' = readded \cup ({adding[r].id} \cap Jobs) => adding[r].id # id
      OBVIOUS
    <3>2. QED
      BY <1>14, <3>1 DEF ResendAdd
  <2> HIDE DEF sent
  <2>4. CASE adding[r].id # id
    <3>1. OtherLate(id)
      BY <2>1, <2>2, <2>4, OtherSent
    <3>2. \A q \in Producers : adding'[q].id = id => adding'[q] = adding[q]
      <4>1. CASE EndAdd(r)
        BY <1>12, <2>4, <4>1
      <4>2. CASE adding' = [adding EXCEPT ![r].phase = "push"]
        <5>1. adding'[r].id = adding[r].id /\ \A q \in Producers : q # r => adding'[q] = adding[q]
          BY <1>1, <4>2
        <5>2. QED
          BY <2>4, <5>1
      <4>3. QED
        BY <2>3, <4>1, <4>2
    <3>3. QED
      BY <1>3, <1>6, <2>1, <3>1, <3>2
  <2>5. CASE adding[r].id = id
    <3>1. /\ faults + 1 \in 1..MaxFaults /\ late'[faults + 1] = sent
          /\ \A n \in 1..MaxFaults : n # faults + 1 => late'[n] = late[n]
      BY <2>1, <2>2, UnansweredLate
    <3>2. Late("activate", id) = {} /\ Late("file", id) = {} /\ Late("add", id) = {}
      BY <1>4, <2>5 DEF Unseen
    <3>3. /\ Late("activate", id)' = {} /\ Late("file", id)' = {}
          /\ \A n \in Late("add", id)' : n = faults + 1
      BY <2>2, <3>1, <3>2 DEF Late
    <3>4. \A n \in Late("add", id)' : data'[id] = None /\ (late'[n].at = 1 => Unpushed(id))
      BY <1>4, <2>1, <2>2, <2>5, <3>1, <3>3
    <3>5. QED
      BY <1>11, <2>1, <2>3, <2>5, <3>3, <3>4
  <2>6. QED
    BY <2>4, <2>5
<1>15. QED
  BY <1>7, <1>8, <1>10, <1>13, <1>14 DEF AddJob

LEMMA ClearKeeps ==
  ASSUME TypeOK, NEW id \in Jobs, JobInv(id), ClearList
  PROVE  JobInv(id)'
<1>1. UNCHANGED <<issued, adding, pc, hand, outcome, handled, reactivated>>
  BY DEF ClearList, procVars, retryVars
<1>2. clear \in {"wait"} \cup Lists
  BY DEF TypeOK, ClearSteps, ClearList
<1>3. /\ UNCHANGED data /\ (wait' = wait \/ wait' = <<>>)
      /\ UNCHANGED filed \/ filed' = [filed EXCEPT ![clear] = {}]
  BY Executed DEF ClearList, storeVars, listVars
<1>4. OnceIn(wait, id)' /\ ((id \in Waiting)' => id \in Waiting)
  BY <1>3, WaitShrinks DEF JobInv
<1>5. \A l \in Lists : id \in filed'[l] => id \in filed[l]
  BY <1>3 DEF TypeOK
<1>6. OtherLate(id)
  <2>1. CASE NoFault
    BY <2>1 DEF NoFault, failVars, OtherLate
  <2>2. CASE Unanswered(Sent("del", None, clear, 1))
    <3>1. Sent("del", None, clear, 1) \in SentOK /\ Sent("del", None, clear, 1).id # id
      BY <1>2, SentTypes, SentFields, QueueAssumption
    <3>2. QED
      BY <2>2, <3>1, OtherSent
  <2>3. QED
    BY <2>1, <2>2 DEF ClearList
<1>7. QED
  BY <1>1, <1>3, <1>4, <1>5, <1>6, JobShrinks
-----------------------------------------------------------------------------
\* Processor p goes on with a job it has marked active or is about to.
LEMMA BusyKeeps ==
  ASSUME TypeOK, NEW id \in Jobs, JobInv(id), NEW p \in Processors, hand[p] = id, pc[p] # "get",
         UNCHANGED <<wait, issued, adding>>, Late("add", id)' = Late("add", id),
         \A q \in Processors : q # p => hand'[q] = hand[q] /\ pc'[q] = pc[q],
         handled'[id] <= 1,
         hand'[p] = id => pc'[p] \in {"activate", "handle", "finish"} /\ (pc'[p] # "finish" => handled'[id] = 0)
  PROVE  PlaceInv(id)' /\ OnceIn(wait, id)'
<1>1. PlaceInv(id) /\ OnceIn(wait, id)' /\ ((id \in Waiting)' <=> id \in Waiting)
  BY DEF JobInv, OnceIn, Waiting
<1>2. /\ id \in issued /\ Added(id) /\ Late("add", id) = {} /\ id \notin Waiting
      /\ \A q \in Processors : q # p => hand[q] # id
  BY <1>1 DEF PlaceInv, Held, Unpushed
<1>3. \A r \in Producers : adding'[r].id # id
  BY <1>2 DEF Added
<1>4. \A q \in Processors : hand'[q] = id => q = p
  BY <1>2
<1>5. Added(id)'
  BY <1>3 DEF Added
<1>6. QED
  BY <1>1, <1>2, <1>3, <1>4, <1>5 DEF PlaceInv

\* What is under way about the job after a connection about it was given up.
LEMMA LateOf ==
  ASSUME TypeOK, NEW sent \in SentOK, Unanswered(sent), NEW id \in Jobs, sent.id = id, NEW what
  PROVE  /\ sent.what # what => Late(what, id)' = Late(what, id)
         /\ \A n \in Late(what, id)' : \/ n \in Late(what, id) /\ late'[n] = late[n]
                                       \/ sent.what = what /\ late'[n] = sent
<1>1. /\ faults + 1 \in 1..MaxFaults /\ late[faults + 1] = Nothing /\ late'[faults + 1] = sent
      /\ \A n \in 1..MaxFaults : n # faults + 1 => late'[n] = late[n]
  BY UnansweredLate
<1>2. late[faults + 1].id # id
  BY <1>1, QueueAssumption DEF Nothing, Sent
<1>3. QED
  BY <1>1, <1>2 DEF Late

\* p has a job to mark active; it does, or its pipeline is under way and the job
\* is given up.
LEMMA ActivateKeeps ==
  ASSUME TypeOK, NEW id \in Jobs, JobInv(id), NEW p \in Processors, hand[p] = id, pc[p] = "activate",
         UNCHANGED <<wait, issued, adding, handled>>,
         \A l \in Settled : id \in filed'[l] => id \in filed[l],
         \A q \in Processors : q # p => hand'[q] = hand[q] /\ pc'[q] = pc[q],
         hand'[p] = id => pc'[p] \in {"activate", "handle"},
         id \in reactivated => id \in reactivated',
         \/ UNCHANGED failVars
         \/ /\ Unanswered(Sent("activate", id, None, 1))
            /\ hand'[p] = id => id \in reactivated'
  PROVE  JobInv(id)'
<1>1. handled[id] = 0 /\ PlaceInv(id) /\ \A q \in Processors : q # p => hand[q] # id
  BY DEF JobInv, PlaceInv
<1>2. Late("add", id)' = Late("add", id) /\ Late("file", id)' = Late("file", id)
  <2>1. CASE UNCHANGED failVars
    BY <2>1 DEF Late, failVars
  <2>2. CASE Unanswered(Sent("activate", id, None, 1))
    <3> DEFINE sent == Sent("activate", id, None, 1)
    <3>1. sent \in SentOK /\ sent.what = "activate" /\ sent.id = id /\ Unanswered(sent)
      BY <2>2, SentTypes, SentFields
    <3> HIDE DEF sent
    <3>2. QED
      BY <3>1, LateOf
  <2>3. QED
    BY <2>1, <2>2
<1>3. PlaceInv(id)' /\ OnceIn(wait, id)'
  BY <1>1, <1>2, BusyKeeps
<1>4. ASSUME id \notin reactivated', id \notin reactivated PROVE FileInv(id)'
  <2>1. Late("activate", id) = {} /\ Late("file", id) = {}
    BY <1>1, <1>4 DEF JobInv, FileInv, Held
  <2>2. Late("activate", id)' # {} => ~Held(id)'
    <3>1. CASE UNCHANGED failVars
      BY <2>1, <3>1 DEF Late, failVars
    <3>2. CASE hand'[p] # id
      BY <1>1, <3>2 DEF Held
    <3>3. QED
      BY <1>4, <3>1, <3>2
  <2>3. \A q \in Processors : hand'[q] = id => pc'[q] # "finish"
    BY <1>1
  <2>4. QED
    BY <1>1, <1>2, <1>4, <2>1, <2>2, <2>3, UnseenKeeps
<1>5. QED
  BY <1>3, <1>4 DEF JobInv

\* p has handled the job; its pipeline that files it is under way, and p sends
\* it again or has done with the job.
LEMMA FilingKeeps ==
  ASSUME TypeOK, NEW id \in Jobs, JobInv(id), NEW p \in Processors, hand[p] = id, pc[p] = "finish",
         UNCHANGED <<wait, issued, adding, handled, data, filed, reactivated>>,
         \A q \in Processors : q # p => hand'[q] = hand[q] /\ pc'[q] = pc[q] /\ outcome'[q] = outcome[q],
         hand'[p] = id => pc'[p] = "finish" /\ outcome'[p] = outcome[p],
         Unanswered(Sent("file", id, outcome[p], 1))
  PROVE  JobInv(id)'
<1> DEFINE sent == Sent("file", id, outcome[p], 1)
<1>1. /\ PlaceInv(id) /\ \A q \in Processors : q # p => hand[q] # id
      /\ outcome[p] \in Settled /\ handled[id] <= 1
  BY DEF JobInv, PlaceInv, TypeOK
<1>2. /\ sent \in SentOK /\ sent.what = "file" /\ sent.id = id /\ sent.to = outcome[p] /\ sent.at = 1
      /\ Unanswered(sent)
  BY <1>1, SentTypes, SentFields
<1> HIDE DEF sent
<1>3. Late("add", id)' = Late("add", id) /\ Late("activate", id)' = Late("activate", id)
  BY <1>2, LateOf
<1>4. PlaceInv(id)' /\ OnceIn(wait, id)'
  BY <1>1, <1>3, BusyKeeps
<1>5. ASSUME id \notin reactivated' PROVE FileInv(id)'
  <2>1. /\ FileInv(id) /\ handled[id] > 0 /\ Late("activate", id) = {}
        /\ \A n \in Late("file", id) : late[n].to = outcome[p]
        /\ \A l \in Settled : id \in filed[l] => l = outcome[p]
    BY <1>5 DEF JobInv, FileInv, Held
  <2>2. \A n \in Late("file", id)' :
          /\ late'[n].to = outcome[p]
          /\ late'[n] = sent \/ (n \in Late("file", id) /\ late'[n] = late[n])
    <3>1. \A n \in Late("file", id)' : late'[n] = sent \/ (n \in Late("file", id) /\ late'[n] = late[n])
      BY <1>2, LateOf
    <3>2. QED
      BY <1>2, <2>1, <3>1
  <2>3. \A n \in Late("file", id) :
          /\ late[n].at > 1 => data[id] = outcome[p]
          /\ late[n].at > 2 => id \notin filed["active"]
    BY <2>1 DEF FileInv
  <2>4. \A n \in Late("file", id)' :
          /\ late'[n].at > 1 => data'[id] = outcome[p]
          /\ late'[n].at > 2 => id \notin filed'["active"]
    BY <1>2, <2>2, <2>3
  <2>5. \A q \in Processors : hand'[q] = id => q = p /\ outcome'[q] = outcome[p]
    BY <1>1
  <2>6. \A l \in Settled : id \in filed'[l] => data'[id] = l /\ \A k \in Lists \ {l} : id \notin filed'[k]
    BY <2>1 DEF FileInv
  <2>7. QED
    BY <1>3, <2>1, <2>2, <2>4, <2>5, <2>6 DEF FileInv
<1>6. QED
  BY <1>4, <1>5 DEF JobInv

LEMMA ProcessorKeeps ==
  ASSUME TypeOK, NEW id \in Jobs, JobInv(id), id \notin readded', NEW p \in Processors,
         ProcessQueue(p) \/ Shutdown(p) \/ StartUp(p) \/ Crash(p)
  PROVE  JobInv(id)'
<1> USE DEF retryVars, procVars, storeVars, listVars, NoFault, histVars
<1>1. /\ pc \in [Processors -> Steps] /\ hand \in [Processors -> Ids \cup {None}] /\ wait \in Seq(Ids)
      /\ outcome \in [Processors -> Settled \cup {None}]
      /\ data \in [Jobs -> {None, "waiting", "active"} \cup Settled]
      /\ filed \in [Lists -> SUBSET Jobs] /\ handled \in [Jobs -> Nat]
      /\ late \in [1..MaxFaults -> SentOK]
  BY DEF TypeOK
<1>2. id \notin RepeatIds /\ id # None /\ id \in Ids
  BY QueueAssumption DEF Ids
<1>3. UNCHANGED wait => OnceIn(wait, id)' /\ ((id \in Waiting)' => id \in Waiting)
  BY WaitShrinks DEF JobInv
<1>4. UNCHANGED failVars => OtherLate(id) /\ \A what : Late(what, id)' = Late(what, id)
  BY DEF OtherLate, Late, failVars
<1>5. Fault => OtherLate(id)
  BY OtherFault
\* A step about another job, or one that only takes the job out of p's hand.
<1>6. ASSUME hand'[p] # id, UNCHANGED <<issued, adding>>,
             \A q \in Processors : q # p => hand'[q] = hand[q] /\ pc'[q] = pc[q] /\ outcome'[q] = outcome[q],
             handled'[id] = handled[id], data'[id] = data[id], id \in reactivated => id \in reactivated',
             \A l \in Lists : id \in filed'[l] => id \in filed[l],
             OnceIn(wait, id)', (id \in Waiting)' => id \in Waiting, OtherLate(id)
      PROVE  JobInv(id)'
  <2>1. \A q \in Processors : hand'[q] = id => hand[q] = id /\ pc'[q] = pc[q] /\ outcome'[q] = outcome[q]
    BY <1>6
  <2>2. QED
    BY <1>6, <2>1, JobShrinks
<1>7. ASSUME Finish(p)
      PROVE  /\ hand' = [hand EXCEPT ![p] = None] /\ hand'[p] # id
             /\ \A q \in Processors : q # p => hand'[q] = hand[q] /\ pc'[q] = pc[q] /\ outcome'[q] = outcome[q]
  BY <1>1, <1>2, <1>7 DEF Finish, Goto
<1>8. CASE PopJob(p)
  <2>1. hand[p] # id /\ UNCHANGED <<filed, data, issued, adding, handled, outcome, reactivated>>
    BY <1>8 DEF PopJob, JobInv, PlaceInv
  <2>2. CASE UNCHANGED failVars /\ wait # <<>> /\ wait' = Tail(wait)
             /\ hand' = [hand EXCEPT ![p] = Head(wait)] /\ Goto(p, "get")
    <3>1. /\ OnceIn(wait, id)' /\ ((id \in Waiting)' => id \in Waiting)
          /\ Head(wait) = id => id \in Waiting /\ ~(id \in Waiting)'
      BY <1>1, <2>2, Popped DEF JobInv
    <3>2. hand'[p] = Head(wait) /\ pc'[p] = "get"
          /\ \A q \in Processors : q # p => hand'[q] = hand[q] /\ pc'[q] = pc[q]
      BY <1>1, <2>2 DEF Goto
    <3>3. CASE Head(wait) # id
      BY <1>4, <1>6, <2>1, <2>2, <3>1, <3>2, <3>3
    <3>4. CASE Head(wait) = id
      <4>1. PlaceInv(id) /\ id \in Waiting /\ ~Held(id) /\ Unseen(id) /\ id \in issued
        BY <3>1, <3>4 DEF JobInv, PlaceInv, Unpushed
      <4>2. \A q \in Processors : hand'[q] = id => q = p /\ pc'[q] = "get"
        BY <3>2, <4>1 DEF Held
      <4>3. Unseen(id)' /\ Late("add", id)' = Late("add", id) /\ handled[id] = 0
        BY <1>4, <2>1, <2>2, <4>1 DEF Unseen, Untouched
      <4>4. \A r \in Producers : adding[r].id = id => adding[r].phase # "push"
        BY <4>1 DEF PlaceInv, Unpushed
      <4>5. \A n \in Late("add", id)' : late'[n].at # 1 /\ late'[n] = late[n]
        BY <2>2, <4>1, <4>3 DEF PlaceInv, Unpushed, failVars
      <4>6. PlaceInv(id)'
        BY <2>1, <3>1, <3>4, <4>1, <4>2, <4>3, <4>4, <4>5 DEF PlaceInv
      <4>7. id \notin reactivated' => FileInv(id)'
        BY <2>1, <4>2, <4>3, UnseenKeeps DEF Unseen, Untouched
      <4>8. QED
        BY <3>1, <4>6, <4>7 DEF JobInv
    <3>5. QED
      BY <3>3, <3>4
  <2>3. CASE Unanswered(Sent("pop", None, None, 1)) /\ UNCHANGED <<wait, pc, hand>>
    <3>1. OtherLate(id)
      BY <1>2, <2>3, OtherSent, SentTypes, SentFields
    <3>2. QED
      BY <1>3, <1>6, <2>1, <2>3, <3>1
  <2>4. QED
    BY <1>8, <2>2, <2>3 DEF PopJob, failVars
<1>9. CASE GetJob(p)
  <2>1. UNCHANGED <<wait, filed, data, issued, adding, handled, reactivated>> /\ pc[p] = "get"
        /\ OtherLate(id)
    BY <1>4, <1>5, <1>9 DEF GetJob
  <2>2. CASE Finish(p)
    BY <1>3, <1>6, <1>7, <2>1, <2>2
  <2>3. CASE ~Finish(p)
    <3>1. /\ Found(hand[p]) /\ UNCHANGED <<hand, outcome, failVars>>
          /\ pc' = [pc EXCEPT ![p] = IF IsRepeat(hand[p]) THEN "repeat" ELSE "activate"]
      BY <1>9, <2>3 DEF GetJob, Goto, failVars
    <3>2. \A q \in Processors : q # p => pc'[q] = pc[q]
      BY <3>1
    <3>3. CASE hand[p] # id
      BY <1>3, <1>6, <2>1, <3>1, <3>2, <3>3
    <3>4. CASE hand[p] = id
      <4>1. pc'[p] = "activate" /\ data[id] # None
        BY <1>1, <1>2, <3>1, <3>4 DEF IsRepeat, Found
      <4>2. /\ PlaceInv(id) /\ Added(id) /\ Late("add", id) = {} /\ Unseen(id) /\ id \notin Waiting
            /\ id \in issued /\ \A q \in Processors : q # p => hand[q] # id
        BY <2>1, <3>4, <4>1 DEF JobInv, PlaceInv, Added, Held, Unpushed
      <4>3. Unseen(id)' /\ Late("add", id)' = {} /\ handled[id] = 0 /\ ~(id \in Waiting)'
        BY <1>3, <1>4, <2>1, <3>1, <4>2 DEF Unseen, Untouched
      <4>4. PlaceInv(id)'
        BY <2>1, <3>1, <4>1, <4>2, <4>3 DEF PlaceInv, Added
      <4>5. id \notin reactivated' => FileInv(id)'
        BY <2>1, <3>1, <4>1, <4>2, <4>3, UnseenKeeps DEF Unseen, Untouched
      <4>6. QED
        BY <1>3, <2>1, <4>4, <4>5 DEF JobInv
    <3>5. QED
      BY <3>3, <3>4
  <2>4. QED
    BY <2>2, <2>3
<1>10. CASE ActivateJob(p)
  <2>1. /\ UNCHANGED <<wait, issued, adding, handled>> /\ pc[p] = "activate" /\ hand[p] \in Jobs
        /\ id \in reactivated => id \in reactivated'
    BY <1>10 DEF ActivateJob, TypeOK
  <2>2. data' = data \/ data' = [data EXCEPT ![hand[p]] = "active"]
    BY <1>10 DEF ActivateJob
  <2>3. filed' = filed \/ filed' = [filed EXCEPT !["active"] = @ \cup {hand[p]}]
    BY <1>10 DEF ActivateJob
  <2>4. Finish(p) \/ (UNCHANGED <<hand, outcome>> /\ (UNCHANGED pc \/ Goto(p, "handle")))
    BY <1>10 DEF ActivateJob
  <2>5. /\ \A q \in Processors : q # p => hand'[q] = hand[q] /\ pc'[q] = pc[q] /\ outcome'[q] = outcome[q]
        /\ hand'[p] # id \/ (hand'[p] = hand[p] /\ pc'[p] \in {"activate", "handle"})
    BY <1>1, <1>7, <2>1, <2>4 DEF Goto
  <2>6. UNCHANGED failVars \/ Unanswered(Sent("activate", hand[p], None, 1))
    BY <1>10 DEF ActivateJob
  <2>7. CASE hand[p] # id
    <3>1. data'[id] = data[id] /\ \A l \in Lists : id \in filed'[l] => id \in filed[l]
      BY <1>1, <2>2, <2>3, <2>7
    <3>2. OtherLate(id)
      BY <1>4, <2>1, <2>6, <2>7, OtherSent, SentTypes, SentFields
    <3>3. QED
      BY <1>3, <1>6, <2>1, <2>5, <2>7, <3>1, <3>2
  <2>8. CASE hand[p] = id
    <3>1. \A l \in Settled : id \in filed'[l] => id \in filed[l]
      <4>1. \A l \in Settled : l # "active" /\ l \in Lists
        BY ListNames DEF Settled
      <4>2. QED
        BY <1>1, <2>3, <4>1
    <3>2. hand'[p] = id => pc'[p] \in {"activate", "handle"}
      BY <2>5
    <3>3. \/ UNCHANGED failVars
          \/ /\ Unanswered(Sent("activate", id, None, 1))
             /\ hand'[p] = id => id \in reactivated'
      <4>1. Finish(p) => hand'[p] # id
        BY <1>7
      <4>2. UNCHANGED failVars \/ Finish(p) \/ id \in reactivated'
        BY <1>10, <2>8 DEF ActivateJob
      <4>3. QED
        BY <2>6, <2>8, <4>1, <4>2
    <3>4. QED
      BY <2>1, <2>5, <2>8, <3>1, <3>2, <3>3, ActivateKeeps
  <2>9. QED
    BY <2>7, <2>8
<1>11. CASE HandleJob(p)
  <2>1. /\ UNCHANGED <<wait, filed, data, issued, adding, hand, failVars, reactivated>> /\ pc[p] = "handle"
        /\ hand[p] \in Jobs /\ handled' = [handled EXCEPT ![hand[p]] = @ + 1]
        /\ pc'[p] = "finish" /\ \A q \in Processors : q # p => pc'[q] = pc[q] /\ outcome'[q] = outcome[q]
    BY <1>1, <1>11 DEF HandleJob, Goto, TypeOK
  <2>2. CASE hand[p] # id
    <3>1. handled'[id] = handled[id]
      BY <1>1, <2>1, <2>2
    <3>2. QED
      BY <1>3, <1>4, <1>6, <2>1, <2>2, <3>1
  <2>3. CASE hand[p] = id
    <3>1. handled[id] = 0 /\ handled'[id] = 1
      <4>1. handled[id] = 0
        BY <2>1, <2>3 DEF JobInv, PlaceInv
      <4>2. QED
        BY <1>1, <2>1, <2>3, <4>1
    <3>2. PlaceInv(id)' /\ OnceIn(wait, id)'
      BY <1>4, <2>1, <2>3, <3>1, BusyKeeps
    <3>3. ASSUME id \notin reactivated' PROVE FileInv(id)'
      <4>1. /\ Late("activate", id) = {} /\ Late("file", id) = {} /\ \A l \in Settled : id \notin filed[l]
        BY <2>1, <2>3, <3>1, <3>3 DEF JobInv, FileInv, Held
      <4>2. /\ Late("activate", id)' = {} /\ Late("file", id)' = {} /\ \A l \in Settled : id \notin filed'[l]
        BY <1>4, <2>1, <4>1
      <4>3. QED
        BY <3>1, <4>2 DEF FileInv
    <3>4. QED
      BY <3>2, <3>3 DEF JobInv
  <2>4. QED
    BY <2>2, <2>3
<1>12. CASE FinishJob(p)
  <2>1. /\ UNCHANGED <<wait, issued, adding, handled, reactivated>> /\ pc[p] = "finish"
        /\ hand[p] \in Jobs /\ outcome[p] \in Settled
    BY <1>12 DEF FinishJob, TypeOK
  <2>2. Finish(p) \/ UNCHANGED procVars
    BY <1>12 DEF FinishJob
  <2>3. /\ \A q \in Processors : q # p => hand'[q] = hand[q] /\ pc'[q] = pc[q] /\ outcome'[q] = outcome[q]
        /\ hand'[p] # id \/ (hand'[p] = hand[p] /\ pc'[p] = "finish" /\ outcome'[p] = outcome[p])
    BY <1>7, <2>1, <2>2
  <2>4. ASSUME UNCHANGED failVars,
               data' = [data EXCEPT ![hand[p]] = outcome[p]],
               filed' = [list \in Lists |-> IF list = outcome[p] THEN filed[list] \cup {hand[p]}
                                           ELSE IF list = "active" THEN filed[list] \ {hand[p]}
                                           ELSE filed[list]],
               Finish(p)
        PROVE  JobInv(id)'
    <3>1. CASE hand[p] # id
      <4>1. data'[id] = data[id] /\ \A l \in Lists : id \in filed'[l] => id \in filed[l]
        BY <1>1, <2>1, <2>4, <3>1
      <4>2. QED
        BY <1>3, <1>4, <1>6, <1>7, <2>1, <2>4, <4>1
    <3>2. CASE hand[p] = id
      <4>1. PlaceInv(id) /\ \A q \in Processors : q # p => hand[q] # id
        BY <3>2 DEF JobInv, PlaceInv
      <4>2. ~Held(id)'
        BY <1>7, <2>4, <4>1 DEF Held
      <4>3. PlaceInv(id)' /\ OnceIn(wait, id)'
        <5>1. handled[id] <= 1
          BY <4>1 DEF PlaceInv
        <5>2. QED
          BY <1>4, <1>7, <2>1, <2>4, <3>2, <5>1, BusyKeeps
      <4>4. ASSUME id \notin reactivated' PROVE FileInv(id)'
        <5>1. /\ FileInv(id) /\ handled[id] > 0 /\ Late("activate", id) = {}
              /\ \A n \in Late("file", id) : late[n].to = outcome[p]
              /\ \A l \in Settled : id \in filed[l] => l = outcome[p]
          BY <2>1, <3>2, <4>4 DEF JobInv, FileInv, Held
        <5>2. outcome[p] # "active" /\ outcome[p] \in Lists
          BY <2>1, ListNames DEF Settled
        <5>3. data'[id] = outcome[p]
          BY <1>1, <2>4, <3>2
        <5>4. \A l \in Lists : id \in filed'[l] => l = outcome[p]
          <6>1. \A l \in Lists : l = "active" \/ l \in Settled
            BY DEF Lists
          <6>2. QED
            BY <1>1, <2>4, <3>2, <5>1, <6>1
        <5>5. /\ Late("activate", id)' = {} /\ Late("file", id)' = Late("file", id)
              /\ \A n \in Late("file", id) : late'[n].to = outcome[p]
          BY <1>4, <2>4, <5>1 DEF failVars
        <5>6. \A q \in Processors : hand'[q] # id
          BY <4>2 DEF Held
        <5>7. /\ \A l \in Settled : id \in filed'[l] => l = outcome[p]
              /\ id \notin filed'["active"] /\ handled'[id] > 0
          BY <2>1, <5>1, <5>2, <5>4, ListNames
        <5>8. \A l \in Settled : id \in filed'[l] =>
                data'[id] = l /\ \A k \in Lists \ {l} : id \notin filed'[k]
          BY <5>3, <5>4, ListNames
        <5>9. QED
          BY <5>3, <5>5, <5>6, <5>7, <5>8 DEF FileInv
      <4>5. QED
        BY <4>3, <4>4 DEF JobInv
    <3>3. QED
      BY <3>1, <3>2
  <2>5. ASSUME Unanswered(Sent("file", hand[p], outcome[p], 1)), UNCHANGED <<data, filed>>
        PROVE  JobInv(id)'
    <3>1. CASE hand[p] # id
      <4>1. OtherLate(id)
        BY <2>1, <2>5, <3>1, OtherSent, SentTypes, SentFields
      <4>2. QED
        BY <1>3, <1>6, <2>1, <2>3, <2>5, <3>1, <4>1
    <3>2. CASE hand[p] = id
      BY <2>1, <2>3, <2>5, <3>2, FilingKeeps
    <3>3. QED
      BY <3>1, <3>2
  <2>6. QED
    BY <1>12, <2>4, <2>5 DEF FinishJob
<1>13. CASE RescheduleJob(p)
  <2> DEFINE next == RepeatId(hand[p][1], now)
  <2>1. hand[p] \in RepeatIds /\ next \in RepeatIds
    <3>1. hand[p] \in RepeatIds /\ now \in 0..MaxTime
      BY <1>13 DEF RescheduleJob, TypeOK
    <3>2. hand[p][1] \in Hashes
      BY <3>1 DEF RepeatIds
    <3>3. QED
      BY <3>1, <3>2, RepeatIdType
  <2>2. /\ wait' = wait \/ wait' = Append(wait, next)
        /\ Finish(p) /\ UNCHANGED <<filed, data, issued, adding, handled, reactivated>>
        /\ UNCHANGED failVars \/ Fault \/ Unanswered(Sent("add", next, None, 1))
    BY <1>13 DEF RescheduleJob, Queue
  <2>3. next \in Ids /\ next # id /\ hand[p] # id
    BY <1>2, <2>1 DEF Ids
  <2> HIDE DEF next
  <2>4. OnceIn(wait, id)' /\ ((id \in Waiting)' => id \in Waiting)
    <3>1. CASE wait' = wait
      BY <1>3, <3>1
    <3>2. CASE wait' = Append(wait, next)
      BY <1>1, <2>3, <3>2, Pushed DEF JobInv
    <3>3. QED
      BY <2>2, <3>1, <3>2
  <2>5. OtherLate(id)
    BY <1>4, <1>5, <2>2, <2>3, OtherSent, SentTypes, SentFields
  <2>6. QED
    BY <1>6, <1>7, <2>2, <2>4, <2>5
<1>14. CASE Shutdown(p) \/ StartUp(p)
  <2>1. /\ hand[p] # id /\ UNCHANGED <<wait, filed, data, issued, adding, hand, outcome, handled, reactivated>>
        /\ \A q \in Processors : q # p => pc'[q] = pc[q]
    BY <1>1, <1>14 DEF Shutdown, StartUp, Goto, JobInv, PlaceInv
  <2>2. OtherLate(id)
    BY <1>4, <1>5, <1>14 DEF Shutdown, StartUp
  <2>3. QED
    BY <1>3, <1>6, <2>1, <2>2
<1>15. CASE Crash(p)
  <2>1. /\ UNCHANGED <<wait, filed, data, issued, adding, handled, reactivated>> /\ hand'[p] = None
        /\ \A q \in Processors : q # p => hand'[q] = hand[q] /\ pc'[q] = pc[q] /\ outcome'[q] = outcome[q]
    BY <1>1, <1>15 DEF Crash
  <2>2. ASSUME OtherLate(id) PROVE JobInv(id)'
    BY <1>2, <1>3, <1>6, <2>1, <2>2
  <2>3. CASE Fault
    BY <1>5, <2>2, <2>3
  <2>4. CASE pc[p] = "activate" /\ Unanswered(Sent("activate", hand[p], None, 1))
    <3>1. hand[p] \in Jobs
      BY <2>4 DEF TypeOK
    <3>2. CASE hand[p] # id
      BY <2>2, <2>4, <3>1, <3>2, OtherSent, SentTypes, SentFields
    <3>3. CASE hand[p] = id
      BY <1>2, <2>1, <2>4, <3>3, ActivateKeeps
    <3>4. QED
      BY <3>2, <3>3
  <2>5. CASE pc[p] = "finish" /\ Unanswered(Sent("file", hand[p], outcome[p], 1))
    <3>1. hand[p] \in Jobs /\ outcome[p] \in Settled
      BY <2>5 DEF TypeOK
    <3>2. CASE hand[p] # id
      BY <2>2, <2>5, <3>1, <3>2, OtherSent, SentTypes, SentFields
    <3>3. CASE hand[p] = id
      BY <1>2, <2>1, <2>5, <3>3, FilingKeeps
    <3>4. QED
      BY <3>2, <3>3
  <2>6. QED
    BY <1>15, <2>3, <2>4, <2>5 DEF Crash
<1>16. QED
  BY <1>8, <1>9, <1>10, <1>11, <1>12, <1>13, <1>14, <1>15 DEF ProcessQueue
-----------------------------------------------------------------------------
LEMMA QueueInit == Init => QueueInv
<1> SUFFICES ASSUME Init PROVE QueueInv
  OBVIOUS
<1>1. \A id \in Jobs : JobInv(id)
  <2> SUFFICES ASSUME NEW id \in Jobs PROVE JobInv(id)
    OBVIOUS
  <2>1. (\A r \in Producers : adding[r].id # id) /\ \A p \in Processors : hand[p] # id
    BY QueueAssumption DEF Init
  <2>2. OnceIn(wait, id) /\ id \notin Waiting /\ Added(id) /\ ~Held(id)
    BY <2>1 DEF Init, OnceIn, Waiting, Added, Held
  <2>3. \A what : Late(what, id) = {}
    BY QueueAssumption DEF Init, Late, Nothing, Sent
  <2>4. /\ handled[id] = 0 /\ data[id] = None /\ Unseen(id) /\ \A l \in Lists : id \notin filed[l]
    BY <2>3 DEF Init, Unseen, Untouched
  <2>5. PlaceInv(id)
    BY <2>1, <2>2, <2>3, <2>4 DEF PlaceInv, Unpushed
  <2>6. FileInv(id)
    BY <2>1, <2>3, <2>4, ListNames DEF FileInv
  <2>7. QED
    BY <2>2, <2>5, <2>6 DEF JobInv
<1>2. QED
  BY <1>1, ByJob, QueueTypeInit

LEMMA QueueStep == QueueInv /\ [Next]_vars => QueueInv'
<1> SUFFICES ASSUME QueueInv, [Next]_vars PROVE QueueInv'
  OBVIOUS
<1>1. TypeOK /\ TypeOK' /\ \A id \in Jobs : id \notin readded => JobInv(id)
  BY ByJob, QueueTypeStep
<1>2. readded \subseteq readded'
  <2>1. CASE Tick \/ StartClear \/ ClearList \/ UNCHANGED vars
    BY <2>1 DEF Tick, StartClear, ClearList, vars, histVars, retryVars
  <2>2. ASSUME NEW r \in Producers, AddJob(r) PROVE readded \subseteq readded'
    BY <2>2 DEF AddJob, StartJob, StartRepeat, PushJob, StoreJob, ResendAdd, histVars, retryVars
  <2>3. ASSUME NEW p \in Processors, ProcessQueue(p) \/ Shutdown(p) \/ Crash(p) \/ StartUp(p)
        PROVE  readded \subseteq readded'
    BY <2>3 DEF ProcessQueue, PopJob, GetJob, ActivateJob, HandleJob, FinishJob, RescheduleJob,
                Shutdown, Crash, StartUp, histVars, retryVars
  <2>4. ASSUME NEW n \in 1..MaxFaults, Arrive(n) PROVE readded \subseteq readded'
    BY <2>4 DEF Arrive, retryVars
  <2>5. QED
    BY <2>1, <2>2, <2>3, <2>4 DEF Next
<1>3. ASSUME NEW id \in Jobs, id \notin readded' PROVE JobInv(id)'
  <2>1. JobInv(id)
    BY <1>1, <1>2, <1>3
  <2>2. CASE Tick \/ StartClear \/ UNCHANGED vars
    <3>1. UNCHANGED <<wait, filed, data, issued, adding, pc, hand, outcome, late, handled, reactivated>>
      BY <2>2 DEF Tick, StartClear, vars, storeVars, listVars, procVars, failVars, histVars, retryVars
    <3>2. OnceIn(wait, id)' /\ ((id \in Waiting)' => id \in Waiting) /\ OtherLate(id)
      BY <2>1, <3>1, WaitShrinks DEF JobInv, OtherLate
    <3>3. QED
      BY <2>1, <3>1, <3>2, JobShrinks
  <2>3. CASE ClearList
    BY <1>1, <2>1, <2>3, ClearKeeps
  <2>4. ASSUME NEW r \in Producers, AddJob(r) PROVE JobInv(id)'
    BY <1>1, <1>3, <2>1, <2>4, AddJobKeeps
  <2>5. ASSUME NEW p \in Processors, ProcessQueue(p) \/ Shutdown(p) \/ Crash(p) \/ StartUp(p)
        PROVE  JobInv(id)'
    BY <1>1, <1>3, <2>1, <2>5, ProcessorKeeps
  <2>6. ASSUME NEW n \in 1..MaxFaults, Arrive(n) PROVE JobInv(id)'
    BY <1>1, <2>1, <2>6, ArriveKeeps
  <2>7. QED
    BY <2>2, <2>3, <2>4, <2>5, <2>6 DEF Next
<1>4. QED
  BY <1>1, <1>3, ByJobNext

LEMMA QueueInvHolds == Spec => []QueueInv
BY QueueInit, QueueStep, PTL DEF Spec

\* However pipelines are interleaved, fail half way, come late or are sent
\* again, and whatever ClearQueue and crashes do, a regular job is handed to the
\* handler once at most, unless the pipeline of AddJob that lists it was sent
\* again.
THEOREM AlwaysHandledOnce == Spec => []HandledOnce
<1>1. QueueInv => HandledOnce
  BY DEF QueueInv
<1>2. QED
  BY <1>1, QueueInvHolds, PTL

\* The lists completed and failed agree with the jobs' states and with each
\* other, and with the list active, although each is written by a command of its
\* own that may come late: only a pipeline that gives a job an earlier state must
\* not be sent again.
THEOREM AlwaysFiledByState == Spec => []FiledByState
<1>1. QueueInv => FiledByState
  BY DEF QueueInv
<1>2. QED
  BY <1>1, QueueInvHolds, PTL
=============================================================================
