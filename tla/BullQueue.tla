------------------------------ MODULE BullQueue ------------------------------
(***************************************************************************)
(* One queue of managers/queue/queue.go under Bull's keys in Redis.        *)
(*                                                                         *)
(* AddJob pushes a job's id on the wait list and stores the job under a    *)
(* key of its own; processQueue pops ids, looks the job up, hands it to    *)
(* the handler and files it under completed or failed; ClearQueue deletes  *)
(* the lists one after the other.  A pipeline is a batch of commands, not  *)
(* a transaction: others may come in between.                              *)
(*                                                                         *)
(* When no answer comes, the Redis client closes the connection and sends  *)
(* the whole pipeline once more on another one, up to MaxRetries times,    *)
(* before it reports an error.  The commands sent before may have been     *)
(* executed, may yet be or may never be: variable late has those that may  *)
(* still come.                                                             *)
(*                                                                         *)
(* AddJob and ClearQueue serve the HTTP interface and the block monitors.  *)
(* No program starts processQueue today: Processors stands for programs    *)
(* that will.                                                              *)
(***************************************************************************)
EXTENDS Integers, Sequences

CONSTANTS
  Jobs,        \* ids of regular jobs: UnixNano, all different
  Hashes,      \* generateHash(queueName, data) of repeat jobs
  Producers,   \* requests that add jobs
  Processors,  \* goroutines in processQueue
  None,
  MaxTime, MaxWait, MaxFaults  \* bounds

VARIABLES
  wait,       \* bull:<queue>:wait
  filed,      \* the lists active, completed, failed, whose order plays no part
  data,       \* state stored at bull:<queue>:<id>, or None, of regular jobs:
              \* what is stored there for repeat jobs is never read
  defs,       \* ids with a definition at bull:<queue>:repeat:<id>
  now,        \* the clock, in seconds
  issued,     \* regular ids in use
  adding,     \* the id each producer is adding, and what it does next
  pc, hand,   \* where each processor stands, and the job id it holds
  outcome,    \* what the handler returned for a regular job
  clear,      \* the list ClearQueue deletes next
  faults,     \* failures, shutdowns and crashes so far
  late,       \* the n-th connection given up: what was sent through it, and
              \* which command Redis would execute next
  handled,    \* history: how often each regular job was given to the handler
  lost,       \* history: regular jobs of which an entry was taken off the wait
              \* list and not handled
  readded, reactivated
              \* history: regular jobs for which AddJob's pipeline, or the one
              \* that marks them active, was sent once more

listVars == <<wait, filed>>
procVars == <<pc, hand, outcome>>
retryVars == <<readded, reactivated>>
failVars == <<faults, late>>
histVars == <<handled, lost, retryVars>>
storeVars == <<listVars, data, defs>>
vars == <<storeVars, now, issued, adding, procVars, clear, failVars, histVars>>

\* A repeat job's id is its hash and the second it was made in, so that two
\* made in one second are one id.
RepeatId(h, t) == <<h, t>>
RepeatIds == Hashes \X (0..MaxTime)
IsRepeat(id) == id \in RepeatIds
Ids == Jobs \cup RepeatIds

ASSUME QueueAssumption ==
  /\ None \notin Jobs /\ Jobs \cap RepeatIds = {}
  /\ {MaxTime, MaxWait, MaxFaults} \subseteq Nat

Settled == {"completed", "failed"}
Lists == {"active"} \cup Settled
Steps == {"down", "idle", "get", "activate", "handle", "finish", "repeat"}
Phases == {"idle", "push", "store"}
ClearSteps == {"idle", "wait"} \cup Lists

Waiting == {wait[i] : i \in DOMAIN wait}
Lose(ids) == lost' = lost \cup (ids \cap Jobs)

\* Commands, by what they are about.
Command(do, id, to) == [do |-> do, id |-> id, to |-> to]
Push(id)        == Command("push", id, None)
Set(id, state)  == Command("set", id, state)
Define(id)      == Command("define", id, None)
List(id, list)  == Command("list", id, list)
Unlist(id)      == Command("unlist", id, "active")
Pop             == Command("pop", None, None)
Del(list)       == Command("del", None, list)

\* AddJob's pipeline; its Publish changes nothing here.
Adding(id) == <<Push(id), Set(id, "waiting")>>

\* The pipeline that marks a regular job active.
Activating(id) == <<Set(id, "active"), List(id, "active")>>

\* Mutant: the job is filed before its state is stored.
FilingUnmarked(id, result) == <<Unlist(id), List(id, result), Set(id, result)>>

\* The pipeline that files a regular job.
Filing(id, result) == <<Set(id, result), Unlist(id), List(id, result)>>

\* What was sent, and the number of its next command.
Sent(what, id, to, at) == [what |-> what, id |-> id, to |-> to, at |-> at]
Nothing == Sent("nothing", None, None, 1)

Commands(sent) ==
  CASE sent.what = "add"      -> Adding(sent.id)
    [] sent.what = "activate" -> Activating(sent.id)
    [] sent.what = "file"     -> Filing(sent.id, sent.to)
    [] sent.what = "pop"      -> <<Pop>>
    [] sent.what = "define"   -> <<Define(sent.id)>>
    [] sent.what = "del"      -> <<Del(sent.to)>>
    [] OTHER                  -> <<>>

NoFault == UNCHANGED failVars

\* No answer comes to what was sent.
Unanswered(sent) ==
  /\ faults < MaxFaults
  /\ faults' = faults + 1
  /\ late' = [late EXCEPT ![faults + 1] = sent]

Fault == Unanswered(Nothing)

\* Mutant: the next occurrence goes to the front of the list.
QueueFirst(id) == wait' = <<id>> \o wait

Queue(id) == wait' = Append(wait, id)

Store(id, state) == data' = [j \in Jobs |-> IF j = id THEN state ELSE data[j]]

Execute(c) ==
  \/ /\ c.do = "push" /\ Len(wait) < MaxWait
     /\ Queue(c.id)
     /\ UNCHANGED <<filed, data, defs, lost>>
  \/ c.do = "set" /\ Store(c.id, c.to) /\ UNCHANGED <<listVars, defs, lost>>
  \/ c.do = "define" /\ defs' = defs \cup {c.id} /\ UNCHANGED <<listVars, data, lost>>
  \/ /\ c.do = "list"
     /\ filed' = [filed EXCEPT ![c.to] = @ \cup {c.id}]
     /\ UNCHANGED <<wait, data, defs, lost>>
  \/ /\ c.do = "unlist"
     /\ filed' = [filed EXCEPT ![c.to] = @ \ {c.id}]
     /\ UNCHANGED <<wait, data, defs, lost>>
  \/ /\ c.do = "pop" /\ wait # <<>>
     /\ wait' = Tail(wait) /\ Lose({Head(wait)})
     /\ UNCHANGED <<filed, data, defs>>
  \/ /\ c.do = "del" /\ c.to = "wait"
     /\ wait' = <<>> /\ Lose(Waiting)
     /\ UNCHANGED <<filed, data, defs>>
  \/ /\ c.do = "del" /\ c.to # "wait"
     /\ filed' = [filed EXCEPT ![c.to] = {}]
     /\ UNCHANGED <<wait, data, defs, lost>>

Goto(p, step) == pc' = [pc EXCEPT ![p] = step]

\* The next round of processQueue's loop.
Finish(p) ==
  /\ Goto(p, "idle")
  /\ hand' = [hand EXCEPT ![p] = None]
  /\ outcome' = [outcome EXCEPT ![p] = None]
-----------------------------------------------------------------------------
Init ==
  /\ wait = <<>>
  /\ filed = [list \in Lists |-> {}]
  /\ data = [id \in Jobs |-> None]
  /\ defs = {}
  /\ now = 0
  /\ issued = {}
  /\ adding = [r \in Producers |-> [id |-> None, phase |-> "idle"]]
  /\ pc = [p \in Processors |-> "idle"]
  /\ hand = [p \in Processors |-> None]
  /\ outcome = [p \in Processors |-> None]
  /\ clear = "idle"
  /\ faults = 0
  /\ late = [n \in 1..MaxFaults |-> Nothing]
  /\ handled = [id \in Jobs |-> 0]
  /\ lost = {} /\ readded = {} /\ reactivated = {}

Tick ==
  /\ now < MaxTime
  /\ now' = now + 1
  /\ UNCHANGED <<storeVars, issued, adding, procVars, clear, failVars, histVars>>

\* Redis executes the next command of a connection given up.
Arrive(n) ==
  LET cmds == Commands(late[n])
      at   == late[n].at
  IN  /\ cmds # <<>>
      /\ Execute(cmds[at])
      /\ late' = [late EXCEPT ![n] =
                    IF at = Len(cmds) THEN Nothing
                    ELSE Sent(late[n].what, late[n].id, late[n].to, at + 1)]
      /\ UNCHANGED <<now, issued, adding, procVars, clear, faults, handled, retryVars>>
-----------------------------------------------------------------------------
\* AddJob up to the pipeline.  A regular job's id is a fresh one.
StartJob(r, id) ==
  /\ adding[r].phase = "idle"
  /\ id \notin issued
  /\ issued' = issued \cup {id}
  /\ adding' = [adding EXCEPT ![r] = [id |-> id, phase |-> "push"]]
  /\ UNCHANGED <<storeVars, now, procVars, clear, failVars, histVars>>

\* A repeat job's definition is stored first.  (Options without a number
\* "every" end the request before, by a panic.)
StartRepeat(r, h) ==
  LET id == RepeatId(h, now)
  IN  /\ adding[r].phase = "idle"
      /\ \/ /\ NoFault
            /\ Execute(Define(id))
            /\ adding' = [adding EXCEPT ![r] = [id |-> id, phase |-> "push"]]
         \/ Unanswered(Sent("define", id, None, 1)) /\ UNCHANGED <<storeVars, lost, adding>>
      /\ UNCHANGED <<now, issued, procVars, clear, handled, retryVars>>

EndAdd(r) == adding' = [adding EXCEPT ![r] = [id |-> None, phase |-> "idle"]]

\* RPush, the pipeline's first command, ...
PushJob(r) ==
  /\ adding[r].phase = "push"
  /\ NoFault
  /\ Execute(Adding(adding[r].id)[1])
  /\ adding' = [adding EXCEPT ![r].phase = "store"]
  /\ UNCHANGED <<now, issued, procVars, clear, handled, retryVars>>

\* ... and Set, the second one.
StoreJob(r) ==
  /\ adding[r].phase = "store"
  /\ NoFault
  /\ Execute(Adding(adding[r].id)[2])
  /\ EndAdd(r)
  /\ UNCHANGED <<now, issued, procVars, clear, handled, retryVars>>

\* The pipeline is not answered, and sent once more or given up.
ResendAdd(r) ==
  LET id == adding[r].id
  IN  /\ adding[r].phase # "idle"
      /\ Unanswered(Sent("add", id, None, IF adding[r].phase = "push" THEN 1 ELSE 2))
      /\ \/ EndAdd(r) /\ UNCHANGED readded
         \/ /\ adding' = [adding EXCEPT ![r].phase = "push"]
            /\ readded' = readded \cup ({id} \cap Jobs)
      /\ UNCHANGED <<storeVars, now, issued, procVars, clear, handled, lost, reactivated>>
-----------------------------------------------------------------------------
\* Mutant: the id is read and stays on the list until the job is filed.
PeekJob(p) ==
  /\ pc[p] = "idle"
  /\ wait # <<>>
  /\ hand' = [hand EXCEPT ![p] = Head(wait)]
  /\ Goto(p, "get")
  /\ UNCHANGED <<storeVars, now, issued, adding, outcome, clear, failVars, histVars>>

\* BLPop.  Without an answer the loop begins again, and the id may be taken off
\* the list all the same.
PopJob(p) ==
  /\ pc[p] = "idle"
  /\ \/ /\ NoFault
        /\ wait # <<>>
        /\ wait' = Tail(wait)
        /\ hand' = [hand EXCEPT ![p] = Head(wait)]
        /\ Goto(p, "get")
     \/ Unanswered(Sent("pop", None, None, 1)) /\ UNCHANGED <<wait, pc, hand>>
  /\ UNCHANGED <<filed, data, defs, now, issued, adding, outcome, clear, histVars>>

\* getRepeatJob looks for a definition where none is stored, finds
\* an empty hash there, and makes the job up, with no data.
Found(id) == ~IsRepeat(id) => data[id] # None

\* Mutant: repeat jobs are marked active like the others.
GetAnyJob(p) ==
  /\ pc[p] = "get"
  /\ Found(hand[p])
  /\ Goto(p, "activate")
  /\ UNCHANGED <<storeVars, now, issued, adding, hand, outcome, clear, failVars, histVars>>

GetJob(p) ==
  /\ pc[p] = "get"
  /\ \/ /\ NoFault
        /\ Found(hand[p])
        /\ Goto(p, IF IsRepeat(hand[p]) THEN "repeat" ELSE "activate")
        /\ UNCHANGED <<hand, outcome, lost>>
     \/ NoFault /\ ~Found(hand[p]) /\ Lose({hand[p]}) /\ Finish(p)
     \/ Fault /\ Lose({hand[p]}) /\ Finish(p)
  /\ UNCHANGED <<storeVars, now, issued, adding, clear, handled, retryVars>>

\* The pipeline that marks a regular job active.  What other clients do between
\* its commands they could as well have done before or after.  An error, when
\* no answer has come at last, drops the job.
ActivateJob(p) ==
  /\ pc[p] = "activate"
  /\ \/ /\ NoFault
        /\ data' = [data EXCEPT ![hand[p]] = "active"]
        /\ filed' = [filed EXCEPT !["active"] = @ \cup {hand[p]}]
        /\ Goto(p, "handle")
        /\ UNCHANGED <<hand, outcome, lost, reactivated>>
     \/ /\ Unanswered(Sent("activate", hand[p], None, 1))
        /\ UNCHANGED <<data, filed>>
        /\ \/ Lose({hand[p]}) /\ Finish(p) /\ UNCHANGED reactivated
           \/ reactivated' = reactivated \cup {hand[p]} /\ UNCHANGED <<procVars, lost>>
  /\ UNCHANGED <<wait, defs, now, issued, adding, clear, handled, readded>>

\* The handler of a regular job returns, with an error or without.
HandleJob(p) ==
  /\ pc[p] = "handle"
  /\ \E result \in Settled : outcome' = [outcome EXCEPT ![p] = result]
  /\ handled' = [handled EXCEPT ![hand[p]] = @ + 1]
  /\ Goto(p, "finish")
  /\ UNCHANGED <<storeVars, now, issued, adding, hand, clear, failVars, lost, retryVars>>

\* The pipeline that files a regular job, sent once more or given up when no
\* answer comes.  An error is logged.
FinishJob(p) ==
  /\ pc[p] = "finish"
  /\ \/ /\ NoFault
        /\ data' = [data EXCEPT ![hand[p]] = outcome[p]]
        /\ filed' = [list \in Lists |-> IF list = outcome[p] THEN filed[list] \cup {hand[p]}
                                       ELSE IF list = "active" THEN filed[list] \ {hand[p]}
                                       ELSE filed[list]]
        /\ Finish(p)
     \/ /\ Unanswered(Sent("file", hand[p], outcome[p], 1))
        /\ UNCHANGED <<data, filed>>
        /\ Finish(p) \/ UNCHANGED procVars
  /\ UNCHANGED <<wait, defs, now, issued, adding, clear, histVars>>

\* The handler of a repeat job returns, with an error or without, and
\* rescheduleRepeatJob runs: the next occurrence, whose id has the present second
\* in it, is queued at once if a definition is stored under this one's id.
\* Without an answer its pipeline is given up, or sent once more and answered.
RescheduleJob(p) ==
  LET next == RepeatId(hand[p][1], now)
  IN  /\ pc[p] = "repeat"
      /\ \/ NoFault /\ hand[p] \in defs /\ Queue(next)
         \/ NoFault /\ hand[p] \notin defs /\ UNCHANGED wait
         \/ Fault /\ UNCHANGED wait
         \/ /\ Unanswered(Sent("add", next, None, 1))
            /\ hand[p] \in defs
            /\ Queue(next) \/ UNCHANGED wait
      /\ Finish(p)
      /\ UNCHANGED <<filed, data, defs, now, issued, adding, clear, histVars>>

\* The context is cancelled; the loop ends between two jobs.
Shutdown(p) ==
  /\ pc[p] = "idle"
  /\ Fault
  /\ Goto(p, "down")
  /\ UNCHANGED <<storeVars, now, issued, adding, hand, outcome, clear, histVars>>

\* The process dies, with the job in hand and perhaps a pipeline under way.
Crash(p) ==
  /\ pc[p] \notin {"idle", "down"}
  /\ \/ pc[p] = "activate" /\ Unanswered(Sent("activate", hand[p], None, 1))
     \/ pc[p] = "finish" /\ Unanswered(Sent("file", hand[p], outcome[p], 1))
     \/ Fault
  /\ Lose({hand[p]} \ {id \in Jobs : handled[id] > 0})
  /\ pc' = [pc EXCEPT ![p] = "down"]
  /\ hand' = [hand EXCEPT ![p] = None]
  /\ outcome' = [outcome EXCEPT ![p] = None]
  /\ UNCHANGED <<storeVars, now, issued, adding, clear, handled, retryVars>>

StartUp(p) ==
  /\ pc[p] = "down"
  /\ Goto(p, "idle")
  /\ UNCHANGED <<storeVars, now, issued, adding, hand, outcome, clear, failVars, histVars>>
-----------------------------------------------------------------------------
StartClear ==
  /\ clear = "idle"
  /\ clear' = "wait"
  /\ UNCHANGED <<storeVars, now, issued, adding, procVars, failVars, histVars>>

\* One Del of ClearQueue, in its order; the lists delayed and stalled are
\* never written.  An error ends it.  The jobs' own keys stay.
ClearList ==
  /\ clear # "idle"
  /\ \/ /\ NoFault
        /\ Execute(Del(clear))
        /\ clear' = CASE clear = "wait" -> "active"
                      [] clear = "active" -> "completed"
                      [] clear = "completed" -> "failed"
                      [] clear = "failed" -> "idle"
     \/ /\ Unanswered(Sent("del", None, clear, 1))
        /\ clear' = "idle" \/ UNCHANGED clear
        /\ UNCHANGED <<storeVars, lost>>
  /\ UNCHANGED <<now, issued, adding, procVars, handled, retryVars>>
-----------------------------------------------------------------------------
AddJob(r) ==
  \/ \E id \in Jobs : StartJob(r, id)
  \/ \E h \in Hashes : StartRepeat(r, h)
  \/ PushJob(r) \/ StoreJob(r) \/ ResendAdd(r)

ProcessQueue(p) ==
  \/ PopJob(p) \/ GetJob(p) \/ ActivateJob(p) \/ HandleJob(p)
  \/ FinishJob(p) \/ RescheduleJob(p)

Next ==
  \/ Tick \/ StartClear \/ ClearList
  \/ \E n \in 1..MaxFaults : Arrive(n)
  \/ \E r \in Producers : AddJob(r)
  \/ \E p \in Processors : ProcessQueue(p) \/ Shutdown(p) \/ Crash(p) \/ StartUp(p)

Spec == Init /\ [][Next]_vars

\* A processor that is up goes on with its loop, a program that has ended is
\* started again, and handlers return.
FairSpec ==
  /\ Spec
  /\ \A p \in Processors : WF_vars(ProcessQueue(p)) /\ WF_vars(StartUp(p))
-----------------------------------------------------------------------------
\* What may be under way, with the number of a command it has.
SentOK ==
  {Nothing, Sent("pop", None, None, 1)}
    \cup {Sent("define", id, None, 1) : id \in RepeatIds}
    \cup {Sent("del", None, list, 1) : list \in {"wait"} \cup Lists}
    \cup {Sent("add", id, None, at) : id \in Ids, at \in 1..2}
    \cup {Sent("activate", id, None, at) : id \in Jobs, at \in 1..2}
    \cup {Sent("file", id, result, at) : id \in Jobs, result \in Settled, at \in 1..3}

TypeOK ==
  /\ wait \in Seq(Ids)
  /\ filed \in [Lists -> SUBSET Jobs]
  /\ data \in [Jobs -> {None, "waiting", "active"} \cup Settled]
  /\ defs \subseteq RepeatIds
  /\ now \in 0..MaxTime
  /\ issued \subseteq Jobs
  /\ adding \in [Producers -> [id : Ids \cup {None}, phase : Phases]]
  /\ pc \in [Processors -> Steps]
  /\ hand \in [Processors -> Ids \cup {None}]
  /\ outcome \in [Processors -> Settled \cup {None}]
  /\ clear \in ClearSteps
  /\ faults \in 0..MaxFaults
  /\ handled \in [Jobs -> Nat]
  /\ lost \subseteq Jobs /\ readded \subseteq Jobs /\ reactivated \subseteq Jobs
  /\ late \in [1..MaxFaults -> SentOK]
  /\ \A n \in 1..MaxFaults : n > faults => late[n] = Nothing
  /\ \A r \in Producers : adding[r].phase # "idle" => adding[r].id \in Ids
  /\ \A p \in Processors :
       /\ pc[p] = "repeat" => hand[p] \in RepeatIds
       /\ pc[p] \in {"activate", "handle", "finish"} => hand[p] \in Jobs
       /\ pc[p] = "get" => hand[p] \in Ids
       /\ pc[p] = "finish" => outcome[p] \in Settled

Untouched(id) == handled[id] = 0 /\ \A l \in Lists : id \notin filed[l]

\* A regular job is given to the handler at most once, is on the wait list at
\* most once, and not any more once it was handled or filed, whatever producers,
\* processors, ClearQueue, crashes and commands that come late do, and whatever
\* else is sent again: only AddJob's pipeline must not be, which lists the id
\* each time.
HandledOnce ==
  \A id \in Jobs \ readded :
    /\ handled[id] <= 1
    /\ \A i, j \in DOMAIN wait : wait[i] = id /\ wait[j] = id => i = j
    /\ id \in Waiting => Untouched(id)

\* A job on the list completed or failed has that state under its own key and
\* is on no other list, although each is written by a command of its own,
\* unless a pipeline that gives the job an earlier state was sent again.
FiledByState ==
  \A list \in Settled : \A id \in filed[list] \ (readded \cup reactivated) :
    data[id] = list /\ \A other \in Lists \ {list} : id \notin filed[other]

\* What makes the two hold of every step.  A job that is being added, by a
\* producer or by commands under way, waits at most or has just been popped,
\* and no processor has done anything to it.
Late(what, id) == {n \in 1..MaxFaults : late[n].what = what /\ late[n].id = id}
Added(id) == \A r \in Producers : adding[r].id # id
Held(id) == \E p \in Processors : hand[p] = id
Unseen(id) == Untouched(id) /\ Late("activate", id) = {} /\ Late("file", id) = {}
Unpushed(id) == id \notin Waiting /\ ~Held(id)

PlaceInv(id) ==
  /\ handled[id] <= 1
  /\ \A r, s \in Producers : adding[r].id = id /\ adding[s].id = id => r = s
  /\ \A p, q \in Processors : hand[p] = id /\ hand[q] = id => p = q
  /\ \A m, n \in Late("add", id) : m = n
  /\ id \notin issued =>
       /\ Added(id) /\ Unpushed(id) /\ Unseen(id)
       /\ data[id] = None /\ Late("add", id) = {}
  /\ \A r \in Producers : adding[r].id = id =>
       /\ data[id] = None /\ Unseen(id) /\ Late("add", id) = {}
       /\ adding[r].phase # "idle"
       /\ adding[r].phase = "push" => Unpushed(id)
  /\ \A n \in Late("add", id) :
       /\ data[id] = None /\ Unseen(id)
       /\ late[n].at = 1 => Unpushed(id)
  /\ id \in Waiting => ~Held(id) /\ Unseen(id)
  /\ \A p \in Processors : hand[p] = id =>
       /\ pc[p] \in {"get", "activate", "handle", "finish"}
       /\ pc[p] = "get" => Unseen(id)
       /\ pc[p] # "get" => Added(id) /\ Late("add", id) = {}
       /\ pc[p] # "finish" => handled[id] = 0

\* A job is settled only after it was handled, and all that is still under way
\* about it gives it the state it has or is about to have.
FileInv(id) ==
  /\ handled[id] = 0 => Late("file", id) = {} /\ \A l \in Settled : id \notin filed[l]
  /\ Late("activate", id) # {} => handled[id] = 0 /\ ~Held(id)
  /\ \A p \in Processors : hand[p] = id /\ pc[p] = "finish" =>
       /\ handled[id] > 0
       /\ \A n \in Late("file", id) : late[n].to = outcome[p]
       /\ \A l \in Settled : id \in filed[l] => l = outcome[p]
  /\ \A n \in Late("file", id) :
       /\ \A m \in Late("file", id) : late[m].to = late[n].to
       /\ \A l \in Settled : id \in filed[l] => l = late[n].to
       /\ late[n].at > 1 => data[id] = late[n].to
       /\ late[n].at > 2 => id \notin filed["active"]
  /\ \A l \in Settled : id \in filed[l] =>
       data[id] = l /\ \A k \in Lists \ {l} : id \notin filed[k]

QueueInv ==
  /\ TypeOK /\ HandledOnce /\ FiledByState
  /\ \A id \in Jobs \ readded : PlaceInv(id)
  /\ \A id \in Jobs \ (readded \cup reactivated) : FileInv(id)

\* A regular job on the wait list is handled in the end, unless it is taken
\* off the list by ClearQueue, before its data was stored, or by a call or a
\* process that failed.
WaitingIsHandled ==
  \A id \in Jobs : id \in Waiting ~> (handled[id] > 0 \/ id \in lost)
=============================================================================
