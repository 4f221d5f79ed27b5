--------------------------- MODULE NodeConnection ---------------------------
(***************************************************************************)
(* The connection to the Node.js server: managers/socket/node_adapter.go.  *)
(*                                                                         *)
(* Connect dials and starts a readPump and a writePump.  When the readPump *)
(* fails it closes the socket and starts reconnect, which dials again, a   *)
(* few times.  All of them, EmitEvent and Close share the fields of one    *)
(* NodeSocketConnection without a lock; in particular, a writePump writes  *)
(* to the socket of the day and so survives the connection it was made     *)
(* for.                                                                    *)
(*                                                                         *)
(* The successful dials are numbered; the goroutines that a dial starts    *)
(* have its number, as has the channel for ping intervals its writePump    *)
(* makes.  The field Socket is the last dial's.                            *)
(***************************************************************************)
EXTENDS Integers, FiniteSets

CONSTANTS
  MaxDials,  \* bound on the dials that succeed
  Attempts,  \* dials of one reconnect
  Buffer     \* capacity of the channel Send

ASSUME NodeAssumption ==
  MaxDials \in Nat \ {0} /\ Attempts \in Nat \ {0} /\ Buffer \in Nat \ {0}

Dials == 1..MaxDials

VARIABLES
  up,           \* the process runs
  socket,       \* the field Socket: the last dial that succeeded; 0: nil
  link,         \* dial -> its connection
  connected,    \* the field Connected
  reconnecting, \* the field Reconnecting
  done,         \* the channel Done is closed
  chain,        \* dial -> where its readPump, and then the reconnect this starts, stand
  attempt,      \* dial -> failed dials of that reconnect
  writer,       \* dial -> where its writePump stands
  heard,        \* dials whose writePump knows the server's ping interval
  channel,      \* the field pingIntervalUpdate: whose channel
  closedChans,  \* the channels for ping intervals that are closed
  queued,       \* messages in Send
  closer,       \* where a call of Close stands
  lost          \* history: why nobody will dial again

sock == <<socket, link, connected>>
chains == <<reconnecting, chain, attempt, lost>>
writers == <<writer, heard, channel, closedChans, queued>>
close == <<done, closer>>
vars == <<up, sock, chains, writers, close>>

Init ==
  /\ up = TRUE
  /\ socket = 0
  /\ link = [n \in Dials |-> "none"]
  /\ connected = FALSE /\ reconnecting = FALSE /\ done = FALSE
  /\ chain = [n \in Dials |-> "none"]
  /\ attempt = [n \in Dials |-> 0]
  /\ writer = [n \in Dials |-> "none"]
  /\ heard = {}
  /\ channel = 0
  /\ closedChans = {}
  /\ queued = 0
  /\ closer = "none"
  /\ lost = "no"

\* "fresh" until the server's handshake packet is read.
Live == socket > 0 /\ link[socket] \in {"fresh", "open"}
Reading(n) == chain[n] = "read"
CloseSocket == link' = [link EXCEPT ![socket] = "closed"]
Panic == up' = FALSE /\ UNCHANGED <<sock, chains, writers, close>>
-----------------------------------------------------------------------------
\* Connect once the dial has succeeded; from: the chain that dials, 0 for the
\* first call.
Connected(from) ==
  /\ socket < MaxDials
  /\ socket' = socket + 1
  /\ link' = [link EXCEPT ![socket + 1] = "fresh"]
  /\ connected' = TRUE
  /\ writer' = [writer EXCEPT ![socket + 1] = "start"]
  /\ chain' = [n \in Dials |-> IF n = socket + 1 THEN "read"
                               ELSE IF n = from THEN "reset" ELSE chain[n]]
  /\ attempt' = [n \in Dials |-> IF n = from THEN 0 ELSE attempt[n]]
  /\ UNCHANGED <<reconnecting, lost, heard, channel, closedChans, queued>>

\* ConnectToNodeServer; the caller keeps a connection whose first dial succeeded.
Open ==
  /\ up /\ socket = 0
  /\ Connected(0)
  /\ UNCHANGED <<up, close>>

\* The other end or the network goes away.
PeerVanishes ==
  /\ up /\ Live
  /\ link' = [link EXCEPT ![socket] = "gone"]
  /\ UNCHANGED <<up, socket, connected, chains, writers, close>>
-----------------------------------------------------------------------------
\* readPump reads the handshake packet and passes the ping interval on, to the
\* channel the field holds by now: the first one, which nobody reads, or a
\* writePump's, maybe closed.
Handshake(n) ==
  /\ up /\ Reading(n) /\ Live /\ link[socket] = "fresh"
  /\ \/ /\ channel \notin closedChans
        /\ link' = [link EXCEPT ![socket] = "open"]
        /\ heard' = IF channel = 0 THEN heard ELSE heard \cup {channel}
        /\ UNCHANGED <<up, socket, connected, chains, writer, channel, closedChans, queued, close>>
     \/ channel \in closedChans /\ Panic

\* Mutant: Connected stays as it is.
ReaderFailsQuietly(n) ==
  /\ up /\ Reading(n) /\ ~Live
  /\ chain' = [chain EXCEPT ![n] = "close"]
  /\ UNCHANGED <<up, sock, reconnecting, attempt, lost, writers, close>>

\* ReadMessage fails.  The deferred calls: Connected = false, ...
ReaderFails(n) ==
  /\ up /\ Reading(n) /\ ~Live
  /\ connected' = FALSE
  /\ chain' = [chain EXCEPT ![n] = "close"]
  /\ UNCHANGED <<up, socket, link, reconnecting, attempt, lost, writers, close>>

\* Mutant: the old socket is left open.
ReaderForgets(n) ==
  /\ up /\ chain[n] = "close"
  /\ chain' = [chain EXCEPT ![n] = "check"]
  /\ UNCHANGED <<up, sock, reconnecting, attempt, lost, writers, close>>

\* ... Socket.Close and go reconnect.
ReaderCloses(n) ==
  /\ up /\ chain[n] = "close"
  /\ CloseSocket
  /\ chain' = [chain EXCEPT ![n] = "check"]
  /\ UNCHANGED <<up, socket, connected, reconnecting, attempt, lost, writers, close>>

\* reconnect reads the flag and, unless it is set, sets it.  The reconnect
\* that made the connection which has now failed may not have reset it yet.
CheckFlag(n) ==
  /\ up /\ chain[n] = "check"
  /\ IF reconnecting
     THEN chain' = [chain EXCEPT ![n] = "done"] /\ lost' = "skipped"
     ELSE chain' = [chain EXCEPT ![n] = "set"] /\ UNCHANGED lost
  /\ UNCHANGED <<up, sock, reconnecting, attempt, writers, close>>

SetFlag(n) ==
  /\ up /\ chain[n] = "set"
  /\ reconnecting' = TRUE
  /\ chain' = [chain EXCEPT ![n] = "dial"]
  /\ UNCHANGED <<up, sock, attempt, lost, writers, close>>

Redial(n) ==
  /\ up /\ chain[n] = "dial"
  /\ Connected(n)
  /\ UNCHANGED <<up, close>>

\* Mutant: one attempt too many.
DialFailsLate(n) ==
  /\ up /\ chain[n] = "dial"
  /\ IF attempt[n] < Attempts
     THEN attempt' = [attempt EXCEPT ![n] = @ + 1] /\ UNCHANGED <<chain, lost>>
     ELSE /\ attempt' = [attempt EXCEPT ![n] = 0]
          /\ chain' = [chain EXCEPT ![n] = "reset"]
          /\ lost' = "failed"
  /\ UNCHANGED <<up, sock, reconnecting, writers, close>>

\* Mutant: a failed attempt ends it.
DialFailsOnce(n) ==
  /\ up /\ chain[n] = "dial"
  /\ chain' = [chain EXCEPT ![n] = "reset"]
  /\ UNCHANGED <<up, sock, reconnecting, attempt, lost, writers, close>>

\* After the last attempt nobody will ever dial again.
DialFails(n) ==
  /\ up /\ chain[n] = "dial"
  /\ IF attempt[n] + 1 < Attempts
     THEN /\ attempt' = [attempt EXCEPT ![n] = @ + 1]
          /\ UNCHANGED <<chain, lost>>
     ELSE /\ attempt' = [attempt EXCEPT ![n] = 0]
          /\ chain' = [chain EXCEPT ![n] = "reset"]
          /\ lost' = "failed"
  /\ UNCHANGED <<up, sock, reconnecting, writers, close>>

ResetFlag(n) ==
  /\ up /\ chain[n] = "reset"
  /\ reconnecting' = FALSE
  /\ chain' = [chain EXCEPT ![n] = "done"]
  /\ UNCHANGED <<up, sock, attempt, lost, writers, close>>
-----------------------------------------------------------------------------
\* writePump puts its channel into the field, ...
WriterStarts(n) ==
  /\ up /\ writer[n] = "start"
  /\ writer' = [writer EXCEPT ![n] = "run"]
  /\ channel' = n
  /\ UNCHANGED <<up, sock, chains, heard, closedChans, queued, close>>

\* ... writes what is queued, which is lost if that fails, ...
WriterSends(n) ==
  /\ up /\ writer[n] = "run" /\ queued > 0
  /\ queued' = 0
  /\ UNCHANGED <<up, sock, chains, writer, heard, channel, closedChans, close>>

\* ... pings once it knows the interval, and leaves when a ping tells it that
\* the connection is broken, ...
WriterPingFails(n) ==
  /\ up /\ writer[n] = "run" /\ n \in heard /\ ~Live
  /\ writer' = [writer EXCEPT ![n] = "leave"]
  /\ UNCHANGED <<up, sock, chains, heard, channel, closedChans, queued, close>>

\* ... or when Done is closed, and closes the channel for intervals then.
WriterIsDone(n) ==
  /\ up /\ writer[n] = "run" /\ done
  /\ writer' = [writer EXCEPT ![n] = "leave"]
  /\ closedChans' = closedChans \cup {n}
  /\ UNCHANGED <<up, sock, chains, heard, channel, queued, close>>

\* Its deferred call closes the socket of the day.
WriterLeaves(n) ==
  /\ up /\ writer[n] = "leave"
  /\ writer' = [writer EXCEPT ![n] = "done"]
  /\ CloseSocket
  /\ UNCHANGED <<up, socket, connected, chains, heard, channel, closedChans, queued, close>>

\* The library panics when two goroutines write to a socket at once: two
\* writePumps, or one and a readPump that answers.
MayWrite(n) == writer[n] = "run" /\ (n \in heard \/ queued > 0)
ConcurrentWrite ==
  /\ up /\ Live
  /\ \E n \in Dials : MayWrite(n) /\ \E m \in Dials : Reading(m) \/ (m # n /\ MayWrite(m))
  /\ Panic
-----------------------------------------------------------------------------
\* EmitEvent; a full channel is an error after five seconds.
EmitEvent ==
  /\ up /\ connected /\ queued < Buffer
  /\ queued' = queued + 1
  /\ UNCHANGED <<up, sock, chains, writer, heard, channel, closedChans, close>>

\* Close: close(Done), which panics the second time, Socket.Close, Connected = false.
CloseDone ==
  /\ up /\ connected /\ closer = "none"
  /\ \/ ~done /\ done' = TRUE /\ closer' = "socket" /\ UNCHANGED <<up, sock, chains, writers>>
     \/ done /\ Panic

CloserCloses ==
  /\ up /\ closer = "socket"
  /\ CloseSocket
  /\ closer' = "flag"
  /\ UNCHANGED <<up, socket, connected, chains, writers, done>>

CloseFlag ==
  /\ up /\ closer = "flag"
  /\ connected' = FALSE
  /\ closer' = "none"
  /\ UNCHANGED <<up, socket, link, chains, writers, done>>
-----------------------------------------------------------------------------
Chain(n) ==
  \/ ReaderFails(n) \/ ReaderCloses(n) \/ CheckFlag(n) \/ SetFlag(n)
  \/ Redial(n) \/ DialFails(n) \/ ResetFlag(n)

Writer(n) ==
  WriterStarts(n) \/ WriterPingFails(n) \/ WriterIsDone(n) \/ WriterLeaves(n)

Next ==
  \/ Open \/ PeerVanishes \/ ConcurrentWrite \/ EmitEvent
  \/ CloseDone \/ CloserCloses \/ CloseFlag
  \/ \E n \in Dials : Handshake(n) \/ Chain(n) \/ Writer(n) \/ WriterSends(n)

Spec == Init /\ [][Next]_vars

\* The runtime gets every goroutine on; a call of the network ends in the end.
FairSpec ==
  /\ Spec /\ WF_vars(CloserCloses) /\ WF_vars(CloseFlag)
  /\ \A n \in Dials : WF_vars(Chain(n)) /\ WF_vars(Writer(n))
-----------------------------------------------------------------------------
TypeOK ==
  /\ up \in BOOLEAN /\ connected \in BOOLEAN /\ reconnecting \in BOOLEAN /\ done \in BOOLEAN
  /\ socket \in 0..MaxDials /\ channel \in 0..MaxDials
  /\ link \in [Dials -> {"none", "fresh", "open", "gone", "closed"}]
  /\ chain \in [Dials -> {"none", "read", "close", "check", "set", "dial", "reset", "done"}]
  /\ attempt \in [Dials -> 0..(Attempts - 1)]
  /\ writer \in [Dials -> {"none", "start", "run", "leave", "done"}]
  /\ heard \subseteq Dials /\ closedChans \subseteq Dials
  /\ queued \in 0..Buffer
  /\ closer \in {"none", "socket", "flag"}
  /\ lost \in {"no", "failed", "skipped"}

\* A chain that is not over yet will make the next connection.
Going(n) == chain[n] \in {"read", "close", "check", "set", "dial"}

\* Without a lock there is still one connection at a time: the only goroutine
\* that reads or dials is the last dial's, and every older socket is closed.
\* It is gone only when five dials failed or the flag was found set, and the
\* flag is set only while a reconnect is at work.
OneConnection ==
  /\ \A n \in Dials : Going(n) => n = socket /\ lost = "no"
  /\ socket > 0 /\ lost = "no" => Going(socket)
  /\ \A n \in Dials : n < socket => link[n] = "closed"
  /\ reconnecting => \E n \in Dials : chain[n] \in {"dial", "reset"}

\* While Connected is true somebody reads, so a break is noticed; and until
\* Close is called somebody writes, or the socket is closed and the reader
\* about to notice: a message that EmitEvent accepts is not left lying.
ConnectedIsServed ==
  connected =>
    /\ Reading(socket)
    /\ done \/ ~Live \/ \E n \in Dials : writer[n] \in {"start", "run"}

\* What makes the two hold of every step: a dial's chain begins when it
\* succeeds, has closed the socket before it dials, and while the socket lives
\* its own writePump has no reason to leave.
ConnectionInv ==
  /\ TypeOK /\ OneConnection
  /\ \A n \in Dials : chain[n] = "none" <=> n > socket
  /\ \A n \in Dials : chain[n] \in {"check", "set", "dial"} => link[n] = "closed"
  /\ socket = 0 => lost = "no" /\ ~connected
  /\ connected => Reading(socket)
  /\ Live /\ ~done => writer[socket] \in {"start", "run"}

\* A broken connection is replaced, or all attempts have failed, or the
\* reconnect before was still about to reset its flag, or the process died.
BrokenIsReplaced ==
  (socket > 0 /\ ~Live) ~> (Live \/ lost # "no" \/ ~up)
=============================================================================
