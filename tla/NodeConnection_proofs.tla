------------------------ MODULE NodeConnection_proofs ------------------------
(***************************************************************************)
(* Proofs about NodeConnection for any number of dials, attempts and       *)
(* queued messages.                                                        *)
(***************************************************************************)
EXTENDS NodeConnection, TLAPS

LEMMA NodeTypeInit == Init => TypeOK
<1> SUFFICES ASSUME Init PROVE TypeOK
  OBVIOUS
<1>1. up \in BOOLEAN /\ connected \in BOOLEAN /\ reconnecting \in BOOLEAN /\ done \in BOOLEAN
  BY DEF Init
<1>2. socket \in 0..MaxDials /\ channel \in 0..MaxDials /\ queued \in 0..Buffer
  BY NodeAssumption DEF Init
<1>3. attempt \in [Dials -> 0..(Attempts - 1)]
  BY NodeAssumption DEF Init
<1>4. QED
  BY <1>1, <1>2, <1>3 DEF Init, TypeOK

LEMMA ConnectedKeepsType ==
  ASSUME TypeOK, NEW from \in 0..MaxDials, Connected(from), UNCHANGED <<up, close>>
  PROVE  TypeOK'
<1> USE NodeAssumption DEF TypeOK, Dials, Connected, close
<1>1. socket + 1 \in Dials /\ socket' \in 0..MaxDials
  OBVIOUS
<1>2. link' \in [Dials -> {"none", "fresh", "open", "gone", "closed"}]
  BY <1>1
<1>3. chain' \in [Dials -> {"none", "read", "close", "check", "set", "dial", "reset", "done"}]
  BY <1>1
<1>4. attempt' \in [Dials -> 0..(Attempts - 1)]
  BY <1>1
<1>5. writer' \in [Dials -> {"none", "start", "run", "leave", "done"}]
  BY <1>1
<1>6. QED
  BY <1>1, <1>2, <1>3, <1>4, <1>5

LEMMA NodeTypeStep == TypeOK /\ [Next]_vars => TypeOK'
<1> SUFFICES ASSUME TypeOK, [Next]_vars PROVE TypeOK'
  OBVIOUS
<1> USE DEF sock, chains, writers, close, CloseSocket, Panic
<1>1. CASE Open
  BY <1>1, ConnectedKeepsType, NodeAssumption DEF Open
<1>2. CASE PeerVanishes
  BY <1>2 DEF PeerVanishes, TypeOK
<1>3. CASE ConcurrentWrite
  BY <1>3 DEF ConcurrentWrite, TypeOK
<1>4. CASE EmitEvent
  BY <1>4, NodeAssumption DEF EmitEvent, TypeOK
<1>5. CASE CloseDone
  BY <1>5 DEF CloseDone, TypeOK
<1>6. CASE CloserCloses \/ CloseFlag
  BY <1>6 DEF CloserCloses, CloseFlag, TypeOK
<1>7. ASSUME NEW n \in Dials, Handshake(n) PROVE TypeOK'
  <2>1. CASE channel \in closedChans
    BY <1>7, <2>1 DEF Handshake, TypeOK
  <2>2. CASE channel \notin closedChans
    <3>1. heard' \subseteq Dials
      <4>1. channel = 0 \/ channel \in Dials
        BY NodeAssumption DEF TypeOK, Dials
      <4>2. QED
        <5>1. heard' = IF channel = 0 THEN heard ELSE heard \cup {channel}
          BY <1>7, <2>2 DEF Handshake
        <5>2. heard \subseteq Dials
          BY DEF TypeOK
        <5>3. QED
          BY <4>1, <5>1, <5>2
    <3>2. link' \in [Dials -> {"none", "fresh", "open", "gone", "closed"}]
      <4>1. link \in [Dials -> {"none", "fresh", "open", "gone", "closed"}]
        BY DEF TypeOK
      <4>2. link' = [link EXCEPT ![socket] = "open"]
        BY <1>7, <2>2 DEF Handshake
      <4>3. QED
        BY <4>1, <4>2
    <3>3. UNCHANGED <<up, socket, connected, chains, writer, channel, closedChans, queued, close>>
      BY <1>7, <2>2 DEF Handshake
    <3>4. QED
      BY <3>1, <3>2, <3>3 DEF TypeOK
  <2>3. QED
    BY <2>1, <2>2
<1>8. ASSUME NEW n \in Dials, ReaderFails(n) \/ ReaderCloses(n) PROVE TypeOK'
  BY <1>8 DEF ReaderFails, ReaderCloses, TypeOK
<1>9. ASSUME NEW n \in Dials, CheckFlag(n) PROVE TypeOK'
  BY <1>9 DEF CheckFlag, TypeOK
<1>10. ASSUME NEW n \in Dials, SetFlag(n) \/ ResetFlag(n) PROVE TypeOK'
  BY <1>10 DEF SetFlag, ResetFlag, TypeOK
<1>11. ASSUME NEW n \in Dials, Redial(n) PROVE TypeOK'
  <2>1. n \in 0..MaxDials
    BY NodeAssumption DEF Dials
  <2>2. QED
    BY <1>11, <2>1, ConnectedKeepsType DEF Redial
<1>12. ASSUME NEW n \in Dials, DialFails(n) PROVE TypeOK'
  <2>1. attempt' \in [Dials -> 0..(Attempts - 1)]
    <3>1. \A k \in Dials : attempt[k] \in 0..(Attempts - 1)
      BY DEF TypeOK
    <3>2. CASE attempt[n] + 1 < Attempts
      <4>1. attempt[n] + 1 \in 0..(Attempts - 1)
        BY <3>1, <3>2, NodeAssumption
      <4>2. QED
        BY <1>12, <3>2, <4>1 DEF DialFails, TypeOK
    <3>3. CASE ~(attempt[n] + 1 < Attempts)
      <4>1. 0 \in 0..(Attempts - 1)
        BY NodeAssumption
      <4>2. QED
        BY <1>12, <3>3, <4>1 DEF DialFails, TypeOK
    <3>4. QED
      BY <3>2, <3>3
  <2>2. chain' \in [Dials -> {"none", "read", "close", "check", "set", "dial", "reset", "done"}]
    BY <1>12 DEF DialFails, TypeOK
  <2>3. lost' \in {"no", "failed", "skipped"}
    BY <1>12 DEF DialFails, TypeOK
  <2>4. QED
    BY <1>12, <2>1, <2>2, <2>3 DEF DialFails, TypeOK
<1>13. ASSUME NEW n \in Dials, Writer(n) \/ WriterSends(n) PROVE TypeOK'
  <2> USE DEF WriterStarts, WriterPingFails, WriterIsDone, WriterLeaves, WriterSends
  <2>1. CASE WriterStarts(n)
    <3>1. channel' \in 0..MaxDials
      BY <2>1, NodeAssumption DEF Dials
    <3>2. QED
      BY <2>1, <3>1 DEF TypeOK
  <2>2. CASE WriterPingFails(n)
    BY <2>2 DEF TypeOK
  <2>3. CASE WriterIsDone(n)
    BY <2>3 DEF TypeOK
  <2>4. CASE WriterLeaves(n)
    BY <2>4 DEF TypeOK
  <2>5. CASE WriterSends(n)
    BY <2>5, NodeAssumption DEF TypeOK
  <2>6. QED
    BY <1>13, <2>1, <2>2, <2>3, <2>4, <2>5 DEF Writer
<1>14. CASE UNCHANGED vars
  BY <1>14 DEF vars, TypeOK
<1>15. QED
  BY <1>1, <1>2, <1>3, <1>4, <1>5, <1>6, <1>7, <1>8, <1>9, <1>10, <1>11, <1>12, <1>13, <1>14
     DEF Next, Chain

\* The fields of the connection keep their types; in particular no reconnect
\* fails more often than it may try (reconnect).
THEOREM ConnectionTypeCorrect == Spec => []TypeOK
BY NodeTypeInit, NodeTypeStep, PTL DEF Spec
-----------------------------------------------------------------------------
LEMMA ConnectionInit == Init => ConnectionInv
<1> SUFFICES ASSUME Init PROVE ConnectionInv
  OBVIOUS
<1>1. TypeOK
  BY NodeTypeInit
<1>2. OneConnection
  BY DEF Init, OneConnection, Going, Dials
<1>3. \A n \in Dials : chain[n] = "none" <=> n > socket
  BY DEF Init, Dials
<1>4. QED
  BY <1>1, <1>2, <1>3 DEF Init, ConnectionInv, Reading, Live

\* A dial that succeeds: the first one, or that of the chain of the last
\* connection, which has closed the socket.
LEMMA DialKeeps ==
  ASSUME ConnectionInv, TypeOK', NEW from \in 0..MaxDials, Connected(from), UNCHANGED <<up, close>>,
         from = socket, from > 0 => chain[from] = "dial"
  PROVE  ConnectionInv'
<1> DEFINE s == socket + 1
<1>1. s \in Dials /\ socket \in Nat /\ socket' = s
  BY NodeAssumption DEF ConnectionInv, TypeOK, Connected, Dials
<1>2. /\ link' = [link EXCEPT ![s] = "fresh"]
      /\ connected' = TRUE /\ lost' = lost /\ done' = done /\ reconnecting' = reconnecting
      /\ writer' = [writer EXCEPT ![s] = "start"]
      /\ chain' = [n \in Dials |-> IF n = s THEN "read" ELSE IF n = from THEN "reset" ELSE chain[n]]
  BY DEF Connected, close
<1>3. lost = "no"
  BY <1>1 DEF ConnectionInv, OneConnection, Going, TypeOK, Dials
<1>4. \A n \in Dials : n # s => link'[n] = link[n]
  BY <1>1, <1>2 DEF ConnectionInv, TypeOK
<1>5. link'[s] = "fresh" /\ chain'[s] = "read" /\ writer'[s] = "start"
  BY <1>1, <1>2 DEF ConnectionInv, TypeOK
<1>6. \A n \in Dials : n # s => chain'[n] = IF n = socket THEN "reset" ELSE chain[n]
  BY <1>2
<1>7. \A n \in Dials : n < s => link[n] = "closed"
  BY <1>1 DEF ConnectionInv, OneConnection, Dials
<1>8. \A n \in Dials : n # socket => chain[n] \notin {"read", "close", "check", "set", "dial"}
  BY DEF ConnectionInv, OneConnection, Going
<1>9. OneConnection'
  <2>1. \A n \in Dials : Going(n)' => n = socket' /\ lost' = "no"
    BY <1>1, <1>2, <1>3, <1>6, <1>8 DEF Going
  <2>2. Going(socket)'
    BY <1>1, <1>5 DEF Going
  <2>3. \A n \in Dials : n < socket' => link'[n] = "closed"
    BY <1>1, <1>4, <1>7 DEF Dials
  <2>4. reconnecting' => \E n \in Dials : chain'[n] \in {"dial", "reset"}
    <3> SUFFICES ASSUME reconnecting' PROVE \E n \in Dials : chain'[n] \in {"dial", "reset"}
      OBVIOUS
    <3>1. PICK n \in Dials : chain[n] \in {"dial", "reset"}
      BY <1>2 DEF ConnectionInv, OneConnection
    <3>2. n # s
      BY <1>1, <3>1 DEF ConnectionInv, Dials
    <3>3. QED
      BY <1>6, <3>1, <3>2
  <2>5. QED
    BY <2>1, <2>2, <2>3, <2>4 DEF OneConnection
<1>10. \A n \in Dials : chain'[n] = "none" <=> n > s
  BY <1>1, <1>5, <1>6 DEF ConnectionInv, Dials
<1>11. \A n \in Dials : chain'[n] \in {"check", "set", "dial"} => link'[n] = "closed"
  BY <1>1, <1>4, <1>5, <1>6, <1>8 DEF ConnectionInv
<1>12. QED
  BY <1>1, <1>2, <1>5, <1>9, <1>10, <1>11 DEF ConnectionInv, Reading, Live

\* A step of the chain of the connection of the day, or the last of an older one.
LEMMA ChainKeeps ==
  ASSUME ConnectionInv, TypeOK', NEW n \in Dials,
         ReaderFails(n) \/ ReaderCloses(n) \/ CheckFlag(n) \/ SetFlag(n)
           \/ DialFails(n) \/ ResetFlag(n)
  PROVE  ConnectionInv'
<1> USE DEF sock, writers, close, OneConnection, Going
<1>1. \A m \in Dials : m # n => chain'[m] = chain[m]
  BY DEF ConnectionInv, TypeOK, ReaderFails, ReaderCloses, CheckFlag, SetFlag, DialFails, ResetFlag
<1>2. CASE ReaderFails(n)
  <2>1. chain[n] = "read" /\ chain'[n] = "close" /\ connected' = FALSE
    BY <1>2 DEF ReaderFails, Reading, ConnectionInv, TypeOK
  <2>2. QED
    BY <1>1, <1>2, <2>1 DEF ReaderFails, ConnectionInv, Live
<1>3. CASE ReaderCloses(n)
  <2>1. chain[n] = "close" /\ chain'[n] = "check" /\ n = socket
    BY <1>3 DEF ReaderCloses, ConnectionInv, TypeOK
  <2>2. link'[n] = "closed" /\ \A m \in Dials : m # n => link'[m] = link[m]
    BY <1>3, <2>1 DEF ReaderCloses, CloseSocket, ConnectionInv, TypeOK
  <2>3. QED
    BY <1>1, <1>3, <2>1, <2>2 DEF ReaderCloses, ConnectionInv, Live, Reading
<1>4. CASE CheckFlag(n)
  <2>1. chain[n] = "check" /\ n = socket /\ chain'[n] = IF reconnecting THEN "done" ELSE "set"
    BY <1>4 DEF CheckFlag, ConnectionInv, TypeOK
  <2>2. reconnecting' => \E m \in Dials : chain'[m] \in {"dial", "reset"}
    BY <1>1, <1>4, <2>1 DEF CheckFlag, ConnectionInv
  <2>3. lost' = IF reconnecting THEN "skipped" ELSE lost
    BY <1>4 DEF CheckFlag
  <2>4. UNCHANGED <<sock, writers, close>>
    BY <1>4 DEF CheckFlag
  <2>5. OneConnection'
    BY <1>1, <2>1, <2>2, <2>3, <2>4 DEF ConnectionInv
  <2>6. QED
    BY <1>1, <2>1, <2>4, <2>5 DEF ConnectionInv, Live, Reading, Dials
<1>5. CASE SetFlag(n)
  <2>1. chain[n] = "set" /\ chain'[n] = "dial"
    BY <1>5 DEF SetFlag, ConnectionInv, TypeOK
  <2>2. QED
    BY <1>1, <1>5, <2>1 DEF SetFlag, ConnectionInv, Live, Reading
<1>6. CASE DialFails(n)
  <2>1. chain[n] = "dial" /\ n = socket
    BY <1>6 DEF DialFails, ConnectionInv
  <2>2. \/ UNCHANGED <<chain, lost>>
        \/ chain'[n] = "reset" /\ lost' = "failed"
    BY <1>6 DEF DialFails, ConnectionInv, TypeOK
  <2>3. reconnecting' => \E m \in Dials : chain'[m] \in {"dial", "reset"}
    BY <1>1, <1>6, <2>1, <2>2 DEF DialFails, ConnectionInv
  <2>4. UNCHANGED <<sock, writers, close>>
    BY <1>6 DEF DialFails
  <2>5. OneConnection'
    BY <1>1, <2>1, <2>2, <2>3, <2>4 DEF ConnectionInv
  <2>6. QED
    BY <1>1, <2>1, <2>2, <2>4, <2>5 DEF ConnectionInv, Live, Reading, Dials
<1>7. CASE ResetFlag(n)
  <2>1. chain[n] = "reset" /\ chain'[n] = "done" /\ reconnecting' = FALSE
    BY <1>7 DEF ResetFlag, ConnectionInv, TypeOK
  <2>2. QED
    BY <1>1, <1>7, <2>1 DEF ResetFlag, ConnectionInv, Live, Reading
<1>8. QED
  BY <1>2, <1>3, <1>4, <1>5, <1>6, <1>7

\* A step that leaves the chains alone and opens no socket.
LEMMA OthersKeep ==
  ASSUME ConnectionInv, TypeOK', UNCHANGED <<socket, chains>>,
         connected' => connected, done => done',
         \A n \in Dials : link[n] = "closed" => link'[n] = "closed",
         Live' /\ ~done' => Live /\ writer'[socket] \in {"start", "run"}
  PROVE  ConnectionInv'
BY DEF ConnectionInv, OneConnection, chains, Going, Reading

LEMMA ConnectionStep == ConnectionInv /\ [Next]_vars => ConnectionInv'
<1> SUFFICES ASSUME ConnectionInv, [Next]_vars PROVE ConnectionInv'
  OBVIOUS
<1>1. TypeOK /\ TypeOK'
  BY NodeTypeStep DEF ConnectionInv
<1>2. Live /\ ~done => writer[socket] \in {"start", "run"}
  BY DEF ConnectionInv
<1> USE DEF sock, chains, writers, close, CloseSocket, Panic
<1>3. CASE Open
  <2>1. 0 \in 0..MaxDials
    BY NodeAssumption
  <2>2. QED
    BY <1>1, <1>3, <2>1, DialKeeps DEF Open
<1>4. ASSUME NEW n \in Dials, Redial(n) PROVE ConnectionInv'
  <2>1. n \in 0..MaxDials /\ n = socket /\ chain[n] = "dial"
    BY <1>4, NodeAssumption DEF Redial, ConnectionInv, OneConnection, Going, Dials
  <2>2. QED
    BY <1>1, <1>4, <2>1, DialKeeps DEF Redial
<1>5. ASSUME NEW n \in Dials, Chain(n) PROVE ConnectionInv'
  BY <1>1, <1>4, <1>5, ChainKeeps DEF Chain
<1>6. CASE PeerVanishes
  <2>1. link' = [link EXCEPT ![socket] = "gone"] /\ link[socket] # "closed" /\ socket \in Dials
    BY <1>1, <1>6, NodeAssumption DEF PeerVanishes, Live, TypeOK, Dials
  <2>2. ~Live' /\ \A n \in Dials : link[n] = "closed" => link'[n] = "closed"
    BY <1>1, <1>6, <2>1 DEF PeerVanishes, Live, TypeOK
  <2>3. QED
    BY <1>1, <1>6, <2>2, OthersKeep DEF PeerVanishes
<1>7. ASSUME UNCHANGED <<socket, chains>>, connected' => connected, done => done', UNCHANGED writer,
             link' = link \/ CloseSocket \/ (Live /\ link' = [link EXCEPT ![socket] = "open"])
      PROVE  ConnectionInv'
  <2>1. \A n \in Dials : link[n] = "closed" => link'[n] = "closed"
    BY <1>1, <1>7, NodeAssumption DEF Live, TypeOK, Dials
  <2>2. Live' /\ ~done' => Live
    BY <1>1, <1>7, NodeAssumption DEF Live, TypeOK, Dials
  <2>3. QED
    BY <1>1, <1>2, <1>7, <2>1, <2>2, OthersKeep
<1>8. CASE ConcurrentWrite \/ EmitEvent \/ CloseDone \/ CloserCloses \/ CloseFlag
  BY <1>1, <1>7, <1>8 DEF ConcurrentWrite, EmitEvent, CloseDone, CloserCloses, CloseFlag, TypeOK
<1>9. ASSUME NEW n \in Dials, Handshake(n) PROVE ConnectionInv'
  <2>1. UNCHANGED <<socket, chains, connected, done, writer>>
    BY <1>9 DEF Handshake
  <2>2. link' = link \/ (Live /\ link' = [link EXCEPT ![socket] = "open"])
    BY <1>9 DEF Handshake
  <2>3. QED
    BY <1>7, <2>1, <2>2
<1>10. ASSUME NEW n \in Dials, Writer(n) \/ WriterSends(n) PROVE ConnectionInv'
  <2>1. CASE WriterSends(n)
    BY <1>7, <2>1 DEF WriterSends
  <2>2. ASSUME UNCHANGED <<sock, chains, close>>, writer[n] \in {"start", "run"},
               writer' = [writer EXCEPT ![n] = "run"] \/ ~Live \/ done
        PROVE  ConnectionInv'
    <3>1. Live' /\ ~done' => Live /\ writer'[socket] \in {"start", "run"}
      BY <1>1, <1>2, <2>2, NodeAssumption DEF Live, TypeOK, Dials
    <3>2. QED
      BY <1>1, <2>2, <3>1, OthersKeep
  <2>3. CASE WriterStarts(n) \/ WriterPingFails(n) \/ WriterIsDone(n)
    BY <2>2, <2>3 DEF WriterStarts, WriterPingFails, WriterIsDone
  <2>4. CASE WriterLeaves(n)
    <3>1. ~Live' /\ \A m \in Dials : link[m] = "closed" => link'[m] = "closed"
      BY <1>1, <2>4, NodeAssumption DEF WriterLeaves, Live, TypeOK, Dials
    <3>2. QED
      BY <1>1, <2>4, <3>1, OthersKeep DEF WriterLeaves
  <2>5. QED
    BY <1>10, <2>1, <2>3, <2>4 DEF Writer
<1>11. CASE UNCHANGED vars
  BY <1>7, <1>11 DEF vars
<1>12. QED
  BY <1>3, <1>5, <1>6, <1>8, <1>9, <1>10, <1>11 DEF Next

\* There is one connection at a time, and one goroutine that will make the
\* next, although no field is locked (Connect, readPump, reconnect).
THEOREM AlwaysOneConnection == Spec => []OneConnection
<1>1. ConnectionInv => OneConnection
  BY DEF ConnectionInv
<1>2. QED
  BY <1>1, ConnectionInit, ConnectionStep, PTL DEF Spec

\* A connection that says it is connected is read, and written until it is
\* closed or breaks (readPump, writePump, EmitEvent).
THEOREM AlwaysServed == Spec => []ConnectedIsServed
<1>1. ConnectionInv => ConnectedIsServed
  BY NodeAssumption DEF ConnectionInv, ConnectedIsServed, TypeOK, Live, Reading, Dials
<1>2. QED
  BY <1>1, ConnectionInit, ConnectionStep, PTL DEF Spec
=============================================================================
