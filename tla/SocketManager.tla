--------------------------- MODULE SocketManager ---------------------------
(***************************************************************************)
(* The WebSocket server: managers/socket/manager.go and client.go.         *)
(*                                                                         *)
(* SocketManager keeps three tables under one mutex: clients by id, the    *)
(* ids of each user's clients, and rooms.  Each client has a ReadPump and  *)
(* a WritePump and a buffered channel Send between them and the emitters.  *)
(* EmitToUser, EmitToRoom, EmitToAll and CreateUserRoom go through a table *)
(* of which they read only a reference under the mutex: the slice of ids   *)
(* an emission ranges over is the one Unregister shifts in place, the map  *)
(* of a room the one joins and leaves write to.                            *)
(*                                                                         *)
(* A client is one connection, never made again.  What a channel holds is   *)
(* left out: it may be found full at any time.  A panic in any goroutine    *)
(* ends the process.  The event handlers, which the users of the package    *)
(* write, join and leave rooms.                                            *)
(***************************************************************************)
EXTENDS Integers, Sequences, FiniteSets

CONSTANTS
  Clients,   \* connections
  Users,
  Rooms,
  Emissions, \* goroutines that emit
  UserOf,    \* client -> its UserID
  None

ASSUME SocketAssumption ==
  /\ UserOf \in [Clients -> Users]
  /\ None \notin Clients \cup Users \cup Rooms

VARIABLES
  up,           \* the process runs
  clients,      \* the map of registered clients
  userRegistry, \* user -> the slice of its clients' ids
  rooms,        \* room -> its members; {}: there is no such room
  joined,       \* client -> the field Rooms
  reader,       \* where each ReadPump stands
  writer,       \* where each WritePump stands
  greeted,      \* clients whose handler has sent "connected"
  link,         \* client -> its connection
  emission      \* what each emitting goroutine does

tables == <<clients, userRegistry, rooms, joined>>
pumps == <<reader, writer, greeted, link>>
vars == <<up, tables, pumps, emission>>

\* A slice of ids and the capacity of the array behind it.
Slice == [ids : Seq(Clients), cap : Nat]
NoSlice == [ids |-> <<>>, cap |-> 0]

\* An emission to a user, or one that makes a room for a user ("join"), copies
\* the slice's header: view is what it sees through it, pos how far it is.  One
\* to a room or to all has left to visit.  shared: it still refers to the table's
\* own array or map.  told, twice: the clients it came to, and whether to one
\* twice; owed: those it is meant for, has not come to, and that have been there
\* all the time; shifted: the array was shifted meanwhile.
Kinds == {"user", "room", "all", "join"}
Emission ==
  [kind : Kinds, user : Users \cup {None}, room : Rooms \cup {None},
   at : {"next", "send", "evict"}, view : Seq(Clients), pos : Nat,
   left : SUBSET Clients, shared : BOOLEAN, target : Clients \cup {None},
   told : SUBSET Clients, twice : BOOLEAN, owed : SUBSET Clients, shifted : BOOLEAN]
Idle == [kind |-> "none"]
Busy(e) == emission[e] # Idle
ToUser(em) == em.kind \in {"user", "join"}
\* The emission ranges over the map of this room, not over one that was dropped.
RangesOver(em, r) == em.kind = "room" /\ em.room = r /\ em.shared

Members(u) == {c \in clients : UserOf[c] = u}
\* The channel Send is closed by ReadPump, last.
Closed(c) == reader[c] = "done"
-----------------------------------------------------------------------------
Init ==
  /\ up = TRUE
  /\ clients = {}
  /\ userRegistry = [u \in Users |-> NoSlice]
  /\ rooms = [r \in Rooms |-> {}]
  /\ joined = [c \in Clients |-> {}]
  /\ reader = [c \in Clients |-> "none"]
  /\ writer = [c \in Clients |-> "none"]
  /\ greeted = {}
  /\ link = [c \in Clients |-> "none"]
  /\ emission = [e \in Emissions |-> Idle]

Panic == up' = FALSE /\ UNCHANGED <<tables, pumps, emission>>

\* append: in place while the array has room, else into one twice as large.
Appended(s, c) ==
  [ids |-> Append(s.ids, c),
   cap |-> IF Len(s.ids) < s.cap THEN s.cap ELSE IF s.cap = 0 THEN 1 ELSE 2 * s.cap]

AfterAppend(em, u, c) ==
  LET s == userRegistry[u]
      n == Len(s.ids) + 1
  IN  IF ~ToUser(em) \/ em.user # u \/ ~em.shared THEN em
      ELSE IF n > s.cap THEN [em EXCEPT !.shared = FALSE]
      ELSE [em EXCEPT !.view = [i \in DOMAIN @ |-> IF i = n THEN c ELSE @[i]]]

\* What each emission sees after a step that changes the tables.
Emitting(After(_)) == [e \in Emissions |-> IF Busy(e) THEN After(emission[e]) ELSE Idle]

\* HandleWebSocket up to the start of the pumps: Register, under the mutex.
Register(c) ==
  LET u == UserOf[c]
  IN  /\ up /\ reader[c] = "none"
      /\ clients' = clients \cup {c}
      /\ userRegistry' = [userRegistry EXCEPT ![u] = Appended(@, c)]
      /\ emission' = Emitting(LAMBDA em : AfterAppend(em, u, c))
      /\ reader' = [reader EXCEPT ![c] = "read"]
      /\ writer' = [writer EXCEPT ![c] = "run"]
      /\ link' = [link EXCEPT ![c] = "open"]
      /\ UNCHANGED <<up, rooms, joined, greeted>>
-----------------------------------------------------------------------------
Place(s, c) == CHOOSE i \in DOMAIN s : s[i] = c
\* Mutant: the id is blanked, not taken out.
Blanked(s, i) == [s EXCEPT ![i] = None]

Without(s, i) == SubSeq(s, 1, i - 1) \o SubSeq(s, i + 1, Len(s))

\* append(ids[:i], ids[i+1:]...): what comes after i moves down one place, in
\* the array itself; the last place keeps what it had.
Shifted(view, ids, i) ==
  [j \in DOMAIN view |-> IF j >= i /\ j < Len(ids) THEN ids[j + 1] ELSE view[j]]

AfterRemoval(em, c) ==
  LET ids == userRegistry[UserOf[c]].ids
      i == Place(ids, c)
      own == ToUser(em) /\ em.user = UserOf[c] /\ em.shared
      within == {r \in joined[c] : RangesOver(em, r)}
  IN  [em EXCEPT !.owed = @ \ {c},
                 !.left = IF within # {} THEN @ \ {c} ELSE @,
                 !.view = IF own THEN Shifted(@, ids, i) ELSE @,
                 !.shifted = @ \/ (own /\ i < Len(ids)),
                 !.shared = @ /\ ~(own /\ Len(ids) = 1)
                              /\ \A r \in within : rooms[r] # {c}]

\* Mutant: only the table of clients forgets it.
RemoveClient(c) == clients' = clients \ {c} /\ UNCHANGED <<userRegistry, rooms>>

RemoveFromTables(c) ==
  LET u == UserOf[c]
      ids == userRegistry[u].ids
  IN  /\ clients' = clients \ {c}
      /\ userRegistry' =
           [userRegistry EXCEPT ![u] =
              IF Len(ids) = 1 THEN NoSlice ELSE [@ EXCEPT !.ids = Without(ids, Place(ids, c))]]
      /\ rooms' = [r \in Rooms |-> IF r \in joined[c] THEN rooms[r] \ {c} ELSE rooms[r]]

WithoutClient(c) == Emitting(LAMBDA em : AfterRemoval(em, c))

\* Unregister, under the mutex; a client that is not there is an error.
Unregister(c) ==
  /\ IF c \in clients
     THEN RemoveFromTables(c) /\ emission' = WithoutClient(c)
     ELSE UNCHANGED <<clients, userRegistry, rooms, emission>>
  /\ UNCHANGED joined

\* A map that is written while it is ranged over may end the process.
MayPanic(rs) == \E r \in rs, e \in Emissions : Busy(e) /\ RangesOver(emission[e], r)

\* clientJoinRoom, under the mutex; nobody asks whether the client is registered.
JoinRoom(c, r) ==
  /\ rooms' = [rooms EXCEPT ![r] = @ \cup {c}]
  /\ joined' = [joined EXCEPT ![c] = @ \cup {r}]

\* clientLeaveRoom, under the mutex.
AfterLeave(em, c, r) ==
  IF RangesOver(em, r)
  THEN [em EXCEPT !.owed = @ \ {c}, !.left = @ \ {c}, !.shared = rooms[r] # {c}]
  ELSE em

LeaveRoom(c, r) ==
  /\ rooms[r] # {}
  /\ rooms' = [rooms EXCEPT ![r] = @ \ {c}]
  /\ joined' = [joined EXCEPT ![c] = @ \ {r}]
  /\ emission' = Emitting(LAMBDA em : AfterLeave(em, c, r))

\* A handler of a message of the client, started by ProcessMessage in a
\* goroutine of its own, joins or leaves a room, maybe long after.
HandlerJoins(c, r) ==
  /\ up /\ reader[c] # "none"
  /\ \/ JoinRoom(c, r) /\ UNCHANGED <<up, clients, userRegistry, pumps, emission>>
     \/ MayPanic({r}) /\ Panic

HandlerLeaves(c, r) ==
  /\ up /\ reader[c] # "none"
  /\ \/ LeaveRoom(c, r) /\ UNCHANGED <<up, clients, userRegistry, pumps>>
     \/ MayPanic({r}) /\ Panic
-----------------------------------------------------------------------------
\* The other end goes away without a word.
PeerVanishes(c) ==
  /\ up /\ link[c] = "open"
  /\ link' = [link EXCEPT ![c] = "gone"]
  /\ UNCHANGED <<up, tables, reader, writer, greeted, emission>>

\* Mutant: ReadPump closes the channel before it unregisters the client.
CloseFirst(c) ==
  /\ up /\ reader[c] = "read" /\ link[c] # "open"
  /\ reader' = [reader EXCEPT ![c] = "done"]
  /\ UNCHANGED <<up, tables, writer, greeted, link, emission>>

\* ReadPump's ReadMessage fails, since the socket is shut or the read deadline
\* passed.  Its deferred calls: Unregister, ...
ReaderUnregisters(c) ==
  /\ up /\ reader[c] = "read" /\ link[c] # "open"
  /\ \/ /\ Unregister(c)
        /\ reader' = [reader EXCEPT ![c] = "close"]
        /\ UNCHANGED <<up, writer, greeted, link>>
     \/ c \in clients /\ MayPanic(joined[c]) /\ Panic

\* ... then Socket.Close and close(Send).
CloseSend(c) ==
  /\ up /\ reader[c] = "close"
  /\ reader' = [reader EXCEPT ![c] = "done"]
  /\ link' = [link EXCEPT ![c] = "shut"]
  /\ UNCHANGED <<up, tables, writer, greeted, emission>>

\* WritePump leaves when a write or a ping fails, when no pong has come for
\* long, or when the channel is closed.
WriterLeaves(c) ==
  /\ up /\ writer[c] = "run"
  /\ link[c] # "open" \/ Closed(c)
  /\ writer' = [writer EXCEPT ![c] = "done"]
  /\ link' = [link EXCEPT ![c] = "shut"]
  /\ UNCHANGED <<up, tables, reader, greeted, emission>>
-----------------------------------------------------------------------------
\* The start of an emission: what it is meant for, and what it reads of the
\* table under the mutex.
Begin(e, kind, user, room, view, left, meant) ==
  /\ up /\ ~Busy(e)
  /\ emission' = [emission EXCEPT ![e] =
       [kind |-> kind, user |-> user, room |-> room, at |-> "next", view |-> view, pos |-> 0,
        left |-> left, shared |-> TRUE, target |-> None, told |-> {}, twice |-> FALSE,
        owed |-> meant, shifted |-> FALSE]]
  /\ UNCHANGED <<up, tables, pumps>>

EmitToUser(e, u) ==
  userRegistry[u].ids # <<>> /\ Begin(e, "user", u, None, userRegistry[u].ids, {}, Members(u))
CreateUserRoom(e, u, r) ==
  userRegistry[u].ids # <<>> /\ Begin(e, "join", u, r, userRegistry[u].ids, {}, Members(u))
EmitToRoom(e, r) ==
  rooms[r] # {} /\ Begin(e, "room", None, r, <<>>, rooms[r], rooms[r] \cap clients)
EmitToAll(e) ==
  clients # {} /\ Begin(e, "all", None, None, <<>>, clients, clients)

\* The clients the loop may come to next.  A member that joined after the loop
\* over its room began may come up or not.
Upcoming(em) ==
  IF ToUser(em)
  THEN IF em.pos < Len(em.view) THEN {em.view[em.pos + 1]} ELSE {}
  ELSE em.left \cup (IF em.kind = "room" /\ em.shared THEN rooms[em.room] \ em.told ELSE {})
Exhausted(em) == em.left = {} /\ em.pos = Len(em.view)

Advance(em, c) ==
  [em EXCEPT !.left = @ \ {c}, !.pos = IF ToUser(em) THEN @ + 1 ELSE @,
             !.told = @ \cup {c}, !.owed = @ \ {c}, !.twice = @ \/ c \in em.told]

\* The loop looks the next id up under the mutex and passes over one that is
\* not registered; EmitToAll has the clients themselves.
NextClient(e, c) ==
  /\ up /\ Busy(e) /\ emission[e].at = "next"
  /\ c \in Upcoming(emission[e])
  /\ emission' = [emission EXCEPT ![e] =
       IF c \in clients \/ @.kind = "all"
       THEN [Advance(@, c) EXCEPT !.at = "send", !.target = c]
       ELSE Advance(@, c)]
  /\ UNCHANGED <<up, tables, pumps>>

Proceed(e) == emission' = [emission EXCEPT ![e].at = "next", ![e].target = None]

\* SendEvent puts the message into the channel or finds the channel full, which
\* makes for eviction; a closed channel panics.
Send(e) ==
  LET c == emission[e].target
  IN  /\ up /\ Busy(e) /\ emission[e].at = "send" /\ emission[e].kind # "join"
      /\ \/ ~Closed(c) /\ Proceed(e) /\ UNCHANGED <<up, tables, pumps>>
         \/ /\ ~Closed(c)
            /\ emission' = [emission EXCEPT ![e].at = "evict"]
            /\ UNCHANGED <<up, tables, pumps>>
         \/ Closed(c) /\ Panic

\* Mutant: an error ends the loop.
EvictAndStop(e) ==
  LET c == emission[e].target
  IN  /\ up /\ Busy(e) /\ emission[e].at = "evict" /\ c \in clients
      /\ RemoveFromTables(c)
      /\ emission' = [WithoutClient(c) EXCEPT ![e].at = "next", ![e].target = None, ![e].left = {},
                                             ![e].pos = Len(emission[e].view)]
      /\ UNCHANGED <<up, joined, pumps>>

\* Unregister for the full channel.  Nobody closes the connection.
Evict(e) ==
  LET c == emission[e].target
  IN  /\ up /\ Busy(e) /\ emission[e].at = "evict"
      /\ \/ /\ IF c \in clients
               THEN /\ RemoveFromTables(c)
                    /\ emission' = [WithoutClient(c) EXCEPT ![e].at = "next", ![e].target = None]
               ELSE UNCHANGED <<clients, userRegistry, rooms>> /\ Proceed(e)
            /\ UNCHANGED <<up, joined, pumps>>
         \/ c \in clients /\ MayPanic(joined[c]) /\ Panic

\* CreateUserRoom's step for a client.
JoinUserRoom(e) ==
  LET c == emission[e].target
      r == emission[e].room
  IN  /\ up /\ Busy(e) /\ emission[e].at = "send" /\ emission[e].kind = "join"
      /\ \/ JoinRoom(c, r) /\ Proceed(e) /\ UNCHANGED <<up, clients, userRegistry, pumps>>
         \/ MayPanic({r}) /\ Panic

Finish(e) ==
  /\ up /\ Busy(e) /\ emission[e].at = "next" /\ Exhausted(emission[e])
  /\ emission' = [emission EXCEPT ![e] = Idle]
  /\ UNCHANGED <<up, tables, pumps>>

\* HandleWebSocket's last call, once the pumps run.  ReadPump may be gone.
Greet(c) ==
  /\ up /\ reader[c] # "none" /\ c \notin greeted
  /\ \/ /\ ~Closed(c)
        /\ UNCHANGED <<clients, userRegistry, rooms, emission, joined>> \/ Unregister(c)
        /\ greeted' = greeted \cup {c}
        /\ UNCHANGED <<up, reader, writer, link>>
     \/ Closed(c) /\ Panic

\* Shutdown, under the mutex.  It writes to every socket, as WritePump may be
\* doing: the library panics at two writers.
Shutdown ==
  /\ up /\ clients # {}
  /\ \/ /\ link' = [c \in Clients |-> IF c \in clients THEN "shut" ELSE link[c]]
        /\ clients' = {}
        /\ userRegistry' = [u \in Users |-> NoSlice]
        /\ rooms' = [r \in Rooms |-> {}]
        /\ emission' = Emitting(LAMBDA em : [em EXCEPT !.owed = {}, !.shared = FALSE])
        /\ UNCHANGED <<up, joined, reader, writer, greeted>>
     \/ (\E c \in clients : writer[c] = "run") /\ Panic
-----------------------------------------------------------------------------
Pumps(c) ==
  ReaderUnregisters(c) \/ CloseSend(c) \/ WriterLeaves(c)

Emit(e) ==
  \/ \E u \in Users : EmitToUser(e, u) \/ \E r \in Rooms : CreateUserRoom(e, u, r)
  \/ \E r \in Rooms : EmitToRoom(e, r)
  \/ EmitToAll(e)
  \/ \E c \in Clients : NextClient(e, c)
  \/ Send(e) \/ Evict(e) \/ JoinUserRoom(e) \/ Finish(e)

Next ==
  \/ \E c \in Clients : Register(c) \/ Greet(c) \/ PeerVanishes(c) \/ Pumps(c)
  \/ \E c \in Clients, r \in Rooms : HandlerJoins(c, r) \/ HandlerLeaves(c, r)
  \/ \E e \in Emissions : Emit(e)
  \/ Shutdown

Spec == Init /\ [][Next]_vars

\* The runtime gets every pump on; deadlines and pings make a dead connection
\* known to both.
FairSpec ==
  Spec /\ \A c \in Clients :
    /\ WF_vars(ReaderUnregisters(c) \/ CloseSend(c))
    /\ WF_vars(WriterLeaves(c))
-----------------------------------------------------------------------------
TypeOK ==
  /\ up \in BOOLEAN
  /\ clients \subseteq Clients /\ greeted \subseteq Clients
  /\ userRegistry \in [Users -> Slice]
  /\ rooms \in [Rooms -> SUBSET Clients]
  /\ joined \in [Clients -> SUBSET Rooms]
  /\ reader \in [Clients -> {"none", "read", "close", "done"}]
  /\ writer \in [Clients -> {"none", "run", "done"}]
  /\ link \in [Clients -> {"none", "open", "gone", "shut"}]
  /\ emission \in [Emissions -> Emission \cup {Idle}]

\* The tables agree: a user's slice lists exactly its registered clients, each
\* once; every member of a room knows it, and every registered client is in
\* the rooms it knows.  Unregister finds everything it must undo by these.
RegistryAgrees ==
  \A u \in Users :
    LET s == userRegistry[u]
    IN  /\ Len(s.ids) <= s.cap
        /\ \A c \in Clients : c \in Members(u) <=> \E i \in DOMAIN s.ids : s.ids[i] = c
        /\ \A i, j \in DOMAIN s.ids : s.ids[i] = s.ids[j] => i = j
RoomsAgree ==
  \A c \in Clients, r \in Rooms :
    /\ c \in rooms[r] => r \in joined[c]
    /\ c \in clients /\ r \in joined[c] => c \in rooms[r]

\* A closed channel belongs to a client no table names as registered: only an
\* emission that looked it up before can still send on it, and panic.
ClosedIsForgotten == \A c \in Clients : reader[c] \in {"none", "close", "done"} => c \notin clients

TablesAgree == RegistryAgrees /\ RoomsAgree /\ ClosedIsForgotten

\* Why an emission comes to everyone once.  Nobody is in a room or in the sight
\* of an emission before his registration, so an id that append writes into the
\* array is new to whoever reads it.
Known == {c \in Clients : reader[c] # "none"}
Seen(em) == {em.view[i] : i \in DOMAIN em.view}
Ahead(em) == (em.pos + 1)..Len(em.view)

\* The slice an emission ranges over, until it is shifted: its first places are
\* those of the table's ids while it is shared, and nobody is owed at the others.
SliceInv(em, ids) ==
  /\ ~em.twice
  /\ em.owed \subseteq {em.view[i] : i \in Ahead(em)}
  /\ \A i \in Ahead(em) : em.view[i] \notin em.told
  /\ \A i, j \in DOMAIN em.view : em.view[i] = em.view[j] => i = j
  /\ em.shared =>
       \A i \in DOMAIN em.view :
         IF i <= Len(ids) THEN em.view[i] = ids[i] ELSE em.view[i] \notin em.owed

MapInv(em) ==
  /\ em.view = <<>> /\ ~em.twice
  /\ em.owed \subseteq em.left /\ em.left \cap em.told = {}

EmissionInv(em, known, registry) ==
  /\ em.left \cup em.told \cup Seen(em) \subseteq known
  /\ em.kind \in {"join", "room"} => em.room \in Rooms
  /\ em.kind = "join" /\ em.at # "next" => em.target \in known
  /\ em.pos <= Len(em.view)
  /\ IF ToUser(em)
     THEN /\ em.user \in Users /\ em.left = {}
          /\ ~em.shifted => SliceInv(em, registry[em.user].ids)
     ELSE MapInv(em)

SocketInv ==
  /\ TablesAgree
  /\ \A c \in Clients : joined[c] # {} => c \in Known
  /\ \A e \in Emissions : Busy(e) => EmissionInv(emission[e], Known, userRegistry)

\* An emission that ends has come once to every client it is meant for that was
\* there all the time, whoever joined, left or was evicted meanwhile; the one
\* exception is an emission to a user whose slice was shifted under it.
EveryoneIsTold ==
  [][\A e \in Emissions :
       Finish(e) /\ ~emission[e].shifted =>
         emission[e].owed = {} /\ ~emission[e].twice]_vars

\* A client whose peer is gone is unregistered, its channel closed and its
\* pumps ended, unless the process dies first.
DeadPeerIsReleased ==
  \A c \in Clients :
    link[c] = "gone" ~> (~up \/ (c \notin clients /\ Closed(c) /\ writer[c] = "done"))
=============================================================================
