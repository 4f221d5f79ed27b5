------------------------ MODULE SocketManager_proofs ------------------------
(***************************************************************************)
(* Proofs about SocketManager for any number of clients, users, rooms and  *)
(* emissions.                                                              *)
(*                                                                         *)
(* The invariant falls into three parts: the pumps, the tables, and what   *)
(* each emission knows of them.  A step either leaves the tables alone and *)
(* moves a pump or one emission, or it changes the tables in one of five   *)
(* ways (a registration, a removal, a join, a leave, the shutdown), and    *)
(* each emission sees that change.                                         *)
(***************************************************************************)
EXTENDS SocketManager, SequenceTheorems, TLAPS

PumpsOK ==
  /\ up \in BOOLEAN
  /\ greeted \subseteq Clients
  /\ reader \in [Clients -> {"none", "read", "close", "done"}]
  /\ writer \in [Clients -> {"none", "run", "done"}]
  /\ link \in [Clients -> {"none", "open", "gone", "shut"}]

TablesOK ==
  /\ clients \subseteq Clients
  /\ userRegistry \in [Users -> Slice]
  /\ rooms \in [Rooms -> SUBSET Clients]
  /\ joined \in [Clients -> SUBSET Rooms]
  /\ TablesAgree
  /\ \A c \in Clients : joined[c] # {} => c \in Known

EmissionOK(em, known, registry) == em \in Emission /\ EmissionInv(em, known, registry)

EmissionsOK(emissions, known, registry) ==
  /\ emissions \in [Emissions -> Emission \cup {Idle}]
  /\ \A e \in Emissions : emissions[e] # Idle => EmissionOK(emissions[e], known, registry)

LEMMA InvParts ==
  TypeOK /\ SocketInv <=> PumpsOK /\ TablesOK /\ EmissionsOK(emission, Known, userRegistry)
<1>1. TypeOK /\ SocketInv => PumpsOK /\ TablesOK
  BY DEF TypeOK, SocketInv, PumpsOK, TablesOK
<1>2. TypeOK /\ SocketInv => EmissionsOK(emission, Known, userRegistry)
  BY DEF TypeOK, SocketInv, EmissionsOK, EmissionOK, Busy
<1>3. PumpsOK /\ TablesOK /\ EmissionsOK(emission, Known, userRegistry) => TypeOK
  BY DEF TypeOK, PumpsOK, TablesOK, EmissionsOK
<1>4. PumpsOK /\ TablesOK /\ EmissionsOK(emission, Known, userRegistry) => SocketInv
  BY DEF SocketInv, TablesOK, EmissionsOK, EmissionOK, Busy
<1>5. QED
  BY <1>1, <1>2, <1>3, <1>4

LEMMA PartsKept ==
  ASSUME PumpsOK', TablesOK', EmissionsOK(emission', Known', userRegistry')
  PROVE  TypeOK' /\ SocketInv'
<1>1. EmissionsOK(emission, Known, userRegistry)'
  OBVIOUS
<1>2. QED
  BY <1>1, InvParts, PTL

\* Every registered client and every member of a room has been registered.
LEMMA MembersAreKnown ==
  ASSUME TablesOK, PumpsOK
  PROVE  clients \subseteq Known /\ \A r \in Rooms : rooms[r] \subseteq Known
<1>1. clients \subseteq Known
  BY DEF TablesOK, TablesAgree, ClosedIsForgotten, Known
<1>2. ASSUME NEW r \in Rooms, NEW c \in rooms[r] PROVE c \in Known
  <2>1. c \in Clients /\ r \in joined[c]
    BY <1>2 DEF TablesOK, TablesAgree, RoomsAgree
  <2>2. QED
    BY <2>1 DEF TablesOK
<1>3. QED
  BY <1>1, <1>2

LEMMA SocketInit == Init => TypeOK /\ SocketInv
<1> SUFFICES ASSUME Init PROVE PumpsOK /\ TablesOK /\ EmissionsOK(emission, Known, userRegistry)
  BY InvParts
<1>1. PumpsOK
  BY DEF Init, PumpsOK
<1>2. NoSlice \in Slice /\ NoSlice.ids = <<>> /\ NoSlice.cap = 0
  BY DEF NoSlice, Slice
<1>3. userRegistry \in [Users -> Slice] /\ \A u \in Users : userRegistry[u] = NoSlice
  BY <1>2 DEF Init
<1>4. RegistryAgrees
  BY <1>2, <1>3 DEF Init, RegistryAgrees, Members
<1>5. RoomsAgree /\ ClosedIsForgotten
  BY DEF Init, RoomsAgree, ClosedIsForgotten
<1>6. TablesOK
  BY <1>3, <1>4, <1>5 DEF Init, TablesOK, TablesAgree
<1>7. EmissionsOK(emission, Known, userRegistry)
  BY DEF Init, EmissionsOK
<1>8. QED
  BY <1>1, <1>6, <1>7
-----------------------------------------------------------------------------
\* Steps that leave the tables and the emissions alone.
LEMMA QuietStep ==
  ASSUME TypeOK, SocketInv, UNCHANGED <<tables, emission>>, PumpsOK',
         \A c \in Clients : (reader'[c] = "none" <=> reader[c] = "none")
                            /\ (reader'[c] \in {"close", "done"} => c \notin clients)
  PROVE  TypeOK' /\ SocketInv'
<1>1. Known' = Known
  BY DEF Known
<1>2. UNCHANGED <<clients, userRegistry, rooms, joined, emission>>
  BY DEF tables
<1>3. TablesOK /\ EmissionsOK(emission, Known, userRegistry)
  BY InvParts
<1>4. ClosedIsForgotten'
  BY <1>2, <1>3 DEF TablesOK, TablesAgree, ClosedIsForgotten
<1>5. RegistryAgrees' /\ RoomsAgree'
  BY <1>2, <1>3 DEF TablesOK, TablesAgree, RegistryAgrees, RoomsAgree, Members
<1>6. TablesOK'
  BY <1>1, <1>2, <1>3, <1>4, <1>5 DEF TablesOK, TablesAgree
<1>7. QED
  BY <1>1, <1>2, <1>3, <1>6, PartsKept

LEMMA PanicStep == ASSUME TypeOK, SocketInv, Panic PROVE TypeOK' /\ SocketInv'
<1>1. PumpsOK /\ TablesOK
  BY InvParts
<1>2. PumpsOK' /\ UNCHANGED <<tables, emission, reader>>
  BY <1>1 DEF Panic, PumpsOK, pumps
<1>3. QED
  BY <1>1, <1>2, QuietStep DEF TablesOK, TablesAgree, ClosedIsForgotten

\* Steps that move one emission.
LEMMA OneEmission ==
  ASSUME TypeOK, SocketInv, NEW e \in Emissions, NEW new,
         emission' = [emission EXCEPT ![e] = new], UNCHANGED <<up, tables, pumps>>,
         new = Idle \/ EmissionOK(new, Known, userRegistry)
  PROVE  TypeOK' /\ SocketInv'
<1>1. PumpsOK /\ TablesOK /\ EmissionsOK(emission, Known, userRegistry)
  BY InvParts
<1>2. UNCHANGED <<up, clients, userRegistry, rooms, joined, reader, writer, greeted, link>>
  BY DEF tables, pumps
<1>3. PumpsOK' /\ Known' = Known
  BY <1>1, <1>2 DEF PumpsOK, Known
<1>4. TablesAgree'
  BY <1>1, <1>2 DEF TablesOK, TablesAgree, RegistryAgrees, RoomsAgree, ClosedIsForgotten, Members
<1>5. TablesOK'
  BY <1>1, <1>2, <1>3, <1>4 DEF TablesOK
<1>6. EmissionsOK(emission', Known, userRegistry)
  BY <1>1 DEF EmissionsOK, EmissionOK
<1>7. QED
  BY <1>2, <1>3, <1>5, <1>6, PartsKept

LEMMA EmissionFields ==
  ASSUME NEW em \in Emission
  PROVE  /\ em.kind \in Kinds /\ em.user \in Users \cup {None} /\ em.room \in Rooms \cup {None}
         /\ em.at \in {"next", "send", "evict"} /\ em.view \in Seq(Clients) /\ em.pos \in Nat
         /\ em.left \in SUBSET Clients /\ em.shared \in BOOLEAN /\ em.target \in Clients \cup {None}
         /\ em.told \in SUBSET Clients /\ em.twice \in BOOLEAN /\ em.owed \in SUBSET Clients
         /\ em.shifted \in BOOLEAN
         /\ Len(em.view) \in Nat /\ DOMAIN em.view = 1..Len(em.view)
<1>1. em.view \in Seq(Clients)
  BY DEF Emission
<1>2. QED
  BY <1>1 DEF Emission

LEMMA BusyIsOK ==
  ASSUME TypeOK, SocketInv, NEW e \in Emissions, Busy(e)
  PROVE  EmissionOK(emission[e], Known, userRegistry)
BY InvParts DEF EmissionsOK, Busy

\* A new emission sees what it was made for.
LEMMA BeginStep ==
  ASSUME TypeOK, SocketInv, NEW e \in Emissions,
         NEW kind \in Kinds, NEW user \in Users \cup {None}, NEW room \in Rooms \cup {None},
         NEW view \in Seq(Clients), NEW left \in SUBSET Clients, NEW meant \in SUBSET Clients,
         Begin(e, kind, user, room, view, left, meant),
         left \cup {view[i] : i \in DOMAIN view} \subseteq Known,
         kind \in {"join", "room"} => room \in Rooms,
         IF kind \in {"user", "join"}
         THEN left = {} /\ user \in Users /\ view = userRegistry[user].ids /\ meant = Members(user)
         ELSE view = <<>> /\ meant \subseteq left
  PROVE  TypeOK' /\ SocketInv'
<1> DEFINE em ==
      [kind |-> kind, user |-> user, room |-> room, at |-> "next", view |-> view, pos |-> 0,
       left |-> left, shared |-> TRUE, target |-> None, told |-> {}, twice |-> FALSE,
       owed |-> meant, shifted |-> FALSE]
<1>1. em \in Emission
  BY DEF Emission
<1>2. /\ em.kind = kind /\ em.user = user /\ em.room = room /\ em.at = "next" /\ em.view = view
      /\ em.pos = 0 /\ em.left = left /\ em.told = {} /\ ~em.twice /\ em.owed = meant
      /\ ~em.shifted
  OBVIOUS
<1>3. emission' = [emission EXCEPT ![e] = em] /\ UNCHANGED <<up, tables, pumps>>
  BY DEF Begin
<1> HIDE DEF em
<1>4. Len(view) \in Nat /\ DOMAIN view = 1..Len(view)
  OBVIOUS
<1>5. Seen(em) \subseteq Known /\ Ahead(em) = DOMAIN view
  BY <1>2, <1>4 DEF Seen, Ahead
<1>6. CASE ToUser(em)
  <2>1. left = {} /\ user \in Users /\ view = userRegistry[user].ids /\ meant = Members(user)
    BY <1>2, <1>6 DEF ToUser
  <2>2. /\ \A c \in Clients : c \in Members(user) <=> \E i \in DOMAIN view : view[i] = c
        /\ \A i, j \in DOMAIN view : view[i] = view[j] => i = j
    BY <2>1 DEF SocketInv, TablesAgree, RegistryAgrees
  <2>3. SliceInv(em, userRegistry[user].ids)
    <3>1. em.owed \subseteq {em.view[i] : i \in Ahead(em)}
      BY <1>2, <1>5, <2>1, <2>2
    <3>2. \A i \in DOMAIN view : i <= Len(view)
      BY <1>4
    <3>3. QED
      BY <1>2, <1>5, <2>1, <2>2, <3>1, <3>2 DEF SliceInv
  <2>4. EmissionInv(em, Known, userRegistry)
    BY <1>2, <1>4, <1>5, <1>6, <2>1, <2>3 DEF EmissionInv
  <2>5. QED
    BY <1>1, <1>3, <2>4, OneEmission DEF EmissionOK
<1>7. CASE ~ToUser(em)
  <2>1. view = <<>> /\ meant \subseteq left
    BY <1>2, <1>7 DEF ToUser
  <2>2. MapInv(em)
    BY <1>2, <2>1 DEF MapInv
  <2>3. EmissionInv(em, Known, userRegistry)
    BY <1>2, <1>4, <1>5, <1>7, <2>2 DEF EmissionInv
  <2>4. QED
    BY <1>1, <1>3, <2>3, OneEmission DEF EmissionOK
<1>8. QED
  BY <1>6, <1>7

LEMMA StartStep ==
  ASSUME TypeOK, SocketInv, NEW e \in Emissions,
         \/ \E u \in Users : EmitToUser(e, u) \/ \E r \in Rooms : CreateUserRoom(e, u, r)
         \/ \E r \in Rooms : EmitToRoom(e, r)
         \/ EmitToAll(e)
  PROVE  TypeOK' /\ SocketInv'
<1>1. PumpsOK /\ TablesOK
  BY InvParts
<1>2. /\ clients \subseteq Known /\ clients \in SUBSET Clients
      /\ \A r \in Rooms : rooms[r] \subseteq Known /\ rooms[r] \in SUBSET Clients
                          /\ rooms[r] \cap clients \in SUBSET Clients
  BY <1>1, MembersAreKnown DEF TablesOK
<1>3. ASSUME NEW u \in Users
      PROVE  /\ userRegistry[u].ids \in Seq(Clients) /\ Members(u) \in SUBSET Clients
             /\ {userRegistry[u].ids[i] : i \in DOMAIN userRegistry[u].ids} \subseteq Known
  <2>1. userRegistry[u].ids \in Seq(Clients)
    BY <1>1 DEF TablesOK, Slice
  <2>2. \A i \in DOMAIN userRegistry[u].ids : userRegistry[u].ids[i] \in Members(u)
    BY <1>1, <2>1 DEF TablesOK, TablesAgree, RegistryAgrees
  <2>3. Members(u) \subseteq Known /\ Members(u) \in SUBSET Clients
    BY <1>2 DEF Members
  <2>4. QED
    BY <2>1, <2>2, <2>3
<1>4. "user" \in Kinds /\ "room" \in Kinds /\ "all" \in Kinds /\ "join" \in Kinds
  BY DEF Kinds
<1>5. <<>> \in Seq(Clients) /\ {<<>>[i] : i \in DOMAIN <<>>} = {} /\ {} \in SUBSET Clients
  OBVIOUS
<1>6. ASSUME NEW u \in Users, EmitToUser(e, u) PROVE TypeOK' /\ SocketInv'
  <2>1. Begin(e, "user", u, None, userRegistry[u].ids, {}, Members(u))
    BY <1>6 DEF EmitToUser
  <2>2. {} \cup {userRegistry[u].ids[i] : i \in DOMAIN userRegistry[u].ids} \subseteq Known
    BY <1>3
  <2>3. IF "user" \in {"user", "join"}
        THEN {} = {} /\ u \in Users /\ userRegistry[u].ids = userRegistry[u].ids
             /\ Members(u) = Members(u)
        ELSE userRegistry[u].ids = <<>> /\ Members(u) \subseteq {}
    OBVIOUS
  <2>4. "user" \in {"join", "room"} => None \in Rooms
    OBVIOUS
  <2>5. QED
    BY <1>3, <1>4, <1>5, <2>1, <2>2, <2>3, <2>4, BeginStep
<1>7. ASSUME NEW u \in Users, NEW r \in Rooms, CreateUserRoom(e, u, r) PROVE TypeOK' /\ SocketInv'
  <2>1. Begin(e, "join", u, r, userRegistry[u].ids, {}, Members(u))
    BY <1>7 DEF CreateUserRoom
  <2>2. {} \cup {userRegistry[u].ids[i] : i \in DOMAIN userRegistry[u].ids} \subseteq Known
    BY <1>3
  <2>3. IF "join" \in {"user", "join"}
        THEN {} = {} /\ u \in Users /\ userRegistry[u].ids = userRegistry[u].ids
             /\ Members(u) = Members(u)
        ELSE userRegistry[u].ids = <<>> /\ Members(u) \subseteq {}
    OBVIOUS
  <2>4. "join" \in {"join", "room"} => r \in Rooms
    OBVIOUS
  <2>5. QED
    BY <1>3, <1>4, <1>5, <2>1, <2>2, <2>3, <2>4, BeginStep
<1>8. ASSUME NEW r \in Rooms, EmitToRoom(e, r) PROVE TypeOK' /\ SocketInv'
  <2>1. Begin(e, "room", None, r, <<>>, rooms[r], rooms[r] \cap clients)
    BY <1>8 DEF EmitToRoom
  <2>2. rooms[r] \cup {<<>>[i] : i \in DOMAIN <<>>} \subseteq Known
    BY <1>2
  <2>3. IF "room" \in {"user", "join"}
        THEN rooms[r] = {} /\ None \in Users /\ <<>> = userRegistry[None].ids
             /\ rooms[r] \cap clients = Members(None)
        ELSE <<>> = <<>> /\ rooms[r] \cap clients \subseteq rooms[r]
    OBVIOUS
  <2>4. "room" \in {"join", "room"} => r \in Rooms
    OBVIOUS
  <2>5. QED
    BY <1>2, <1>4, <1>5, <2>1, <2>2, <2>3, <2>4, BeginStep
<1>9. ASSUME EmitToAll(e) PROVE TypeOK' /\ SocketInv'
  <2>1. Begin(e, "all", None, None, <<>>, clients, clients)
    BY <1>9 DEF EmitToAll
  <2>2. clients \cup {<<>>[i] : i \in DOMAIN <<>>} \subseteq Known
    BY <1>2
  <2>3. IF "all" \in {"user", "join"}
        THEN clients = {} /\ None \in Users /\ <<>> = userRegistry[None].ids
             /\ clients = Members(None)
        ELSE <<>> = <<>> /\ clients \subseteq clients
    OBVIOUS
  <2>4. "all" \in {"join", "room"} => None \in Rooms
    OBVIOUS
  <2>5. QED
    BY <1>2, <1>4, <1>5, <2>1, <2>2, <2>3, <2>4, BeginStep
<1>10. QED
  BY <1>6, <1>7, <1>8, <1>9

\* The loop's own place and target.
LEMMA MoveKeeps ==
  ASSUME NEW known, NEW registry, NEW em, EmissionOK(em, known, registry),
         NEW at \in {"next", "send", "evict"}, NEW target \in Clients \cup {None},
         em.kind = "join" /\ at # "next" => target \in known
  PROVE  EmissionOK([em EXCEPT !.at = at, !.target = target], known, registry)
<1> DEFINE new == [em EXCEPT !.at = at, !.target = target]
<1>1. em \in Emission /\ EmissionInv(em, known, registry)
  BY DEF EmissionOK
<1>2. /\ new \in Emission
      /\ new.at = at /\ new.target = target
      /\ new.kind = em.kind /\ new.user = em.user /\ new.room = em.room /\ new.view = em.view
      /\ new.pos = em.pos /\ new.left = em.left /\ new.shared = em.shared /\ new.told = em.told
      /\ new.twice = em.twice /\ new.owed = em.owed /\ new.shifted = em.shifted
  BY <1>1 DEF Emission
<1> HIDE DEF new
<1>3. Seen(new) = Seen(em) /\ Ahead(new) = Ahead(em) /\ (ToUser(new) <=> ToUser(em))
  BY <1>2 DEF Seen, Ahead, ToUser
<1>4. MapInv(em) => MapInv(new)
  BY <1>2 DEF MapInv
<1>5. ASSUME NEW ids, SliceInv(em, ids) PROVE SliceInv(new, ids)
  BY <1>2, <1>3, <1>5 DEF SliceInv
<1>6. EmissionInv(new, known, registry)
  BY <1>1, <1>2, <1>3, <1>4, <1>5 DEF EmissionInv
<1>7. QED
  BY <1>2, <1>6 DEF EmissionOK, new

\* Coming to the next client: what is ahead of the loop is new to it.
LEMMA AdvanceKeeps ==
  ASSUME TablesOK, PumpsOK, NEW registry, NEW em, EmissionOK(em, Known, registry),
         NEW c \in Upcoming(em)
  PROVE  c \in Known /\ EmissionOK(Advance(em, c), Known, registry)
<1> DEFINE new == Advance(em, c)
<1>1. em \in Emission /\ EmissionInv(em, Known, registry)
  BY DEF EmissionOK
<1>2. /\ em.pos \in Nat /\ em.left \in SUBSET Clients /\ em.told \in SUBSET Clients
      /\ em.owed \in SUBSET Clients /\ em.view \in Seq(Clients) /\ em.twice \in BOOLEAN
      /\ Len(em.view) \in Nat /\ DOMAIN em.view = 1..Len(em.view)
  BY <1>1, EmissionFields
<1>3. c \in Known
  <2>1. CASE ToUser(em)
    <3>1. em.pos < Len(em.view) /\ c = em.view[em.pos + 1]
      BY <2>1 DEF Upcoming
    <3>2. em.pos + 1 \in DOMAIN em.view
      BY <1>2, <3>1
    <3>3. QED
      BY <1>1, <3>1, <3>2 DEF EmissionInv, Seen
  <2>2. CASE ~ToUser(em)
    <3>1. c \in em.left \/ (em.kind = "room" /\ c \in rooms[em.room])
      BY <2>2 DEF Upcoming
    <3>2. em.kind = "room" => em.room \in Rooms
      BY <1>1 DEF EmissionInv
    <3>3. QED
      BY <1>1, <3>1, <3>2, MembersAreKnown DEF EmissionInv
  <2>3. QED
    BY <2>1, <2>2
<1>4. c \in Clients
  BY <1>3 DEF Known
<1> DEFINE pos == IF ToUser(em) THEN em.pos + 1 ELSE em.pos
           twice == em.twice \/ c \in em.told
<1>5. pos \in Nat /\ twice \in BOOLEAN
  BY <1>2
<1>6. new = [em EXCEPT !.left = em.left \ {c}, !.pos = pos, !.told = em.told \cup {c},
                       !.owed = em.owed \ {c}, !.twice = twice]
  BY <1>1 DEF Advance, Emission
<1> HIDE DEF pos, twice, new
<1>7. /\ new \in Emission
      /\ new.left = em.left \ {c} /\ new.told = em.told \cup {c} /\ new.owed = em.owed \ {c}
      /\ new.pos = pos /\ new.twice = twice
      /\ new.at = em.at /\ new.target = em.target /\ new.kind = em.kind /\ new.user = em.user
      /\ new.room = em.room /\ new.view = em.view /\ new.shared = em.shared
      /\ new.shifted = em.shifted
  BY <1>1, <1>2, <1>4, <1>5, <1>6 DEF Emission
<1>8. Seen(new) = Seen(em) /\ (ToUser(new) <=> ToUser(em))
  BY <1>7 DEF Seen, ToUser
<1>9. CASE ToUser(em)
  <2>1. em.pos < Len(em.view) /\ c = em.view[em.pos + 1] /\ pos = em.pos + 1
    BY <1>9 DEF Upcoming, pos
  <2>2. em.pos + 1 \in Ahead(em) /\ em.pos + 1 \in DOMAIN em.view
    BY <1>2, <2>1 DEF Ahead
  <2>3. /\ Ahead(new) = Ahead(em) \ {em.pos + 1} /\ Ahead(em) \subseteq DOMAIN em.view
        /\ pos <= Len(em.view)
    BY <1>2, <1>7, <2>1 DEF Ahead
  <2>4. em.user \in Users /\ em.left = {}
    BY <1>1, <1>9 DEF EmissionInv
  <2>5. ASSUME ~em.shifted PROVE SliceInv(new, registry[em.user].ids)
    <3>1. SliceInv(em, registry[em.user].ids)
      BY <1>1, <1>9, <2>5 DEF EmissionInv
    <3>2. ~new.twice
      BY <1>7, <2>1, <2>2, <3>1 DEF SliceInv, twice
    <3>3. new.owed \subseteq {new.view[i] : i \in Ahead(new)}
      BY <1>7, <2>1, <2>3, <3>1 DEF SliceInv
    <3>4. \A i \in Ahead(new) : new.view[i] \notin new.told
      BY <1>7, <2>1, <2>2, <2>3, <3>1 DEF SliceInv
    <3>5. QED
      BY <1>7, <3>1, <3>2, <3>3, <3>4 DEF SliceInv
  <2>6. EmissionInv(new, Known, registry)
    BY <1>1, <1>3, <1>7, <1>8, <1>9, <2>3, <2>4, <2>5 DEF EmissionInv
  <2>7. QED
    BY <1>3, <1>7, <2>6 DEF EmissionOK, new
<1>10. CASE ~ToUser(em)
  <2>1. MapInv(em) /\ pos = em.pos
    BY <1>1, <1>10 DEF EmissionInv, pos
  <2>2. c \notin em.told
    BY <1>10, <2>1 DEF Upcoming, MapInv
  <2>3. MapInv(new)
    BY <1>7, <2>1, <2>2 DEF MapInv, twice
  <2>4. EmissionInv(new, Known, registry)
    BY <1>1, <1>3, <1>7, <1>8, <1>10, <2>1, <2>3 DEF EmissionInv
  <2>5. QED
    BY <1>3, <1>7, <2>4 DEF EmissionOK, new
<1>11. QED
  BY <1>9, <1>10

LEMMA LoopStep ==
  ASSUME TypeOK, SocketInv, NEW e \in Emissions,
         (\E c \in Clients : NextClient(e, c)) \/ Send(e) \/ Finish(e)
  PROVE  TypeOK' /\ SocketInv'
<1>1. Busy(e)
  BY DEF NextClient, Send, Finish
<1>2. EmissionOK(emission[e], Known, userRegistry)
  BY <1>1, BusyIsOK
<1>3. PumpsOK /\ TablesOK /\ emission \in [Emissions -> Emission \cup {Idle}]
  BY InvParts DEF EmissionsOK
<1> DEFINE em == emission[e]
<1>4. em \in Emission
  BY <1>2 DEF EmissionOK
<1>5. em.target \in Clients \cup {None} /\ None \in Clients \cup {None}
  BY <1>4, EmissionFields
<1>6. CASE Panic
  BY <1>6, PanicStep
<1>7. ASSUME NEW c \in Clients, NextClient(e, c) PROVE TypeOK' /\ SocketInv'
  <2> DEFINE new == Advance(em, c)
  <2>1. c \in Known /\ EmissionOK(new, Known, userRegistry)
    BY <1>2, <1>3, <1>7, AdvanceKeeps DEF NextClient
  <2>2. EmissionOK([new EXCEPT !.at = "send", !.target = c], Known, userRegistry)
    <3> HIDE DEF new
    <3>1. "send" \in {"next", "send", "evict"} /\ c \in Clients \cup {None}
      OBVIOUS
    <3>2. QED
      BY <2>1, <3>1, MoveKeeps
  <2>3. UNCHANGED <<up, tables, pumps>>
    BY <1>7 DEF NextClient
  <2>4. CASE c \in clients \/ em.kind = "all"
    <3>1. emission' = [emission EXCEPT ![e] = [new EXCEPT !.at = "send", !.target = c]]
      BY <1>3, <1>7, <2>4 DEF NextClient
    <3>2. QED
      BY <2>2, <2>3, <3>1, OneEmission
  <2>5. CASE ~(c \in clients \/ em.kind = "all")
    <3>1. emission' = [emission EXCEPT ![e] = new]
      BY <1>3, <1>7, <2>5 DEF NextClient
    <3>2. QED
      BY <2>1, <2>3, <3>1, OneEmission
  <2>6. QED
    BY <2>4, <2>5
<1>8. CASE Proceed(e) /\ UNCHANGED <<up, tables, pumps>>
  <2>1. emission' = [emission EXCEPT ![e] = [em EXCEPT !.at = "next", !.target = None]]
    BY <1>3, <1>4, <1>8 DEF Proceed, Emission
  <2>2. "next" \in {"next", "send", "evict"} /\ (em.kind = "join" /\ "next" # "next" => None \in Known)
    OBVIOUS
  <2>3. EmissionOK([em EXCEPT !.at = "next", !.target = None], Known, userRegistry)
    BY <1>2, <1>5, <2>2, MoveKeeps
  <2>4. QED
    BY <1>8, <2>1, <2>3, OneEmission
<1>9. CASE /\ em.kind # "join" /\ UNCHANGED <<up, tables, pumps>>
           /\ emission' = [emission EXCEPT ![e].at = "evict"]
  <2>1. emission' = [emission EXCEPT ![e] = [em EXCEPT !.at = "evict", !.target = em.target]]
    BY <1>3, <1>4, <1>9 DEF Emission
  <2>2. /\ "evict" \in {"next", "send", "evict"}
        /\ em.kind = "join" /\ "evict" # "next" => em.target \in Known
    BY <1>9
  <2>3. EmissionOK([em EXCEPT !.at = "evict", !.target = em.target], Known, userRegistry)
    BY <1>2, <1>5, <2>2, MoveKeeps
  <2>4. QED
    BY <1>9, <2>1, <2>3, OneEmission
<1>10. CASE Finish(e)
  BY <1>10, OneEmission DEF Finish
<1>11. CASE Send(e)
  BY <1>6, <1>8, <1>9, <1>11 DEF Send
<1>12. QED
  BY <1>7, <1>10, <1>11
-----------------------------------------------------------------------------
\* An emission that ranges over the array to which append writes sees the new
\* client behind all the others.
LEMMA AppendSeen ==
  ASSUME PumpsOK, TablesOK, NEW c \in Clients, reader[c] = "none",
         NEW em, EmissionOK(em, Known, userRegistry),
         NEW known, known = Known \cup {c},
         NEW registry,
         registry = [userRegistry EXCEPT ![UserOf[c]] = Appended(userRegistry[UserOf[c]], c)]
  PROVE  EmissionOK(AfterAppend(em, UserOf[c], c), known, registry)
<1> DEFINE u == UserOf[c]
           s == userRegistry[u]
           n == Len(s.ids) + 1
           new == AfterAppend(em, u, c)
<1>1. em \in Emission /\ EmissionInv(em, Known, userRegistry)
  BY DEF EmissionOK
<1>2. /\ em.left \in SUBSET Clients /\ em.told \in SUBSET Clients /\ em.owed \in SUBSET Clients
      /\ em.view \in Seq(Clients) /\ em.pos \in Nat
      /\ Len(em.view) \in Nat /\ DOMAIN em.view = 1..Len(em.view)
  BY <1>1, EmissionFields
<1>3. /\ u \in Users /\ s \in Slice /\ s.ids \in Seq(Clients) /\ s.cap \in Nat
      /\ Len(s.ids) \in Nat /\ Len(s.ids) <= s.cap
  BY SocketAssumption DEF TablesOK, TablesAgree, RegistryAgrees, Slice
<1>4. registry[u].ids = Append(s.ids, c) /\ \A v \in Users : v # u => registry[v] = userRegistry[v]
  BY <1>3 DEF TablesOK, Appended
<1>5. c \notin Known /\ Known \subseteq known
  BY DEF Known
<1>6. CASE ~ToUser(em) \/ em.user # u \/ ~em.shared
  <2>1. new = em
    BY <1>6 DEF AfterAppend
  <2>2. CASE ~ToUser(em)
    BY <1>1, <1>5, <2>1, <2>2 DEF EmissionInv, EmissionOK
  <2>3. CASE ToUser(em) /\ em.user # u
    BY <1>1, <1>4, <1>5, <2>1, <2>3 DEF EmissionInv, EmissionOK
  <2>4. CASE ToUser(em) /\ ~em.shared
    <3>1. ASSUME ~em.shifted PROVE SliceInv(em, registry[em.user].ids)
      BY <1>1, <2>4, <3>1 DEF EmissionInv, SliceInv
    <3>2. QED
      BY <1>1, <1>5, <2>1, <2>4, <3>1 DEF EmissionInv, EmissionOK
  <2>5. QED
    BY <1>6, <2>2, <2>3, <2>4
<1>7. CASE ToUser(em) /\ em.user = u /\ em.shared
  <2>1. /\ em.left = {} /\ Seen(em) \subseteq Known /\ em.told \subseteq Known
        /\ em.pos <= Len(em.view)
        /\ ~em.shifted => SliceInv(em, s.ids)
    BY <1>1, <1>7 DEF EmissionInv
  <2>2. CASE n > s.cap
    <3>1. new = [em EXCEPT !.shared = FALSE]
      BY <1>7, <2>2 DEF AfterAppend
    <3>2. /\ new \in Emission /\ ~new.shared
          /\ new.kind = em.kind /\ new.user = em.user /\ new.room = em.room /\ new.at = em.at
          /\ new.view = em.view /\ new.pos = em.pos /\ new.left = em.left /\ new.told = em.told
          /\ new.twice = em.twice /\ new.owed = em.owed /\ new.shifted = em.shifted
          /\ new.target = em.target
      BY <1>1, <3>1 DEF Emission
    <3> HIDE DEF new
    <3>3. Seen(new) = Seen(em) /\ Ahead(new) = Ahead(em) /\ (ToUser(new) <=> ToUser(em))
      BY <3>2 DEF Seen, Ahead, ToUser
    <3>4. ASSUME ~em.shifted PROVE SliceInv(new, registry[u].ids)
      BY <2>1, <3>2, <3>3, <3>4 DEF SliceInv
    <3>5. EmissionInv(new, known, registry)
      BY <1>1, <1>5, <1>7, <3>2, <3>3, <3>4 DEF EmissionInv
    <3>6. QED
      BY <3>2, <3>5 DEF EmissionOK, new
  <2>3. CASE n <= s.cap
    <3> DEFINE view == [i \in DOMAIN em.view |-> IF i = n THEN c ELSE em.view[i]]
    <3>1. view \in Seq(Clients) /\ Len(view) = Len(em.view) /\ DOMAIN view = DOMAIN em.view
      BY <1>2
    <3>2. new = [em EXCEPT !.view = view]
      BY <1>1, <1>3, <1>7, <2>3 DEF AfterAppend, Emission
    <3>3. \A i \in DOMAIN em.view : view[i] = IF i = n THEN c ELSE em.view[i]
      OBVIOUS
    <3> HIDE DEF view, new
    <3>4. /\ new \in Emission /\ new.view = view
          /\ new.kind = em.kind /\ new.user = em.user /\ new.room = em.room /\ new.at = em.at
          /\ new.shared = em.shared /\ new.pos = em.pos /\ new.left = em.left
          /\ new.told = em.told /\ new.twice = em.twice /\ new.owed = em.owed
          /\ new.shifted = em.shifted /\ new.target = em.target
      BY <1>1, <3>1, <3>2 DEF Emission
    <3>5. /\ Seen(new) \subseteq Seen(em) \cup {c} /\ Ahead(new) = Ahead(em)
          /\ Ahead(em) \subseteq DOMAIN em.view
          /\ (ToUser(new) <=> ToUser(em))
      BY <1>2, <3>1, <3>3, <3>4 DEF Seen, Ahead, ToUser
    <3>6. ASSUME ~em.shifted PROVE SliceInv(new, registry[u].ids)
      <4>1. SliceInv(em, s.ids)
        BY <2>1, <3>6
      <4>2. n \in DOMAIN em.view => em.view[n] \notin em.owed
        BY <1>3, <1>7, <4>1 DEF SliceInv
      <4>3. \A i \in DOMAIN em.view : em.view[i] # c
        BY <1>5, <2>1 DEF Seen
      <4>4. new.owed \subseteq {new.view[i] : i \in Ahead(new)}
        BY <3>3, <3>4, <3>5, <4>1, <4>2 DEF SliceInv
      <4>5. \A i \in Ahead(new) : new.view[i] \notin new.told
        BY <1>5, <2>1, <3>3, <3>4, <3>5, <4>1 DEF SliceInv
      <4>6. \A i, j \in DOMAIN new.view : new.view[i] = new.view[j] => i = j
        BY <3>1, <3>3, <3>4, <4>1, <4>3 DEF SliceInv
      <4>7. ASSUME NEW i \in DOMAIN new.view
            PROVE  IF i <= Len(registry[u].ids) THEN new.view[i] = registry[u].ids[i]
                   ELSE new.view[i] \notin new.owed
        <5>1. Len(registry[u].ids) = n /\ registry[u].ids[n] = c
              /\ \A j \in 1..Len(s.ids) : registry[u].ids[j] = s.ids[j]
          BY <1>3, <1>4
        <5>2. i \in DOMAIN em.view /\ i \in Nat /\ i >= 1
          BY <1>2, <3>1, <3>4
        <5>3. IF i <= Len(s.ids) THEN em.view[i] = s.ids[i] ELSE em.view[i] \notin em.owed
          BY <1>7, <4>1, <5>2 DEF SliceInv
        <5>4. new.view[i] = (IF i = n THEN c ELSE em.view[i]) /\ new.owed = em.owed
          BY <3>3, <3>4, <5>2
        <5>5. CASE i <= Len(s.ids)
          <6>1. i \in 1..Len(s.ids) /\ i # n /\ i <= n
            BY <1>3, <5>2, <5>5
          <6>2. QED
            BY <5>1, <5>3, <5>4, <5>5, <6>1
        <5>6. CASE i = n
          BY <1>3, <5>1, <5>4, <5>6
        <5>7. CASE ~(i <= Len(s.ids)) /\ i # n
          <6>1. ~(i <= n)
            BY <1>3, <5>2, <5>7
          <6>2. QED
            BY <5>1, <5>3, <5>4, <5>7, <6>1
        <5>8. QED
          BY <5>5, <5>6, <5>7
      <4>8. QED
        BY <3>4, <4>1, <4>4, <4>5, <4>6, <4>7 DEF SliceInv
    <3>7. EmissionInv(new, known, registry)
      BY <1>1, <1>5, <1>7, <2>1, <3>1, <3>4, <3>5, <3>6 DEF EmissionInv
    <3>8. QED
      BY <3>4, <3>7 DEF EmissionOK, new
  <2>4. QED
    BY <1>3, <2>2, <2>3
<1>8. QED
  BY <1>6, <1>7

LEMMA RegisterStep ==
  ASSUME TypeOK, SocketInv, NEW c \in Clients, Register(c)
  PROVE  TypeOK' /\ SocketInv'
<1> DEFINE u == UserOf[c]
           s == userRegistry[u]
<1>1. PumpsOK /\ TablesOK /\ EmissionsOK(emission, Known, userRegistry)
  BY InvParts
<1>2. /\ reader[c] = "none"
      /\ clients' = clients \cup {c}
      /\ userRegistry' = [userRegistry EXCEPT ![u] = Appended(s, c)]
      /\ emission' = [e \in Emissions |-> IF Busy(e) THEN AfterAppend(emission[e], u, c) ELSE Idle]
      /\ reader' = [reader EXCEPT ![c] = "read"]
      /\ writer' = [writer EXCEPT ![c] = "run"]
      /\ link' = [link EXCEPT ![c] = "open"]
      /\ UNCHANGED <<up, rooms, joined, greeted>>
  BY <1>1 DEF Register, Emitting, TablesOK
<1>3. PumpsOK'
  BY <1>1, <1>2 DEF PumpsOK
<1>4. Known' = Known \cup {c} /\ c \notin Known
  BY <1>1, <1>2 DEF Known, PumpsOK
<1>5. c \notin clients /\ joined[c] = {} /\ u \in Users
  BY <1>1, <1>2, <1>4, SocketAssumption DEF TablesOK, TablesAgree, ClosedIsForgotten
<1>6. s \in Slice /\ s.ids \in Seq(Clients) /\ s.cap \in Nat /\ Len(s.ids) \in Nat
      /\ Len(s.ids) <= s.cap
  BY <1>1, <1>5 DEF TablesOK, TablesAgree, RegistryAgrees, Slice
<1> DEFINE t == Appended(s, c)
<1>7. /\ t \in Slice /\ t.ids = Append(s.ids, c) /\ Len(t.ids) = Len(s.ids) + 1
      /\ Len(t.ids) <= t.cap
  <2>1. (IF Len(s.ids) < s.cap THEN s.cap ELSE IF s.cap = 0 THEN 1 ELSE 2 * s.cap) \in Nat
    BY <1>6
  <2>2. Len(s.ids) + 1 <= IF Len(s.ids) < s.cap THEN s.cap ELSE IF s.cap = 0 THEN 1 ELSE 2 * s.cap
    BY <1>6
  <2>3. Append(s.ids, c) \in Seq(Clients) /\ Len(Append(s.ids, c)) = Len(s.ids) + 1
    BY <1>6
  <2>4. QED
    BY <2>1, <2>2, <2>3 DEF Slice, Appended
<1> HIDE DEF t
<1>8. /\ userRegistry' \in [Users -> Slice] /\ userRegistry'[u] = t
      /\ \A v \in Users : v # u => userRegistry'[v] = userRegistry[v]
  BY <1>1, <1>2, <1>5, <1>7 DEF TablesOK, t
<1>9. \A v \in Users : Members(v)' = IF v = u THEN Members(u) \cup {c} ELSE Members(v)
  BY <1>2 DEF Members
<1>10. RegistryAgrees'
  <2>1. ASSUME NEW v \in Users
        PROVE  LET r == userRegistry'[v]
               IN  /\ Len(r.ids) <= r.cap
                   /\ \A d \in Clients : d \in Members(v)' <=> \E i \in DOMAIN r.ids : r.ids[i] = d
                   /\ \A i, j \in DOMAIN r.ids : r.ids[i] = r.ids[j] => i = j
    <3>1. /\ \A d \in Clients : d \in Members(v) <=> \E i \in DOMAIN userRegistry[v].ids :
                                                       userRegistry[v].ids[i] = d
          /\ \A i, j \in DOMAIN userRegistry[v].ids :
               userRegistry[v].ids[i] = userRegistry[v].ids[j] => i = j
          /\ Len(userRegistry[v].ids) <= userRegistry[v].cap
      BY <1>1 DEF TablesOK, TablesAgree, RegistryAgrees
    <3>2. CASE v # u
      BY <1>8, <1>9, <3>1, <3>2
    <3>3. CASE v = u
      <4> DEFINE old == s.ids
                 n == Len(s.ids) + 1
                 ids == t.ids
      <4>1. /\ DOMAIN old = 1..(n - 1) /\ n \in Nat /\ n >= 1 /\ DOMAIN ids = 1..n
            /\ ids[n] = c /\ \A i \in 1..(n - 1) : ids[i] = old[i]
        BY <1>6, <1>7
      <4>2. \A d \in Clients : d \in Members(u) <=> \E i \in DOMAIN old : old[i] = d
        BY <3>1, <3>3
      <4>3. \A i, j \in DOMAIN old : old[i] = old[j] => i = j
        BY <3>1, <3>3
      <4>4. \A i \in DOMAIN old : old[i] \in Clients
        BY <1>6
      <4>5. c \notin Members(u)
        BY <1>5 DEF Members
      <4> HIDE DEF old, n, ids
      <4>6. \A i \in DOMAIN old : old[i] # c
        BY <4>2, <4>4, <4>5
      <4>7. DOMAIN ids = DOMAIN old \cup {n} /\ \A i \in DOMAIN old : ids[i] = old[i]
        BY <4>1
      <4>8. \A d \in Clients : d \in Members(u) \cup {c} <=> \E i \in DOMAIN ids : ids[i] = d
        <5>1. ASSUME NEW d \in Clients, d \in Members(u) PROVE \E i \in DOMAIN ids : ids[i] = d
          BY <4>2, <4>7, <5>1
        <5>2. n \in DOMAIN ids /\ ids[n] = c
          BY <4>1, <4>7
        <5>3. ASSUME NEW d \in Clients, NEW i \in DOMAIN ids, ids[i] = d PROVE d \in Members(u) \cup {c}
          BY <4>2, <4>7, <5>2, <5>3
        <5>4. QED
          BY <5>1, <5>2, <5>3
      <4>9. \A i, j \in DOMAIN ids : ids[i] = ids[j] => i = j
        BY <4>1, <4>3, <4>6, <4>7
      <4>10. userRegistry'[v] = t /\ Members(v)' = Members(u) \cup {c}
        BY <1>8, <1>9, <3>3
      <4>11. QED
        BY <1>7, <4>8, <4>9, <4>10 DEF ids
    <3>4. QED
      BY <3>2, <3>3
  <2>2. QED
    BY <2>1 DEF RegistryAgrees
<1>11. RoomsAgree'
  BY <1>1, <1>2, <1>5 DEF TablesOK, TablesAgree, RoomsAgree
<1>12. ClosedIsForgotten'
  BY <1>1, <1>2 DEF TablesOK, TablesAgree, ClosedIsForgotten, PumpsOK
<1>13. TablesOK'
  BY <1>1, <1>2, <1>4, <1>8, <1>10, <1>11, <1>12 DEF TablesOK, TablesAgree
<1>14. EmissionsOK(emission', Known', userRegistry')
  <2>1. ASSUME NEW e \in Emissions, Busy(e)
        PROVE  EmissionOK(AfterAppend(emission[e], u, c), Known', userRegistry')
    BY <1>1, <1>2, <1>4, <2>1, BusyIsOK, AppendSeen
  <2>2. QED
    BY <1>2, <2>1 DEF EmissionsOK, EmissionOK
<1>15. QED
  BY <1>3, <1>13, <1>14, PartsKept
-----------------------------------------------------------------------------
\* What is left of a sequence without one of its places.
LEMMA TakenOut ==
  ASSUME NEW S, NEW s \in Seq(S), NEW i \in 1..Len(s)
  PROVE  /\ Without(s, i) \in Seq(S) /\ Len(Without(s, i)) = Len(s) - 1
         /\ \A j \in 1..(Len(s) - 1) : Without(s, i)[j] = IF j < i THEN s[j] ELSE s[j + 1]
<1> DEFINE a == SubSeq(s, 1, i - 1)
           b == SubSeq(s, i + 1, Len(s))
<1>1. Len(s) \in Nat /\ i \in Nat /\ 1 <= i /\ i <= Len(s)
  OBVIOUS
<1>2. /\ a \in Seq(S) /\ Len(a) = i - 1 /\ \A j \in 1..(i - 1) : a[j] = s[j]
  BY <1>1
<1>3. /\ b \in Seq(S) /\ Len(b) = Len(s) - i /\ \A j \in 1..(Len(s) - i) : b[j] = s[j + i]
  <2>1. CASE i = Len(s)
    BY <1>1, <2>1
  <2>2. CASE i < Len(s)
    BY <1>1, <2>2
  <2>3. QED
    BY <1>1, <2>1, <2>2
<1> DEFINE w == Without(s, i)
<1>4. w = a \o b
  BY DEF Without
<1> HIDE DEF a, b, w
<1>5. /\ w \in Seq(S) /\ Len(w) = Len(a) + Len(b)
      /\ \A j \in 1..(Len(a) + Len(b)) : w[j] = IF j <= Len(a) THEN a[j] ELSE b[j - Len(a)]
  BY <1>2, <1>3, <1>4, ConcatProperties
<1>6. ASSUME NEW j \in 1..(Len(s) - 1) PROVE w[j] = IF j < i THEN s[j] ELSE s[j + 1]
  <2>1. j \in 1..(Len(a) + Len(b)) /\ j \in Nat
    BY <1>1, <1>2, <1>3
  <2>2. CASE j < i
    <3>1. j \in 1..(i - 1) /\ j <= Len(a)
      BY <1>1, <1>2, <2>2
    <3>2. QED
      BY <1>2, <1>5, <2>1, <2>2, <3>1
  <2>3. CASE ~(j < i)
    <3>1. ~(j <= Len(a)) /\ j - Len(a) \in 1..(Len(s) - i) /\ (j - Len(a)) + i = j + 1
      BY <1>1, <1>2, <2>3
    <3>2. QED
      BY <1>3, <1>5, <2>1, <2>3, <3>1
  <2>4. QED
    BY <2>2, <2>3
<1>7. Len(w) = Len(s) - 1
  BY <1>1, <1>2, <1>3, <1>5
<1>8. QED
  BY <1>5, <1>6, <1>7 DEF w

LEMMA PlaceOfClient ==
  ASSUME TablesOK, NEW c \in clients
  PROVE  LET ids == userRegistry[UserOf[c]].ids
         IN  /\ UserOf[c] \in Users /\ ids \in Seq(Clients)
             /\ Len(ids) \in Nat /\ DOMAIN ids = 1..Len(ids)
             /\ Place(ids, c) \in 1..Len(ids) /\ ids[Place(ids, c)] = c
<1> DEFINE u == UserOf[c]
           ids == userRegistry[u].ids
<1>1. c \in Clients /\ u \in Users /\ c \in Members(u)
  BY SocketAssumption DEF TablesOK, Members
<1>2. ids \in Seq(Clients)
  BY <1>1 DEF TablesOK, Slice
<1>3. Len(ids) \in Nat /\ DOMAIN ids = 1..Len(ids)
  BY <1>2
<1>4. \E i \in DOMAIN ids : ids[i] = c
  BY <1>1 DEF TablesOK, TablesAgree, RegistryAgrees
<1>5. Place(ids, c) \in DOMAIN ids /\ ids[Place(ids, c)] = c
  <2> HIDE DEF ids
  <2>1. QED
    BY <1>4 DEF Place
<1>6. QED
  BY <1>1, <1>2, <1>3, <1>5

\* The registry without a client: its user's slice is one shorter, and the ids
\* behind its place have moved down.
LEMMA RegistryWithout ==
  ASSUME TablesOK, NEW c \in clients, RemoveFromTables(c)
  PROVE  LET u == UserOf[c]
             ids == userRegistry[u].ids
             i == Place(ids, c)
         IN  /\ userRegistry' \in [Users -> Slice]
             /\ \A v \in Users : v # u => userRegistry'[v] = userRegistry[v]
             /\ userRegistry'[u].ids \in Seq(Clients)
             /\ Len(userRegistry'[u].ids) = Len(ids) - 1
             /\ Len(userRegistry'[u].ids) <= userRegistry'[u].cap
             /\ \A j \in 1..(Len(ids) - 1) :
                  userRegistry'[u].ids[j] = IF j < i THEN ids[j] ELSE ids[j + 1]
<1> DEFINE u == UserOf[c]
           ids == userRegistry[u].ids
           i == Place(ids, c)
<1>1. /\ u \in Users /\ ids \in Seq(Clients) /\ Len(ids) \in Nat /\ i \in 1..Len(ids)
      /\ userRegistry \in [Users -> Slice] /\ Len(ids) <= userRegistry[u].cap
  BY PlaceOfClient DEF TablesOK, TablesAgree, RegistryAgrees
<1>2. userRegistry' =
        [userRegistry EXCEPT ![u] =
           IF Len(ids) = 1 THEN NoSlice ELSE [userRegistry[u] EXCEPT !.ids = Without(ids, i)]]
  BY <1>1 DEF RemoveFromTables
<1>3. CASE Len(ids) = 1
  <2>1. NoSlice \in Slice /\ NoSlice.ids = <<>> /\ NoSlice.cap = 0
    BY DEF NoSlice, Slice
  <2>2. userRegistry'[u] = NoSlice
    BY <1>1, <1>2, <1>3
  <2>3. userRegistry' \in [Users -> Slice] /\ \A v \in Users : v # u => userRegistry'[v] = userRegistry[v]
    BY <1>1, <1>2, <1>3, <2>1
  <2>4. <<>> \in Seq(Clients) /\ Len(<<>>) = 0 /\ 1..(Len(ids) - 1) = {}
    BY <1>3
  <2>5. userRegistry'[u].ids = <<>> /\ userRegistry'[u].cap = 0
    BY <2>1, <2>2
  <2>6. QED
    BY <1>3, <2>3, <2>4, <2>5
<1>4. CASE Len(ids) # 1
  <2> DEFINE w == Without(ids, i)
             t == [userRegistry[u] EXCEPT !.ids = w]
  <2>1. /\ w \in Seq(Clients) /\ Len(w) = Len(ids) - 1
        /\ \A j \in 1..(Len(ids) - 1) : w[j] = IF j < i THEN ids[j] ELSE ids[j + 1]
    BY <1>1, TakenOut
  <2> HIDE DEF w
  <2>2. t \in Slice /\ t.ids = w /\ t.cap = userRegistry[u].cap /\ t.cap \in Nat
    BY <1>1, <2>1 DEF Slice
  <2>3. userRegistry'[u] = t
    BY <1>1, <1>2, <1>4 DEF w
  <2>4. userRegistry' \in [Users -> Slice] /\ \A v \in Users : v # u => userRegistry'[v] = userRegistry[v]
    <3>1. userRegistry' = [userRegistry EXCEPT ![u] = t]
      BY <1>2, <1>4 DEF w
    <3>2. QED
      BY <1>1, <2>2, <3>1
  <2> HIDE DEF t
  <2>5. Len(w) <= t.cap
    BY <1>1, <2>1, <2>2
  <2>6. QED
    BY <2>1, <2>2, <2>3, <2>4, <2>5
<1>5. QED
  BY <1>3, <1>4

LEMMA RemovedTables ==
  ASSUME PumpsOK, TablesOK, NEW c \in clients, RemoveFromTables(c), joined' = joined,
         \A d \in Clients : (reader'[d] = "none" <=> reader[d] = "none")
                            /\ (reader'[d] \in {"close", "done"} => d \notin clients \/ d = c)
  PROVE  TablesOK' /\ Known' = Known
<1> DEFINE u == UserOf[c]
           ids == userRegistry[u].ids
           i == Place(ids, c)
           new == userRegistry'[u].ids
<1>1. /\ clients' = clients \ {c}
      /\ rooms' = [r \in Rooms |-> IF r \in joined[c] THEN rooms[r] \ {c} ELSE rooms[r]]
  BY DEF RemoveFromTables
<1>2. /\ u \in Users /\ ids \in Seq(Clients) /\ Len(ids) \in Nat /\ DOMAIN ids = 1..Len(ids)
      /\ i \in 1..Len(ids) /\ ids[i] = c
  BY PlaceOfClient
<1>3. /\ userRegistry' \in [Users -> Slice]
      /\ \A v \in Users : v # u => userRegistry'[v] = userRegistry[v]
      /\ new \in Seq(Clients) /\ Len(new) = Len(ids) - 1 /\ Len(new) <= userRegistry'[u].cap
      /\ \A j \in 1..(Len(ids) - 1) : new[j] = IF j < i THEN ids[j] ELSE ids[j + 1]
  BY RegistryWithout
<1>4. Known' = Known
  BY DEF Known
<1>5. \A v \in Users : Members(v)' = Members(v) \ {c}
  BY <1>1 DEF Members
<1>6. \A v \in Users : v # u => c \notin Members(v)
  BY DEF Members
<1>7. RegistryAgrees'
  <2>1. ASSUME NEW v \in Users
        PROVE  LET r == userRegistry'[v]
               IN  /\ Len(r.ids) <= r.cap
                   /\ \A d \in Clients : d \in Members(v)' <=> \E j \in DOMAIN r.ids : r.ids[j] = d
                   /\ \A j, k \in DOMAIN r.ids : r.ids[j] = r.ids[k] => j = k
    <3>1. /\ \A d \in Clients : d \in Members(v) <=> \E j \in DOMAIN userRegistry[v].ids :
                                                       userRegistry[v].ids[j] = d
          /\ \A j, k \in DOMAIN userRegistry[v].ids :
               userRegistry[v].ids[j] = userRegistry[v].ids[k] => j = k
          /\ Len(userRegistry[v].ids) <= userRegistry[v].cap
      BY DEF TablesOK, TablesAgree, RegistryAgrees
    <3>2. CASE v # u
      BY <1>3, <1>5, <1>6, <3>1, <3>2
    <3>3. CASE v = u
      <4> HIDE DEF ids, i, new
      <4>1. DOMAIN new = 1..(Len(ids) - 1)
        BY <1>2, <1>3
      <4> DEFINE Old(j) == IF j < i THEN j ELSE j + 1
      <4>2. \A j \in DOMAIN new : Old(j) \in DOMAIN ids /\ Old(j) # i /\ new[j] = ids[Old(j)]
        BY <1>2, <1>3, <4>1
      <4>3. \A k \in DOMAIN ids : k # i => \E j \in DOMAIN new : Old(j) = k
        <5> SUFFICES ASSUME NEW k \in DOMAIN ids, k # i PROVE \E j \in DOMAIN new : Old(j) = k
          OBVIOUS
        <5>1. CASE k < i
          <6>1. k \in DOMAIN new /\ Old(k) = k
            BY <1>2, <4>1, <5>1
          <6>2. QED
            BY <6>1
        <5>2. CASE k > i
          <6>1. k - 1 \in DOMAIN new /\ Old(k - 1) = k
            BY <1>2, <4>1, <5>2
          <6>2. QED
            BY <6>1
        <5>3. QED
          BY <1>2, <5>1, <5>2
      <4>4. \A j, k \in DOMAIN new : Old(j) = Old(k) => j = k
        BY <1>2, <4>1
      <4> HIDE DEF Old
      <4>5. \A d \in Clients : d \in Members(u) <=> \E k \in DOMAIN ids : ids[k] = d
        BY <3>1, <3>3 DEF ids
      <4>6. \A j, k \in DOMAIN ids : ids[j] = ids[k] => j = k
        BY <3>1, <3>3 DEF ids
      <4>7. \A d \in Clients : d \in Members(u) \ {c} <=> \E j \in DOMAIN new : new[j] = d
        <5>1. ASSUME NEW d \in Clients, d \in Members(u) \ {c} PROVE \E j \in DOMAIN new : new[j] = d
          <6>1. PICK k \in DOMAIN ids : ids[k] = d
            BY <4>5, <5>1
          <6>2. k # i
            BY <1>2, <5>1, <6>1
          <6>3. PICK j \in DOMAIN new : Old(j) = k
            BY <4>3, <6>2
          <6>4. QED
            BY <4>2, <6>1, <6>3
        <5>2. ASSUME NEW d \in Clients, NEW j \in DOMAIN new, new[j] = d PROVE d \in Members(u) \ {c}
          <6>1. Old(j) \in DOMAIN ids /\ Old(j) # i /\ ids[Old(j)] = d
            BY <4>2, <5>2
          <6>2. ids[Old(j)] # c
            BY <1>2, <4>6, <6>1
          <6>3. QED
            BY <4>5, <6>1, <6>2
        <5>3. QED
          BY <5>1, <5>2
      <4>8. \A j, k \in DOMAIN new : new[j] = new[k] => j = k
        BY <4>2, <4>4, <4>6
      <4>9. userRegistry'[v].ids = new /\ Members(v)' = Members(u) \ {c}
        BY <1>5, <3>3 DEF new
      <4>10. Len(new) <= userRegistry'[v].cap
        BY <1>3, <3>3
      <4>11. QED
        BY <4>7, <4>8, <4>9, <4>10
    <3>4. QED
      BY <3>2, <3>3
  <2>2. QED
    BY <2>1 DEF RegistryAgrees
<1>8. RoomsAgree'
  BY <1>1 DEF TablesOK, TablesAgree, RoomsAgree
<1>9. ClosedIsForgotten'
  BY <1>1 DEF TablesOK, TablesAgree, ClosedIsForgotten, PumpsOK
<1>10. rooms' \in [Rooms -> SUBSET Clients] /\ clients' \subseteq Clients
  BY <1>1 DEF TablesOK
<1>11. QED
  BY <1>3, <1>4, <1>7, <1>8, <1>9, <1>10 DEF TablesOK, TablesAgree

\* What an emission sees of a removal.  The shift moves nothing only if the
\* client was the last of the slice.
LEMMA RemovalSeen ==
  ASSUME PumpsOK, TablesOK, NEW c \in clients, RemoveFromTables(c),
         NEW em, EmissionOK(em, Known, userRegistry)
  PROVE  EmissionOK(AfterRemoval(em, c), Known, userRegistry')
<1> DEFINE u == UserOf[c]
           ids == userRegistry[u].ids
           i == Place(ids, c)
           own == ToUser(em) /\ em.user = u /\ em.shared
           within == {r \in joined[c] : RangesOver(em, r)}
           left == IF within # {} THEN em.left \ {c} ELSE em.left
           view == IF own THEN Shifted(em.view, ids, i) ELSE em.view
           shifted == em.shifted \/ (own /\ i < Len(ids))
           shared == em.shared /\ ~(own /\ Len(ids) = 1) /\ \A r \in within : rooms[r] # {c}
           new == AfterRemoval(em, c)
           later == userRegistry'[u].ids
<1>1. em \in Emission /\ EmissionInv(em, Known, userRegistry)
  BY DEF EmissionOK
<1>2. /\ em.left \in SUBSET Clients /\ em.told \in SUBSET Clients /\ em.owed \in SUBSET Clients
      /\ em.view \in Seq(Clients) /\ em.pos \in Nat /\ em.shared \in BOOLEAN
      /\ em.shifted \in BOOLEAN
      /\ Len(em.view) \in Nat /\ DOMAIN em.view = 1..Len(em.view)
  BY <1>1, EmissionFields
<1>3. /\ u \in Users /\ ids \in Seq(Clients) /\ Len(ids) \in Nat /\ DOMAIN ids = 1..Len(ids)
      /\ i \in 1..Len(ids) /\ ids[i] = c
  BY PlaceOfClient
<1>4. /\ \A v \in Users : v # u => userRegistry'[v] = userRegistry[v]
      /\ Len(later) = Len(ids) - 1
      /\ \A j \in 1..(Len(ids) - 1) : later[j] = IF j < i THEN ids[j] ELSE ids[j + 1]
  BY RegistryWithout
<1>5. \A j \in DOMAIN ids : ids[j] \in Known
  <2>1. \A j \in DOMAIN ids : ids[j] \in Members(u)
    BY <1>3 DEF TablesOK, TablesAgree, RegistryAgrees
  <2>2. Members(u) \subseteq Known
    BY MembersAreKnown DEF Members
  <2>3. QED
    BY <2>1, <2>2
<1>6. new = [em EXCEPT !.owed = em.owed \ {c}, !.left = left, !.view = view,
                       !.shifted = shifted, !.shared = shared]
  BY <1>1 DEF AfterRemoval, Emission
<1>7. own => /\ view \in Seq(Clients) /\ Len(view) = Len(em.view)
             /\ \A j \in DOMAIN em.view :
                  view[j] = IF j >= i /\ j < Len(ids) THEN ids[j + 1] ELSE em.view[j]
  <2> SUFFICES ASSUME own
               PROVE  /\ view \in Seq(Clients) /\ Len(view) = Len(em.view)
                      /\ \A j \in DOMAIN em.view :
                           view[j] = IF j >= i /\ j < Len(ids) THEN ids[j + 1] ELSE em.view[j]
    OBVIOUS
  <2>1. view = [j \in 1..Len(em.view) |->
                  IF j >= i /\ j < Len(ids) THEN ids[j + 1] ELSE em.view[j]]
    BY <1>2 DEF Shifted
  <2>2. \A j \in 1..Len(em.view) :
          (IF j >= i /\ j < Len(ids) THEN ids[j + 1] ELSE em.view[j]) \in Clients
    <3> HIDE DEF ids, i
    <3>1. QED
      BY <1>2, <1>3
  <2> HIDE DEF view, ids, i
  <2>3. QED
    BY <1>2, <2>1, <2>2
<1>8. /\ ~own => view = em.view
      /\ left \subseteq em.left /\ em.left \ {c} \subseteq left /\ left \in SUBSET Clients
      /\ shifted \in BOOLEAN /\ shared \in BOOLEAN
      /\ shared => em.shared
      /\ own /\ Len(ids) = 1 => ~shared
      /\ ~shifted => ~em.shifted /\ ~(own /\ i < Len(ids))
  BY <1>2
<1>9. own <=> ToUser(em) /\ em.user = u /\ em.shared
  OBVIOUS
<1> HIDE DEF own, left, view, shifted, shared, new, ids, i, later
<1>10. view \in Seq(Clients) /\ DOMAIN view = DOMAIN em.view /\ Len(view) = Len(em.view)
  BY <1>2, <1>7, <1>8
<1>11. /\ new \in Emission
       /\ new.owed = em.owed \ {c} /\ new.left = left /\ new.view = view
       /\ new.shifted = shifted /\ new.shared = shared
       /\ new.kind = em.kind /\ new.user = em.user /\ new.room = em.room /\ new.at = em.at
       /\ new.pos = em.pos /\ new.told = em.told /\ new.twice = em.twice
       /\ new.target = em.target
  BY <1>1, <1>2, <1>6, <1>8, <1>10 DEF Emission
<1>12. Ahead(new) = Ahead(em) /\ (ToUser(new) <=> ToUser(em)) /\ Ahead(em) \subseteq DOMAIN em.view
  BY <1>2, <1>10, <1>11 DEF Ahead, ToUser
<1>13. Seen(new) \subseteq Known
  <2>1. ASSUME NEW j \in DOMAIN em.view PROVE view[j] \in Known
    <3>1. em.view[j] \in Known
      BY <1>1 DEF EmissionInv, Seen
    <3>2. CASE own
      <4>1. view[j] = IF j >= i /\ j < Len(ids) THEN ids[j + 1] ELSE em.view[j]
        BY <1>7, <3>2
      <4>2. j >= i /\ j < Len(ids) => j + 1 \in DOMAIN ids
        BY <1>2, <1>3
      <4>3. QED
        BY <1>5, <3>1, <4>1, <4>2 DEF ids
    <3>3. CASE ~own
      BY <1>8, <3>1, <3>3
    <3>4. QED
      BY <3>2, <3>3
  <2>2. QED
    BY <1>10, <1>11, <2>1 DEF Seen
<1>14. CASE ToUser(em)
  <2>1. em.left = {} /\ em.user \in Users
    BY <1>1, <1>14 DEF EmissionInv
  <2>2. ASSUME ~shifted PROVE SliceInv(new, userRegistry'[em.user].ids)
    <3>1. SliceInv(em, userRegistry[em.user].ids) /\ ~(own /\ i < Len(ids))
      BY <1>1, <1>8, <1>14, <2>2 DEF EmissionInv
    <3>2. \A j \in DOMAIN em.view : view[j] = em.view[j]
      <4>1. CASE own
        <5>1. \A j \in DOMAIN em.view : ~(j >= i /\ j < Len(ids))
          BY <1>2, <1>3, <3>1, <4>1
        <5>2. QED
          BY <1>7, <4>1, <5>1
      <4>2. QED
        BY <1>8, <4>1
    <3>3. ~new.twice
      BY <1>11, <3>1 DEF SliceInv
    <3>4. new.owed \subseteq {new.view[j] : j \in Ahead(new)}
      BY <1>11, <1>12, <3>1, <3>2 DEF SliceInv
    <3>5. \A j \in Ahead(new) : new.view[j] \notin new.told
      BY <1>11, <1>12, <3>1, <3>2 DEF SliceInv
    <3>6. \A j, k \in DOMAIN new.view : new.view[j] = new.view[k] => j = k
      BY <1>10, <1>11, <3>1, <3>2 DEF SliceInv
    <3>7. ASSUME new.shared, NEW j \in DOMAIN new.view
          PROVE  IF j <= Len(userRegistry'[em.user].ids)
                 THEN new.view[j] = userRegistry'[em.user].ids[j] ELSE new.view[j] \notin new.owed
      <4>1. em.shared /\ j \in DOMAIN em.view /\ new.view[j] = em.view[j]
        BY <1>8, <1>10, <1>11, <3>2, <3>7
      <4>2. IF j <= Len(userRegistry[em.user].ids) THEN em.view[j] = userRegistry[em.user].ids[j]
            ELSE em.view[j] \notin em.owed
        BY <3>1, <4>1 DEF SliceInv
      <4>3. CASE em.user # u
        <5>1. userRegistry'[em.user] = userRegistry[em.user]
          BY <1>4, <2>1, <4>3 DEF u
        <5>2. em.view[j] \notin em.owed => em.view[j] \notin em.owed \ {c}
          OBVIOUS
        <5>3. QED
          BY <1>11, <4>1, <4>2, <5>1, <5>2
      <4>4. CASE em.user = u
        <5>1. own /\ i = Len(ids) /\ j \in Nat /\ j >= 1
          <6>1. own
            BY <1>9, <1>14, <4>1, <4>4
          <6>2. i = Len(ids)
            <7>1. ~(i < Len(ids))
              BY <3>1, <6>1
            <7>2. i \in Nat /\ Len(ids) \in Nat /\ i <= Len(ids)
              BY <1>3
            <7>3. QED
              BY <7>1, <7>2
          <6>3. j \in Nat /\ j >= 1
            BY <1>2, <4>1
          <6>4. QED
            BY <6>1, <6>2, <6>3
        <5>2. IF j <= Len(ids) THEN em.view[j] = ids[j] ELSE em.view[j] \notin em.owed
          BY <4>2, <4>4 DEF ids
        <5>3. userRegistry'[em.user].ids = later /\ Len(later) = Len(ids) - 1
          BY <1>4, <4>4 DEF later
        <5>4. CASE j < Len(ids)
          <6>1. j \in 1..(Len(ids) - 1) /\ j < i
            BY <1>3, <5>1, <5>4
          <6>2. later[j] = ids[j]
            BY <1>4, <6>1
          <6>3. QED
            BY <1>3, <4>1, <5>1, <5>2, <5>3, <5>4, <6>2
        <5>5. CASE j = Len(ids)
          <6>1. em.view[j] = c /\ ~(j <= Len(later))
            BY <1>3, <5>1, <5>2, <5>3, <5>5
          <6>2. QED
            BY <1>11, <4>1, <5>3, <6>1
        <5>6. CASE j > Len(ids)
          <6>1. em.view[j] \notin em.owed /\ ~(j <= Len(later))
            BY <1>3, <5>1, <5>2, <5>3, <5>6
          <6>2. QED
            BY <1>11, <4>1, <5>3, <6>1
        <5>7. QED
          BY <1>3, <5>1, <5>4, <5>5, <5>6
      <4>5. QED
        BY <4>3, <4>4
    <3>8. QED
      BY <3>3, <3>4, <3>5, <3>6, <3>7 DEF SliceInv
  <2>3. new.left = {}
    BY <1>8, <1>11, <2>1
  <2>4. EmissionInv(new, Known, userRegistry')
    BY <1>1, <1>10, <1>11, <1>12, <1>13, <1>14, <2>1, <2>2, <2>3 DEF EmissionInv
  <2>5. QED
    BY <1>11, <2>4 DEF EmissionOK, new
<1>15. CASE ~ToUser(em)
  <2>1. MapInv(em) /\ view = em.view
    BY <1>1, <1>8, <1>9, <1>15 DEF EmissionInv
  <2>2. MapInv(new)
    BY <1>8, <1>11, <2>1 DEF MapInv
  <2>3. EmissionInv(new, Known, userRegistry')
    BY <1>1, <1>8, <1>10, <1>11, <1>12, <1>13, <1>15, <2>2 DEF EmissionInv
  <2>4. QED
    BY <1>11, <2>3 DEF EmissionOK, new
<1>16. QED
  BY <1>14, <1>15

LEMMA EmissionsAfterRemoval ==
  ASSUME TypeOK, SocketInv, NEW c \in clients, RemoveFromTables(c)
  PROVE  EmissionsOK(WithoutClient(c), Known, userRegistry')
<1>1. PumpsOK /\ TablesOK
  BY InvParts
<1>2. ASSUME NEW e \in Emissions, Busy(e)
      PROVE  EmissionOK(AfterRemoval(emission[e], c), Known, userRegistry')
  BY <1>1, <1>2, BusyIsOK, RemovalSeen
<1>3. WithoutClient(c) =
        [e \in Emissions |-> IF Busy(e) THEN AfterRemoval(emission[e], c) ELSE Idle]
  BY DEF WithoutClient, Emitting
<1>4. QED
  BY <1>2, <1>3 DEF EmissionsOK, EmissionOK

\* Unregister, with the step of the pump or of the greeting that calls it.
LEMMA UnregisterStep ==
  ASSUME TypeOK, SocketInv, NEW c \in Clients, Unregister(c), PumpsOK',
         \A d \in Clients : (reader'[d] = "none" <=> reader[d] = "none")
                            /\ (reader'[d] \in {"close", "done"} => d \notin clients \/ d = c)
  PROVE  TypeOK' /\ SocketInv'
<1>1. PumpsOK /\ TablesOK
  BY InvParts
<1>2. CASE c \in clients
  <2>1. RemoveFromTables(c) /\ emission' = WithoutClient(c) /\ joined' = joined
    BY <1>2 DEF Unregister
  <2>2. TablesOK' /\ Known' = Known
    BY <1>1, <1>2, <2>1, RemovedTables
  <2>3. EmissionsOK(emission', Known', userRegistry')
    BY <1>2, <2>1, <2>2, EmissionsAfterRemoval
  <2>4. QED
    BY <2>2, <2>3, PartsKept
<1>3. CASE c \notin clients
  <2>1. UNCHANGED <<tables, emission>>
    BY <1>3 DEF Unregister, tables
  <2>2. \A d \in Clients : reader'[d] \in {"close", "done"} => d \notin clients
    BY <1>3
  <2>3. QED
    BY <2>1, <2>2, QuietStep
<1>4. QED
  BY <1>2, <1>3

LEMMA PumpStep ==
  ASSUME TypeOK, SocketInv, NEW c \in Clients, Greet(c) \/ PeerVanishes(c) \/ Pumps(c)
  PROVE  TypeOK' /\ SocketInv'
<1>1. PumpsOK /\ TablesOK
  BY InvParts
<1>2. /\ reader \in [Clients -> {"none", "read", "close", "done"}]
      /\ \A d \in Clients : reader[d] \in {"close", "done"} => d \notin clients
  BY <1>1 DEF PumpsOK, TablesOK, TablesAgree, ClosedIsForgotten
<1>3. CASE Panic
  BY <1>3, PanicStep
<1>4. ASSUME UNCHANGED <<tables, emission, reader>>, PumpsOK' PROVE TypeOK' /\ SocketInv'
  BY <1>2, <1>4, QuietStep
<1>5. CASE PeerVanishes(c)
  <2>1. PumpsOK' /\ UNCHANGED <<tables, emission, reader>>
    BY <1>1, <1>5 DEF PeerVanishes, PumpsOK
  <2>2. QED
    BY <1>4, <2>1
<1>6. CASE WriterLeaves(c)
  <2>1. PumpsOK' /\ UNCHANGED <<tables, emission, reader>>
    BY <1>1, <1>6 DEF WriterLeaves, PumpsOK
  <2>2. QED
    BY <1>4, <2>1
<1>7. CASE CloseSend(c)
  <2>1. PumpsOK' /\ UNCHANGED <<tables, emission>>
    BY <1>1, <1>7 DEF CloseSend, PumpsOK
  <2>2. reader[c] = "close" /\ reader' = [reader EXCEPT ![c] = "done"]
    BY <1>7 DEF CloseSend
  <2>3. QED
    BY <1>2, <2>1, <2>2, QuietStep
<1>8. CASE ReaderUnregisters(c)
  <2>1. CASE Unregister(c) /\ reader' = [reader EXCEPT ![c] = "close"]
             /\ UNCHANGED <<up, writer, greeted, link>>
    <3>1. PumpsOK' /\ reader[c] = "read"
      BY <1>1, <1>8, <2>1 DEF PumpsOK, ReaderUnregisters
    <3>2. QED
      BY <1>2, <2>1, <3>1, UnregisterStep
  <2>2. QED
    BY <1>3, <1>8, <2>1 DEF ReaderUnregisters
<1>9. CASE Greet(c)
  <2>1. CASE ~Panic
    <3>1. /\ greeted' = greeted \cup {c} /\ UNCHANGED <<up, reader, writer, link>>
          /\ UNCHANGED <<clients, userRegistry, rooms, emission, joined>> \/ Unregister(c)
      BY <1>9, <2>1 DEF Greet
    <3>2. PumpsOK'
      BY <1>1, <3>1 DEF PumpsOK
    <3>3. CASE UNCHANGED <<clients, userRegistry, rooms, emission, joined>>
      BY <1>4, <3>1, <3>2, <3>3 DEF tables
    <3>4. CASE Unregister(c)
      BY <1>2, <3>1, <3>2, <3>4, UnregisterStep
    <3>5. QED
      BY <3>1, <3>3, <3>4
  <2>2. QED
    BY <1>3, <2>1
<1>10. QED
  BY <1>5, <1>6, <1>7, <1>8, <1>9 DEF Pumps

\* A join, by a handler or for a user's room.
LEMMA JoinedTables ==
  ASSUME PumpsOK, TablesOK, NEW c \in Known, NEW r \in Rooms, JoinRoom(c, r),
         UNCHANGED <<clients, userRegistry, pumps>>
  PROVE  TablesOK' /\ Known' = Known
<1>1. /\ rooms' = [rooms EXCEPT ![r] = rooms[r] \cup {c}]
      /\ joined' = [joined EXCEPT ![c] = joined[c] \cup {r}]
      /\ UNCHANGED <<clients, userRegistry, reader>>
  BY DEF JoinRoom, pumps
<1>2. Known' = Known /\ c \in Clients
  BY <1>1 DEF Known
<1>3. rooms' \in [Rooms -> SUBSET Clients] /\ joined' \in [Clients -> SUBSET Rooms]
  BY <1>1, <1>2 DEF TablesOK
<1>4. RegistryAgrees' /\ ClosedIsForgotten'
  BY <1>1 DEF TablesOK, TablesAgree, RegistryAgrees, ClosedIsForgotten, Members
<1>5. RoomsAgree'
  BY <1>1, <1>2 DEF TablesOK, TablesAgree, RoomsAgree
<1>6. \A d \in Clients : joined'[d] # {} => d \in Known
  BY <1>1, <1>2 DEF TablesOK
<1>7. QED
  BY <1>1, <1>2, <1>3, <1>4, <1>5, <1>6 DEF TablesOK, TablesAgree

LEMMA LeftTables ==
  ASSUME PumpsOK, TablesOK, NEW c \in Clients, NEW r \in Rooms, LeaveRoom(c, r),
         UNCHANGED <<clients, userRegistry, pumps>>
  PROVE  TablesOK' /\ Known' = Known
<1>1. /\ rooms' = [rooms EXCEPT ![r] = rooms[r] \ {c}]
      /\ joined' = [joined EXCEPT ![c] = joined[c] \ {r}]
      /\ UNCHANGED <<clients, userRegistry, reader>>
  BY DEF LeaveRoom, pumps
<1>2. Known' = Known
  BY <1>1 DEF Known
<1>3. rooms' \in [Rooms -> SUBSET Clients] /\ joined' \in [Clients -> SUBSET Rooms]
  BY <1>1 DEF TablesOK
<1>4. RegistryAgrees' /\ ClosedIsForgotten'
  BY <1>1 DEF TablesOK, TablesAgree, RegistryAgrees, ClosedIsForgotten, Members
<1>5. RoomsAgree'
  BY <1>1 DEF TablesOK, TablesAgree, RoomsAgree
<1>6. \A d \in Clients : joined'[d] # {} => d \in Known
  BY <1>1 DEF TablesOK
<1>7. QED
  BY <1>1, <1>2, <1>3, <1>4, <1>5, <1>6 DEF TablesOK, TablesAgree

\* An emission that loses clients it has yet to visit, and maybe its map.
LEMMA DropKeeps ==
  ASSUME NEW known, NEW registry, NEW later, NEW em, EmissionOK(em, known, registry),
         NEW left \in SUBSET Clients, NEW owed \in SUBSET Clients, NEW shared \in BOOLEAN,
         left \subseteq em.left, owed \subseteq em.owed, ~ToUser(em) => owed \subseteq left,
         shared => em.shared, later = registry \/ ~shared
  PROVE  EmissionOK([em EXCEPT !.owed = owed, !.left = left, !.shared = shared], known, later)
<1> DEFINE new == [em EXCEPT !.owed = owed, !.left = left, !.shared = shared]
<1>1. em \in Emission /\ EmissionInv(em, known, registry)
  BY DEF EmissionOK
<1>2. /\ new \in Emission
      /\ new.owed = owed /\ new.left = left /\ new.shared = shared
      /\ new.view = em.view /\ new.shifted = em.shifted
      /\ new.kind = em.kind /\ new.user = em.user /\ new.room = em.room /\ new.at = em.at
      /\ new.pos = em.pos /\ new.told = em.told /\ new.twice = em.twice
      /\ new.target = em.target
  BY <1>1 DEF Emission
<1> HIDE DEF new
<1>3. Seen(new) = Seen(em) /\ Ahead(new) = Ahead(em) /\ (ToUser(new) <=> ToUser(em))
  BY <1>2 DEF Seen, Ahead, ToUser
<1>4. CASE ToUser(em)
  <2>1. ASSUME ~em.shifted PROVE SliceInv(new, later[em.user].ids)
    <3>1. SliceInv(em, registry[em.user].ids)
      BY <1>1, <1>4, <2>1 DEF EmissionInv
    <3>2. CASE later = registry
      BY <1>2, <1>3, <3>1, <3>2 DEF SliceInv
    <3>3. CASE ~shared
      BY <1>2, <1>3, <3>1, <3>3 DEF SliceInv
    <3>4. QED
      BY <3>2, <3>3
  <2>2. EmissionInv(new, known, later)
    BY <1>1, <1>2, <1>3, <1>4, <2>1 DEF EmissionInv
  <2>3. QED
    BY <1>2, <2>2 DEF EmissionOK, new
<1>5. CASE ~ToUser(em)
  <2>1. MapInv(new)
    BY <1>1, <1>2, <1>5 DEF EmissionInv, MapInv
  <2>2. EmissionInv(new, known, later)
    BY <1>1, <1>2, <1>3, <1>5, <2>1 DEF EmissionInv
  <2>3. QED
    BY <1>2, <2>2 DEF EmissionOK, new
<1>6. QED
  BY <1>4, <1>5

LEMMA HandlerStep ==
  ASSUME TypeOK, SocketInv, NEW c \in Clients, NEW r \in Rooms,
         HandlerJoins(c, r) \/ HandlerLeaves(c, r)
  PROVE  TypeOK' /\ SocketInv'
<1>1. PumpsOK /\ TablesOK /\ EmissionsOK(emission, Known, userRegistry)
  BY InvParts
<1>2. c \in Known
  BY DEF HandlerJoins, HandlerLeaves, Known
<1>3. CASE Panic
  BY <1>3, PanicStep
<1>4. UNCHANGED <<up, pumps>> => PumpsOK'
  BY <1>1 DEF PumpsOK, pumps
<1>5. CASE HandlerJoins(c, r) /\ ~Panic
  <2>1. JoinRoom(c, r) /\ UNCHANGED <<up, clients, userRegistry, pumps, emission>>
    BY <1>5 DEF HandlerJoins
  <2>2. TablesOK' /\ Known' = Known
    BY <1>1, <1>2, <2>1, JoinedTables
  <2>3. QED
    BY <1>1, <1>4, <2>1, <2>2, PartsKept
<1>6. CASE HandlerLeaves(c, r) /\ ~Panic
  <2>1. LeaveRoom(c, r) /\ UNCHANGED <<up, clients, userRegistry, pumps>>
    BY <1>6 DEF HandlerLeaves
  <2>2. TablesOK' /\ Known' = Known
    BY <1>1, <2>1, LeftTables
  <2>3. emission' = [e \in Emissions |-> IF Busy(e) THEN AfterLeave(emission[e], c, r) ELSE Idle]
    BY <2>1 DEF LeaveRoom, Emitting
  <2>4. ASSUME NEW e \in Emissions, Busy(e)
        PROVE  EmissionOK(AfterLeave(emission[e], c, r), Known, userRegistry)
    <3> DEFINE em == emission[e]
               shared == rooms[r] # {c}
    <3>1. EmissionOK(em, Known, userRegistry) /\ em \in Emission
      BY <2>4, BusyIsOK DEF EmissionOK
    <3>2. CASE RangesOver(em, r)
      <4>1. em.left \in SUBSET Clients /\ em.owed \in SUBSET Clients /\ em.shared /\ ~ToUser(em)
        BY <3>1, <3>2, EmissionFields DEF RangesOver, ToUser
      <4>2. em.owed \subseteq em.left
        BY <3>1, <4>1 DEF EmissionOK, EmissionInv, MapInv
      <4>3. AfterLeave(em, c, r) =
              [em EXCEPT !.owed = em.owed \ {c}, !.left = em.left \ {c}, !.shared = shared]
        BY <3>1, <3>2 DEF AfterLeave, Emission
      <4>4. shared \in BOOLEAN
        OBVIOUS
      <4> HIDE DEF shared, em
      <4>5. /\ em.left \ {c} \in SUBSET Clients /\ em.owed \ {c} \in SUBSET Clients
            /\ em.left \ {c} \subseteq em.left /\ em.owed \ {c} \subseteq em.owed
            /\ ~ToUser(em) => em.owed \ {c} \subseteq em.left \ {c}
            /\ shared => em.shared
            /\ userRegistry = userRegistry \/ ~shared
        BY <4>1, <4>2
      <4>6. EmissionOK([em EXCEPT !.owed = em.owed \ {c}, !.left = em.left \ {c}, !.shared = shared],
                       Known, userRegistry)
        BY <3>1, <4>4, <4>5, DropKeeps
      <4>7. QED
        BY <4>3, <4>6 DEF em
    <3>3. CASE ~RangesOver(em, r)
      BY <3>1, <3>3 DEF AfterLeave
    <3>4. QED
      BY <3>2, <3>3
  <2>5. EmissionsOK(emission', Known', userRegistry')
    BY <2>1, <2>2, <2>3, <2>4 DEF EmissionsOK, EmissionOK
  <2>6. QED
    BY <1>4, <2>1, <2>2, <2>5, PartsKept
<1>7. QED
  BY <1>3, <1>5, <1>6

LEMMA ShutdownStep == ASSUME TypeOK, SocketInv, Shutdown PROVE TypeOK' /\ SocketInv'
<1>1. PumpsOK /\ TablesOK /\ EmissionsOK(emission, Known, userRegistry)
  BY InvParts
<1>2. CASE Panic
  BY <1>2, PanicStep
<1>3. CASE ~Panic
  <2>1. /\ link' = [c \in Clients |-> IF c \in clients THEN "shut" ELSE link[c]]
        /\ clients' = {}
        /\ userRegistry' = [u \in Users |-> NoSlice]
        /\ rooms' = [r \in Rooms |-> {}]
        /\ emission' = [e \in Emissions |->
             IF Busy(e) THEN [emission[e] EXCEPT !.owed = {}, !.shared = FALSE] ELSE Idle]
        /\ UNCHANGED <<up, joined, reader, writer, greeted>>
    BY <1>3 DEF Shutdown, Emitting
  <2>2. PumpsOK' /\ Known' = Known
    BY <1>1, <2>1 DEF PumpsOK, Known
  <2>3. NoSlice \in Slice /\ NoSlice.ids = <<>> /\ NoSlice.cap = 0
    BY DEF NoSlice, Slice
  <2>4. RegistryAgrees'
    <3>1. \A u \in Users : userRegistry'[u].ids = <<>> /\ userRegistry'[u].cap = 0
      BY <2>1, <2>3
    <3>2. Len(<<>>) = 0 /\ DOMAIN <<>> = {}
      OBVIOUS
    <3>3. \A u \in Users : Members(u)' = {}
      BY <2>1 DEF Members
    <3>4. ASSUME NEW u \in Users
          PROVE  LET s == userRegistry'[u]
                 IN  /\ Len(s.ids) <= s.cap
                     /\ \A c \in Clients : c \in Members(u)' <=> \E i \in DOMAIN s.ids : s.ids[i] = c
                     /\ \A i, j \in DOMAIN s.ids : s.ids[i] = s.ids[j] => i = j
      BY <3>1, <3>2, <3>3
    <3>5. QED
      BY <3>4 DEF RegistryAgrees
  <2>5. RoomsAgree' /\ ClosedIsForgotten'
    BY <2>1 DEF RoomsAgree, ClosedIsForgotten
  <2>6. TablesOK'
    BY <1>1, <2>1, <2>2, <2>3, <2>4, <2>5 DEF TablesOK, TablesAgree
  <2>7. ASSUME NEW e \in Emissions, Busy(e)
        PROVE  EmissionOK([emission[e] EXCEPT !.owed = {}, !.shared = FALSE], Known, userRegistry')
    <3> DEFINE em == emission[e]
    <3>1. EmissionOK(em, Known, userRegistry) /\ em \in Emission
      BY <2>7, BusyIsOK DEF EmissionOK
    <3>2. em.left \in SUBSET Clients
      BY <3>1, EmissionFields
    <3>3. [em EXCEPT !.owed = {}, !.shared = FALSE]
            = [em EXCEPT !.owed = {}, !.left = em.left, !.shared = FALSE]
      BY <3>1 DEF Emission
    <3> HIDE DEF em
    <3>4. /\ em.left \in SUBSET Clients /\ {} \in SUBSET Clients /\ FALSE \in BOOLEAN
          /\ em.left \subseteq em.left /\ {} \subseteq em.owed
          /\ ~ToUser(em) => {} \subseteq em.left
          /\ FALSE => em.shared
          /\ userRegistry' = userRegistry \/ ~FALSE
      BY <3>2
    <3>5. EmissionOK([em EXCEPT !.owed = {}, !.left = em.left, !.shared = FALSE],
                     Known, userRegistry')
      BY <3>1, <3>4, DropKeeps
    <3>6. QED
      BY <3>3, <3>5 DEF em
  <2>8. EmissionsOK(emission', Known', userRegistry')
    BY <2>1, <2>2, <2>7 DEF EmissionsOK, EmissionOK
  <2>9. QED
    BY <2>2, <2>6, <2>8, PartsKept
<1>4. QED
  BY <1>2, <1>3

\* The steps of a loop that change the tables: an eviction and a join.
LEMMA ChangeStep ==
  ASSUME TypeOK, SocketInv, NEW e \in Emissions, Evict(e) \/ JoinUserRoom(e)
  PROVE  TypeOK' /\ SocketInv'
<1> DEFINE em == emission[e]
           c == em.target
<1>1. PumpsOK /\ TablesOK /\ EmissionsOK(emission, Known, userRegistry)
  BY InvParts
<1>2. Busy(e) /\ up
  BY DEF Evict, JoinUserRoom
<1>3. EmissionOK(em, Known, userRegistry) /\ em \in Emission
  BY <1>2, BusyIsOK DEF EmissionOK
<1>4. UNCHANGED <<up, pumps>> => PumpsOK'
  BY <1>1 DEF PumpsOK, pumps
<1>5. "next" \in {"next", "send", "evict"} /\ None \in Clients \cup {None}
  OBVIOUS
<1>6. EmissionOK([em EXCEPT !.at = "next", !.target = None], Known, userRegistry)
  <2>1. em.kind = "join" /\ "next" # "next" => None \in Known
    OBVIOUS
  <2> HIDE DEF em
  <2>2. QED
    BY <1>3, <1>5, <2>1, MoveKeeps
<1>7. CASE Panic
  BY <1>7, PanicStep
<1>8. ASSUME Proceed(e)
      PROVE  emission' = [emission EXCEPT ![e] = [em EXCEPT !.at = "next", !.target = None]]
  BY <1>1, <1>3, <1>8 DEF Proceed, EmissionsOK, Emission
<1>9. CASE Evict(e) /\ ~Panic
  <2>1. UNCHANGED <<up, joined, pumps>>
    BY <1>9 DEF Evict
  <2>2. CASE c \in clients
    <3> DEFINE without == WithoutClient(c)
    <3>1. /\ RemoveFromTables(c)
          /\ emission' = [without EXCEPT ![e].at = "next", ![e].target = None]
      BY <1>9, <2>2 DEF Evict
    <3>2. TablesOK' /\ Known' = Known
      <4>1. UNCHANGED <<reader, joined>>
        BY <2>1 DEF pumps
      <4>2. \A d \in Clients : (reader'[d] = "none" <=> reader[d] = "none")
                               /\ (reader'[d] \in {"close", "done"} => d \notin clients \/ d = c)
        BY <1>1, <4>1 DEF TablesOK, TablesAgree, ClosedIsForgotten
      <4>3. QED
        BY <1>1, <2>2, <3>1, <4>1, <4>2, RemovedTables
    <3>3. EmissionsOK(without, Known, userRegistry')
      BY <2>2, <3>1, EmissionsAfterRemoval
    <3>4. EmissionOK(without[e], Known, userRegistry')
      <4>1. without[e] = AfterRemoval(em, c)
        BY <1>2 DEF WithoutClient, Emitting
      <4>2. QED
        BY <1>1, <1>3, <2>2, <3>1, <4>1, RemovalSeen
    <3> HIDE DEF without
    <3> DEFINE old == without[e]
               new == [old EXCEPT !.at = "next", !.target = None]
    <3>5. EmissionOK(new, Known, userRegistry')
      <4>1. EmissionOK(old, Known, userRegistry')
        BY <3>4
      <4>2. old.kind = "join" /\ "next" # "next" => None \in Known
        OBVIOUS
      <4> HIDE DEF old
      <4>3. QED
        BY <1>5, <4>1, <4>2, MoveKeeps
    <3>6. emission' = [without EXCEPT ![e] = new]
      BY <3>1, <3>3, <3>4 DEF EmissionsOK, EmissionOK, Emission
    <3> HIDE DEF new, old
    <3>7. EmissionsOK(emission', Known, userRegistry')
      <4>1. emission' \in [Emissions -> Emission \cup {Idle}]
        BY <3>3, <3>5, <3>6 DEF EmissionsOK, EmissionOK
      <4>2. \A d \in Emissions : emission'[d] = IF d = e THEN new ELSE without[d]
        BY <3>3, <3>6 DEF EmissionsOK
      <4>3. QED
        BY <3>3, <3>5, <4>1, <4>2 DEF EmissionsOK
    <3>8. QED
      BY <1>4, <2>1, <3>2, <3>7, PartsKept
  <2>3. CASE c \notin clients
    <3>1. UNCHANGED <<clients, userRegistry, rooms>> /\ Proceed(e)
      BY <1>9, <2>3 DEF Evict
    <3>2. UNCHANGED <<up, tables, pumps>>
      BY <2>1, <3>1 DEF tables
    <3>3. QED
      BY <1>6, <1>8, <3>1, <3>2, OneEmission
  <2>4. QED
    BY <2>2, <2>3
<1>10. CASE JoinUserRoom(e) /\ ~Panic
  <2>1. /\ JoinRoom(c, em.room) /\ Proceed(e) /\ UNCHANGED <<up, clients, userRegistry, pumps>>
        /\ em.at = "send" /\ em.kind = "join"
    BY <1>10 DEF JoinUserRoom
  <2>2. em.room \in Rooms /\ c \in Known
    BY <1>3, <2>1 DEF EmissionOK, EmissionInv
  <2>3. TablesOK' /\ Known' = Known
    BY <1>1, <2>1, <2>2, JoinedTables
  <2>4. EmissionsOK(emission', Known', userRegistry')
    <3> DEFINE new == [em EXCEPT !.at = "next", !.target = None]
    <3>1. emission' = [emission EXCEPT ![e] = new]
      BY <1>8, <2>1
    <3>2. EmissionOK(new, Known, userRegistry)
      BY <1>6
    <3> HIDE DEF new, em
    <3>3. EmissionsOK(emission', Known, userRegistry)
      <4>1. emission' \in [Emissions -> Emission \cup {Idle}]
        BY <1>1, <3>1, <3>2 DEF EmissionsOK, EmissionOK
      <4>2. \A d \in Emissions : emission'[d] = IF d = e THEN new ELSE emission[d]
        BY <1>1, <3>1 DEF EmissionsOK
      <4>3. QED
        BY <1>1, <3>2, <4>1, <4>2 DEF EmissionsOK
    <3>4. QED
      BY <2>1, <2>3, <3>3
  <2>5. QED
    BY <1>4, <2>1, <2>3, <2>4, PartsKept
<1>11. QED
  BY <1>7, <1>9, <1>10
-----------------------------------------------------------------------------
LEMMA SocketStep == TypeOK /\ SocketInv /\ [Next]_vars => TypeOK' /\ SocketInv'
<1> SUFFICES ASSUME TypeOK, SocketInv, [Next]_vars PROVE TypeOK' /\ SocketInv'
  OBVIOUS
<1>1. ASSUME NEW c \in Clients, Register(c) \/ Greet(c) \/ PeerVanishes(c) \/ Pumps(c)
      PROVE  TypeOK' /\ SocketInv'
  BY <1>1, RegisterStep, PumpStep
<1>2. ASSUME NEW c \in Clients, NEW r \in Rooms, HandlerJoins(c, r) \/ HandlerLeaves(c, r)
      PROVE  TypeOK' /\ SocketInv'
  BY <1>2, HandlerStep
<1>3. ASSUME NEW e \in Emissions, Emit(e) PROVE TypeOK' /\ SocketInv'
  BY <1>3, StartStep, LoopStep, ChangeStep DEF Emit
<1>4. CASE Shutdown
  BY <1>4, ShutdownStep
<1>5. CASE UNCHANGED vars
  <2>1. PumpsOK /\ TablesOK
    BY InvParts
  <2>2. UNCHANGED <<tables, emission, reader>> /\ PumpsOK'
    BY <1>5, <2>1 DEF vars, pumps, PumpsOK
  <2>3. QED
    BY <2>1, <2>2, QuietStep DEF TablesOK, TablesAgree, ClosedIsForgotten
<1>6. QED
  BY <1>1, <1>2, <1>3, <1>4, <1>5 DEF Next

LEMMA SocketInvariant == Spec => [](TypeOK /\ SocketInv)
BY SocketInit, SocketStep, PTL DEF Spec

\* Every table, slice, pump and emission keeps its type.
THEOREM SocketTypeCorrect == Spec => []TypeOK
BY SocketInvariant, PTL

\* Whatever clients register, leave, are evicted or shut down, and whatever
\* emitters, handlers and pumps do meanwhile: the three tables agree
\* (Register, Unregister, clientJoinRoom, clientLeaveRoom, Shutdown).
THEOREM TablesAlwaysAgree == Spec => []TablesAgree
<1>1. SocketInv => TablesAgree
  BY DEF SocketInv
<1>2. QED
  BY <1>1, SocketInvariant, PTL

\* An emission that ends and whose slice no removal has shifted has come to
\* everyone it is meant for, and to nobody twice (EmitToUser, EmitToRoom,
\* EmitToAll, CreateUserRoom).
THEOREM EveryoneIsToldOnce == Spec => EveryoneIsTold
<1>1. TypeOK /\ SocketInv /\ [Next]_vars =>
        [\A e \in Emissions :
           Finish(e) /\ ~emission[e].shifted =>
             emission[e].owed = {} /\ ~emission[e].twice]_vars
  <2> SUFFICES ASSUME TypeOK, SocketInv, NEW e \in Emissions, Finish(e), ~emission[e].shifted
               PROVE  emission[e].owed = {} /\ ~emission[e].twice
    OBVIOUS
  <2>1. emission[e] \in Emission /\ EmissionInv(emission[e], Known, userRegistry)
    BY BusyIsOK DEF Finish, EmissionOK
  <2>2. emission[e].left = {} /\ emission[e].pos = Len(emission[e].view)
    BY DEF Finish, Exhausted
  <2>3. CASE ToUser(emission[e])
    <3>1. SliceInv(emission[e], userRegistry[emission[e].user].ids)
      BY <2>1, <2>3 DEF EmissionInv
    <3>2. Len(emission[e].view) \in Nat
      BY <2>1, EmissionFields
    <3>3. Ahead(emission[e]) = {}
      BY <2>2, <3>2 DEF Ahead
    <3>4. QED
      BY <3>1, <3>3 DEF SliceInv
  <2>4. CASE ~ToUser(emission[e])
    BY <2>1, <2>2, <2>4 DEF EmissionInv, MapInv
  <2>5. QED
    BY <2>3, <2>4
<1>2. QED
  BY <1>1, SocketInvariant, PTL DEF Spec, EveryoneIsTold
=============================================================================
