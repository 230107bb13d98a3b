-------------------------------- MODULE Rooms --------------------------------
(***************************************************************************)
(* The room manager (game/room) with what it is told by connections        *)
(* (server/client.go, server/connection.go), the reconnect handler and the *)
(* registration of game sessions (server/handler), down to the store.      *)
(*                                                                         *)
(* A connection runs one handler at a time; what a handler does under the  *)
(* manager's locks is one step.  publishing tells whose handler still      *)
(* holds a room's publishMu, which every step on that room waits for.      *)
(* Credentials are left to another module: any fresh connection may come   *)
(* back as its player.  Rooms that a match made are Matcher's.             *)
(***************************************************************************)
EXTENDS Naturals, Sequences, FiniteSets, Functions, RoomStore

CONSTANTS
  Player,
  Connection,
  Owner,       \* the player a connection is of, or comes back as
  First,       \* the connections that are there from the start, one a player
  NoCode,      \* bound to no room
  NoClient,
  RoomSize     \* members of a full room; 3 in the code

ASSUME RoomsAssumption ==
  /\ Room \subseteq Nat
  /\ Owner \in [Connection -> Player] /\ First \subseteq Connection
  /\ \A p \in Player : \E c \in First : \A d \in First : Owner[d] = p <=> d = c
  /\ NoCode \notin Code /\ NoClient \notin Connection /\ RoomSize \in Nat \ {0}

VARIABLES
  clients,      \* Server.clients: the connection registered for a player
  doing,        \* where a connection's handler, or its end, has come to
  clientRoom,   \* Client.RoomID
  sessionRoom,  \* the room code kept with a player's session
  recalled,     \* the room code a reconnect has read from the session
  target,       \* the room a handler under way is about
  previous,     \* the connection a reconnect replaces in clients
  former,       \* the one it replaces in the room
  life,         \* of a room: unused, published (in rm.rooms) or removed
  state,        \* Room.state
  players,      \* Room.players
  order,        \* Room.playerOrder
  publishing,   \* the connection that holds publishMu between two steps
  removals,     \* removed rooms whose removal is not dispatched
  games,        \* Handler.games: by code, the room whose session is registered
  game,         \* of the latest session of a room
  away,         \* who is offline in the registered session of a room
  closed        \* RoomManager.closed

reconnects == << recalled, previous, former >>
connections == << clients, doing, clientRoom, sessionRoom, target, reconnects >>
rooms == << life, state, players, order, publishing, removals, closed >>
sessions == << games, game, away >>
roomsVars == << connections, rooms, sessions, storeVars >>

NoMember == [seat |-> RoomSize, client |-> NoClient, ready |-> FALSE]
Seats == 0 .. RoomSize - 1

RoomsInit ==
  /\ StoreInit
  /\ clients = [p \in Player |-> CHOOSE c \in First : Owner[c] = p]
  /\ doing = [c \in Connection |-> IF c \in First THEN "idle" ELSE "temporary"]
  /\ clientRoom = [c \in Connection |-> NoCode]
  /\ sessionRoom = [p \in Player |-> NoCode]
  /\ target = [c \in Connection |-> NoRoom]
  /\ recalled = clientRoom
  /\ previous = [c \in Connection |-> NoClient] /\ former = previous
  /\ life = [r \in Room |-> "unused"] /\ state = [r \in Room |-> "Waiting"]
  /\ players = [r \in Room |-> [p \in Player |-> NoMember]]
  /\ order = [r \in Room |-> << >>]
  /\ publishing = [r \in Room |-> NoClient]
  /\ removals = {} /\ closed = FALSE
  /\ games = [k \in Code |-> NoRoom]
  /\ game = [r \in Room |-> "none"] /\ away = [r \in Room |-> {}]

-----------------------------------------------------------------------------
(* What the steps share.                                                   *)

Published(r) == life[r] = "published"
PublishedAs(k) == { r \in Room : Published(r) /\ CodeOf[r] = k }
Members(r) == { p \in Player : players[r][p] # NoMember }
Attached(r) == { p \in Player : players[r][p].client # NoClient }

\* The handler gets the manager's lock and publishMu of a published room.
Locks(r) == Published(r) /\ publishing[r] = NoClient

\* The command's connection is the member's current one.
CurrentMember(c, r) ==
  /\ doing[c] = "idle" /\ clientRoom[c] = CodeOf[r]
  /\ players[r][Owner[c]].client = c

\* types.CompareAndSetRoom of a connection whose room was compared.
Bind(c, k) ==
  /\ clientRoom' = [clientRoom EXCEPT ![c] = k]
  /\ sessionRoom' = [sessionRoom EXCEPT ![Owner[c]] = k]

-----------------------------------------------------------------------------
(* Create, join, leave                                                     *)

\* generateRoomCode
CodeIsFree(k) == PublishedAs(k) = {} /\ retiringRooms[k] = NoRoom

\* The handler ends with saveRoomAsync.
ThenSaves(c, r) ==
  /\ doing' = [doing EXCEPT ![c] = "saving"]
  /\ target' = [target EXCEPT ![c] = r]

MemberAt(c, seat) == [seat |-> seat, client |-> c, ready |-> FALSE]

CreateRoom(c, r) ==
  /\ doing[c] = "idle" /\ clientRoom[c] = NoCode /\ ~closed
  /\ life[r] = "unused" /\ CodeIsFree(CodeOf[r])
  /\ \A q \in Room : q < r /\ CodeOf[q] = CodeOf[r] => life[q] # "unused"
  /\ Bind(c, CodeOf[r])
  /\ life' = [life EXCEPT ![r] = "published"]
  /\ players' = [players EXCEPT ![r][Owner[c]] = MemberAt(c, 0)]
  /\ order' = [order EXCEPT ![r] = << Owner[c] >>]
  /\ ThenSaves(c, r)
  /\ UNCHANGED << clients, reconnects, state, publishing, removals, closed,
                  sessions, storeVars >>

\* nextAvailableSeatLocked
NextAvailableSeat(r) ==
  CHOOSE seat \in Seats :
    /\ \A p \in Members(r) : players[r][p].seat # seat
    /\ \A lower \in 0 .. seat - 1 : \E p \in Members(r) : players[r][p].seat = lower

\* insertPlayerOrderLocked: before the first member who has a higher seat.
Inserted(r, p, seat) ==
  LET higher(i) == players[r][order[r][i]].seat > seat
      at == CHOOSE i \in 1 .. Len(order[r]) + 1 :
              /\ i \in DOMAIN order[r] => higher(i)
              /\ \A j \in 1 .. i - 1 : ~higher(j)
  IN  [i \in 1 .. Len(order[r]) + 1 |->
         IF i < at THEN order[r][i] ELSE IF i = at THEN p ELSE order[r][i - 1]]

JoinRoom(c, r) ==
  /\ doing[c] = "idle" /\ clientRoom[c] = NoCode /\ Locks(r)
  /\ Cardinality(Members(r)) < RoomSize /\ state[r] = "Waiting"
  /\ Owner[c] \notin Members(r)
  /\ Bind(c, CodeOf[r])
  /\ LET seat == NextAvailableSeat(r) IN
       /\ players' = [players EXCEPT ![r][Owner[c]] = MemberAt(c, seat)]
       /\ order' = [order EXCEPT ![r] = Inserted(r, Owner[c], seat)]
  /\ ThenSaves(c, r)
  /\ UNCHANGED << clients, reconnects, life, state, publishing, removals, closed,
                  sessions, storeVars >>

Dissolve(r) ==
  /\ life' = [life EXCEPT ![r] = "removed"]
  /\ state' = [state EXCEPT ![r] = "Ended"]
  /\ players' = [players EXCEPT ![r] = [p \in Player |-> NoMember]]
  /\ order' = [order EXCEPT ![r] = << >>]
  /\ RetireCode(r)

\* removePublishedRoomLocked: attached members are unbound, the code retires.
\* Nobody looks for the members of a removed room again.
Unpublish(r) ==
  LET unbound(c) == players[r][Owner[c]].client = c /\ clientRoom[c] = CodeOf[r] IN
  /\ clientRoom' = [c \in Connection |-> IF unbound(c) THEN NoCode ELSE clientRoom[c]]
  /\ sessionRoom' = [p \in Player |->
       IF \E c \in Connection : Owner[c] = p /\ unbound(c)
       THEN NoCode ELSE sessionRoom[p]]
  /\ Dissolve(r)

\* removePlayerLocked
Without(r, p) ==
  LET at == CHOOSE i \in DOMAIN order[r] : order[r][i] = p
  IN  [i \in 1 .. Len(order[r]) - 1 |-> order[r][IF i < at THEN i ELSE i + 1]]

\* A room that nobody but bots would be left in is removed.
LeaveRoom(c, r) ==
  /\ CurrentMember(c, r) /\ Locks(r) /\ state[r] = "Waiting"
  /\ IF Members(r) = {Owner[c]}
     THEN /\ Unpublish(r)
          /\ removals' = removals \cup {r}
          /\ UNCHANGED << doing, target >>
     ELSE /\ Bind(c, NoCode)
          /\ players' = [players EXCEPT ![r][Owner[c]] = NoMember]
          /\ order' = [order EXCEPT ![r] = Without(r, Owner[c])]
          /\ ThenSaves(c, r)
          /\ UNCHANGED << life, state, removals, retiringRooms, queues >>
  /\ UNCHANGED << clients, reconnects, publishing, closed, sessions,
                  workers, persistenceClosed, store >>

-----------------------------------------------------------------------------
(* Ready and the start of a game                                           *)

AllReady(r, members) ==
  /\ Cardinality({ p \in Player : members[p] # NoMember }) = RoomSize
  /\ \A p \in Player : members[p] # NoMember => members[p].ready

\* A start that is not admitted takes the readiness back: no step.
SetPlayerReady(c, r, ready) ==
  /\ CurrentMember(c, r) /\ Locks(r) /\ state[r] = "Waiting"
  /\ LET members == [players[r] EXCEPT ![Owner[c]].ready = ready] IN
       /\ players' = [players EXCEPT ![r] = members]
       /\ IF AllReady(r, members)
          THEN /\ state' = [state EXCEPT ![r] = "Ready"]
               /\ game' = [game EXCEPT ![r] = "starting"]
               /\ doing' = [doing EXCEPT ![c] = "starting"]
               /\ target' = [target EXCEPT ![c] = r]
          ELSE UNCHANGED << state, game, doing, target >>
  /\ UNCHANGED << clients, clientRoom, sessionRoom, reconnects, life, order,
                  publishing, removals, closed, games, away, storeVars >>

\* Fault: the session starts with the presence of the moment of readiness.
NobodyAway(r) == {}

\* SyncRoomPresence
OfflineMembers(r) == Members(r) \ Attached(r)

\* The session of another room that the registration replaces is retired.
Replaced(r) == { q \in Room : games[CodeOf[r]] = q /\ q # r }

\* onGameStart: SetGameSession, then Start, or retirement if the room is gone.
\* The replaced session, which nobody can find any more, is retired with it.
SetGameSession(c) ==
  /\ doing[c] = "starting"
  /\ \E r \in {target[c]} :
       \/ /\ Locks(r)
          /\ games' = [games EXCEPT ![CodeOf[r]] = r]
          /\ away' = [away EXCEPT ![r] = OfflineMembers(r)]
          /\ game' = [q \in Room |-> IF q \in Replaced(r) THEN "none"
                                     ELSE IF q = r THEN "running" ELSE game[q]]
          /\ state' = [state EXCEPT ![r] = "Playing"]
       \/ /\ ~Published(r)
          /\ game' = [game EXCEPT ![r] = "none"]
          /\ UNCHANGED << games, away, state >>
  /\ doing' = [doing EXCEPT ![c] = "saving"]
  /\ UNCHANGED << target, clients, clientRoom, sessionRoom, reconnects, life,
                  players, order, publishing, removals, closed, storeVars >>

\* The session ends its game and reopens the room: ResetAfterGame.  Nobody
\* asks an ended game who is offline.
GameOver(r) ==
  /\ game[r] = "running"
  /\ game' = [game EXCEPT ![r] = "none"]
  /\ away' = [away EXCEPT ![r] = {}]
  /\ state' = [state EXCEPT ![r] = "Waiting"]
  /\ players' = [players EXCEPT ![r] =
       [p \in Player |-> [players[r][p] EXCEPT !.ready = FALSE]]]
  /\ UNCHANGED << connections, life, order, publishing, removals, closed,
                  games, storeVars >>

-----------------------------------------------------------------------------
(* The end of a connection                                                 *)

\* unregisterClient: only the registered connection is missed.
Unregisters(c) == clients[Owner[c]] = c

\* The peer goes away, or the connection is closed: it is too slow, or replaced.
Disconnect(c) ==
  /\ \/ /\ doing[c] = "idle" /\ Unregisters(c)
        /\ clients' = [clients EXCEPT ![Owner[c]] = NoClient]
        /\ doing' = [doing EXCEPT ![c] = "leaving"]
     \/ /\ doing[c] = "idle" /\ ~Unregisters(c)
        /\ doing' = [doing EXCEPT ![c] = "gone"]
        /\ UNCHANGED clients
  /\ UNCHANGED << clientRoom, sessionRoom, target, reconnects,
                  rooms, sessions, storeVars >>

\* Fault: the member is detached whichever connection it has now.
DetachesAny(c, r) == TRUE

\* The connection that ends is still the member's.
Detaches(c, r) == players[r][Owner[c]].client = c

NotifyPlayerOffline(c) ==
  /\ doing[c] = "leaving"
  /\ \/ /\ \A r \in PublishedAs(clientRoom[c]) :
             publishing[r] = NoClient /\ ~Detaches(c, r)
        /\ doing' = [doing EXCEPT ![c] = "gone"]
        /\ clientRoom' = [clientRoom EXCEPT ![c] = NoCode]
        /\ UNCHANGED << sessionRoom, target, life, state, players, order,
                        publishing, retiringRooms, queues >>
     \/ \E r \in PublishedAs(clientRoom[c]) :
          /\ Locks(r) /\ Detaches(c, r) /\ Owner[c] \in Members(r)
          /\ IF Attached(r) \ {Owner[c]} = {}
             THEN Unpublish(r)
             ELSE /\ players' = [players EXCEPT ![r][Owner[c]].client = NoClient]
                  /\ UNCHANGED << clientRoom, sessionRoom, life, state, order,
                                  retiringRooms, queues >>
          /\ publishing' = [publishing EXCEPT ![r] = c]
          /\ target' = [target EXCEPT ![c] = r]
          /\ doing' = [doing EXCEPT ![c] = "reporting"]
  /\ UNCHANGED << clients, reconnects, removals, closed, sessions, workers, persistenceClosed, store >>

\* handlePresenceChanged: only the session registered for this very room.
WithPresence(r, p, online) ==
  IF games[CodeOf[r]] # r \/ game[r] # "running" THEN away
  ELSE [away EXCEPT ![r] = IF online THEN @ \ {p} ELSE @ \cup {p}]

ReportOffline(c) ==
  /\ doing[c] = "reporting"
  /\ \E r \in {target[c]} :
       /\ away' = WithPresence(r, Owner[c], FALSE)
       /\ publishing' = [publishing EXCEPT ![r] = NoClient]
       /\ removals' = IF Published(r) THEN removals ELSE removals \cup {r}
  /\ doing' = [doing EXCEPT ![c] = "gone"]
  /\ target' = [target EXCEPT ![c] = NoRoom]
  /\ clientRoom' = [clientRoom EXCEPT ![c] = NoCode]
  /\ UNCHANGED << clients, sessionRoom, reconnects, life, state, players,
                  order, closed, games, game, storeVars >>

-----------------------------------------------------------------------------
(* Reconnect: handleReconnect, one at a time under sessionAuthorityMu      *)

Reconnecting == { c \in Connection :
  doing[c] \in {"recalled", "rebound", "attached", "undone"} }

\* RestoreSession tells the player's room; the credential is not modelled.
RestoreSession(c) ==
  /\ doing[c] = "temporary" /\ ~closed /\ Reconnecting = {}
  /\ recalled' = [recalled EXCEPT ![c] = sessionRoom[Owner[c]]]
  /\ doing' = [doing EXCEPT ![c] = "recalled"]
  /\ UNCHANGED << clients, clientRoom, sessionRoom, target, previous, former,
                  rooms, sessions, storeVars >>

RebindClient(c) ==
  /\ doing[c] = "recalled"
  /\ previous' = [previous EXCEPT ![c] = clients[Owner[c]]]
  /\ clients' = [clients EXCEPT ![Owner[c]] = c]
  /\ clientRoom' = [clientRoom EXCEPT ![c] = recalled[c]]
  /\ recalled' = [recalled EXCEPT ![c] = NoCode]
  /\ doing' = [doing EXCEPT ![c] = "rebound"]
  /\ UNCHANGED << sessionRoom, target, former, rooms, sessions, storeVars >>

\* finishReconnectSuccess: the connection that was replaced will end.
Finish(c) ==
  /\ previous' = [previous EXCEPT ![c] = NoClient]
  /\ doing' = [doing EXCEPT ![c] = "idle"]

\* restoreReconnectRoom: the room the player comes back to, if he is still in it.
Restorable(c) == { r \in PublishedAs(clientRoom[c]) : Owner[c] \in Members(r) }

\* AttachClient
AttachClient(r, c) == players' = [players EXCEPT ![r][Owner[c]].client = c]

\* ReconnectPlayerWithResponse, up to the snapshot.
ReconnectPlayer(c) ==
  /\ doing[c] = "rebound"
  /\ \E r \in Restorable(c) :
       /\ Locks(r)
       /\ former' = [former EXCEPT ![c] = players[r][Owner[c]].client]
       /\ AttachClient(r, c)
       /\ publishing' = [publishing EXCEPT ![r] = c]
       /\ target' = [target EXCEPT ![c] = r]
  /\ Bind(c, clientRoom[c])
  /\ doing' = [doing EXCEPT ![c] = "attached"]
  /\ UNCHANGED << clients, recalled, previous, life, state, order, removals,
                  closed, sessions, storeVars >>

\* deliverRoomlessReconnect: the room is gone, or the player has left it.
ReconnectRoomless(c) ==
  /\ doing[c] = "rebound"
  /\ Restorable(c) = {}
  /\ \A r \in PublishedAs(clientRoom[c]) : publishing[r] = NoClient
  /\ Bind(c, NoCode)
  /\ \/ Finish(c)
     \/ /\ doing' = [doing EXCEPT ![c] = "undone"]
        /\ UNCHANGED previous
  /\ UNCHANGED << clients, target, recalled, former, rooms, sessions, storeVars >>

\* rollbackRoomReconnect
RoomRolledBack(c, r) == [players EXCEPT ![r][Owner[c]].client = former[c]]

\* The snapshot is queued for the connection, or it is closed by now.
DeliverSnapshot(c) ==
  /\ doing[c] = "attached"
  /\ \E r \in {target[c]} :
       /\ \/ /\ away' = WithPresence(r, Owner[c], TRUE)
             /\ Finish(c)
             /\ UNCHANGED players
          \/ /\ players' = RoomRolledBack(c, r)
             /\ doing' = [doing EXCEPT ![c] = "undone"]
             /\ UNCHANGED << previous, away >>
       /\ publishing' = [publishing EXCEPT ![r] = NoClient]
  /\ target' = [target EXCEPT ![c] = NoRoom]
  /\ former' = [former EXCEPT ![c] = NoClient]
  /\ UNCHANGED << clients, clientRoom, sessionRoom, recalled, life, state, order,
                  removals, closed, games, game, storeVars >>

\* The connection ends without the identity it had for a moment.
RollbackRebindClient(c) ==
  /\ doing[c] = "undone"
  /\ clients' = [clients EXCEPT ![Owner[c]] = previous[c]]
  /\ clientRoom' = [clientRoom EXCEPT ![c] = NoCode]
  /\ previous' = [previous EXCEPT ![c] = NoClient]
  /\ doing' = [doing EXCEPT ![c] = "gone"]
  /\ UNCHANGED << sessionRoom, target, recalled, former, rooms, sessions, storeVars >>

-----------------------------------------------------------------------------
(* What the manager does by itself                                         *)

\* cleanup, or at shutdown removeAllForShutdown.
RemoveIdleRoom(r) ==
  /\ Locks(r) /\ (closed \/ state[r] = "Waiting")
  /\ Unpublish(r)
  /\ removals' = removals \cup {r}
  /\ UNCHANGED << clients, doing, target, reconnects, publishing, closed,
                  sessions, workers, persistenceClosed, store >>

\* Fault: the callback goes by the code.
GoesByCode(r) == games[CodeOf[r]] # NoRoom

\* The registration is of the removed room, not of one with its code.
Registers(r) == games[CodeOf[r]] = r

\* dispatchRoomRemoval, handleRoomRemoved, with the retirement of the session
\* that it has just taken off the register.
HandleRoomRemoved(r) ==
  /\ r \in removals
  /\ removals' = removals \ {r}
  /\ IF Registers(r)
     THEN /\ game' = [game EXCEPT ![games[CodeOf[r]]] = "none"]
          /\ games' = [games EXCEPT ![CodeOf[r]] = NoRoom]
     ELSE UNCHANGED << games, game >>
  /\ UNCHANGED << connections, life, state, players, order, publishing,
                  closed, away, storeVars >>

\* Fault: the room is written without a look at who has its code.
PersistsAny(r) == TRUE

\* Only a published room is written.
Persists(r) == Published(r)

PersistRoom(c) ==
  /\ doing[c] = "saving"
  /\ IF Persists(target[c]) THEN EnqueueSave(target[c]) ELSE UNCHANGED queues
  /\ doing' = [doing EXCEPT ![c] = "idle"]
  /\ target' = [target EXCEPT ![c] = NoRoom]
  /\ UNCHANGED << clients, clientRoom, sessionRoom, reconnects, rooms, sessions,
                  retiringRooms, workers, persistenceClosed, store >>

Persist(k) ==
  /\ Work(k)
  /\ UNCHANGED << connections, rooms, sessions >>

\* The shutdown has waited for the end of every connection.
Close ==
  /\ ~closed /\ \A c \in Connection : doing[c] \in {"temporary", "gone"}
  /\ closed' = TRUE
  /\ UNCHANGED << connections, life, state, players, order, publishing, removals,
                  sessions, storeVars >>

CloseStore ==
  /\ closed /\ removals = {} /\ \A r \in Room : ~Published(r)
  /\ ClosePersistence
  /\ UNCHANGED << connections, rooms, sessions >>

-----------------------------------------------------------------------------
Command(c) ==
  \/ \E r \in Room : CreateRoom(c, r) \/ JoinRoom(c, r) \/ LeaveRoom(c, r)
  \/ \E r \in Room, ready \in BOOLEAN : SetPlayerReady(c, r, ready)
  \/ Disconnect(c)
  \/ RestoreSession(c)

\* What is under way goes on.
Proceed(c) ==
  \/ SetGameSession(c) \/ PersistRoom(c)
  \/ NotifyPlayerOffline(c) \/ ReportOffline(c)
  \/ RebindClient(c) \/ ReconnectPlayer(c) \/ ReconnectRoomless(c)
  \/ DeliverSnapshot(c) \/ RollbackRebindClient(c)

Manage(r) == GameOver(r) \/ RemoveIdleRoom(r) \/ HandleRoomRemoved(r)

RoomsNext ==
  \/ \E c \in Connection : Command(c) \/ Proceed(c)
  \/ \E r \in Room : Manage(r)
  \/ \E k \in Code : Persist(k)
  \/ Close \/ CloseStore

\* The persistence workers are scheduled; of users and timers nothing is asked.
RoomsSpec == RoomsInit /\ [][RoomsNext]_roomsVars /\ \A k \in Code : WF_storeVars(Work(k))

-----------------------------------------------------------------------------
(* Properties                                                              *)

\* Every variable has its type.
RoomsTypeOK ==
  /\ clients \in [Player -> Connection \cup {NoClient}]
  /\ doing \in [Connection -> {"temporary", "idle", "starting", "saving", "leaving", "reporting",
                 "recalled", "rebound", "attached", "undone", "gone"}]
  /\ clientRoom \in [Connection -> Code \cup {NoCode}]
  /\ sessionRoom \in [Player -> Code \cup {NoCode}]
  /\ recalled \in [Connection -> Code \cup {NoCode}]
  /\ target \in [Connection -> Room \cup {NoRoom}]
  /\ previous \in [Connection -> Connection \cup {NoClient}]
  /\ former \in [Connection -> Connection \cup {NoClient}]
  /\ life \in [Room -> {"unused", "published", "removed"}]
  /\ state \in [Room -> {"Waiting", "Ready", "Playing", "Ended"}]
  /\ players \in [Room -> [Player ->
       [seat: 0 .. RoomSize, client: Connection \cup {NoClient}, ready: BOOLEAN]]]
  /\ \A r \in Room : Range(order[r]) = Members(r)
  /\ publishing \in [Room -> Connection \cup {NoClient}]
  /\ removals \subseteq Room /\ closed \in BOOLEAN
  /\ games \in [Code -> Room \cup {NoRoom}]
  /\ game \in [Room -> {"none", "starting", "running"}]
  /\ away \in [Room -> SUBSET Player]

\* The connection that is registered for a player and bound to a room code is
\* the member's connection in the room published under it: neither the end of
\* the connection it replaced nor a reconnect that was taken back has detached
\* it (NotifyPlayerOffline, rollbackRoomReconnect, removePublishedRoomLocked).
BoundAreMembers ==
  \A c \in Connection :
    doing[c] = "idle" /\ clients[Owner[c]] = c /\ clientRoom[c] # NoCode
      => \E r \in PublishedAs(clientRoom[c]) : players[r][Owner[c]].client = c

\* A member's connection in a published room is bound to the room and has the
\* member's identity (ReconnectPlayerWithResponse, CompareAndSetRoom).
MembersAreBound ==
  \A r \in Room : Published(r) =>
    \A p \in Attached(r) :
      /\ clientRoom[players[r][p].client] = CodeOf[r]
      /\ Owner[players[r][p].client] = p

\* A game that runs in a published room knows who of its players is offline,
\* whatever overtakes the start of the game or the news (SetGameSession with
\* SyncRoomPresence, handlePresenceChanged).
PresenceAgrees ==
  \A r \in Room :
    Published(r) /\ publishing[r] = NoClient /\ game[r] = "running"
      => away[r] = OfflineMembers(r)

\* Seats are distinct, the order of play follows them, and a game starts with
\* a full table: seats 0, 1, 2 (nextAvailableSeatLocked, insertPlayerOrderLocked).
SeatsInOrder ==
  \A r \in Room :
    LET seat(i) == players[r][order[r][i]].seat IN
    /\ \A i, j \in DOMAIN order[r] : i < j => seat(i) < seat(j)
    /\ state[r] \in {"Ready", "Playing"} => \A i \in 1 .. RoomSize : seat(i) = i - 1

\* Rooms and connections agree about who sits where, also while a connection
\* ends that another one has replaced and a reconnect is taken back.
MembershipAgrees == RoomsTypeOK /\ BoundAreMembers /\ MembersAreBound /\ SeatsInOrder

\* A room that plays has its running game, registered under its code, and a
\* game outlives its room only until the removal is dispatched, however late
\* that is and whoever has the code by then (SetGameSession, handleRoomRemoved).
GamesFollowRooms ==
  \A r \in Room :
    /\ game[r] = "running" =>
         /\ games[CodeOf[r]] = r
         /\ Published(r) \/ r \in removals \/ publishing[r] # NoClient
    /\ Published(r) /\ state[r] = "Playing" => game[r] = "running"

-----------------------------------------------------------------------------
Fate(r) ==
  CASE life[r] = "unused" -> "unborn"
    [] life[r] = "published" -> "open"
    [] life[r] = "removed" -> IF DeletePending(r) THEN "closed" ELSE "forgotten"

Register == INSTANCE RoomRegister WITH
  fate <- [r \in Room |-> Fate(r)], record <- store

\* The room manager with its workers keeps the promise of RoomRegister: a code
\* names one room at a time, nothing is written of a room that was forgotten,
\* and a removed room is forgotten in the end (generateRoomCode, PersistRoom,
\* enqueueRoomDelete, runPersistenceQueue).
KeepsRegister == Register!LiveSpec
=============================================================================
