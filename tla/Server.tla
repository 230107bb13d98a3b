------------------------------- MODULE Server -------------------------------
(***************************************************************************)
(* The server around its games: connections with their place under the    *)
(* limit and their two pumps (server/connection.go, connection_limit.go,   *)
(* client.go), moderation (admin.go, moderation.go) and the shutdown       *)
(* (lifecycle.go), over the operator's state of Operations.                *)
(*                                                                         *)
(* A player is known by the connection that first had it.  A reconnect     *)
(* holds sessionAuthorityMu from Rebind to Finish; what else runs under it *)
(* is one step.  Reconnect has the credentials that are left out here.     *)
(***************************************************************************)
EXTENDS Operations

\* What happens in a behaviour: which connections are made, which commands
\* they run, what the operator does, and how many connections are let in.
CONSTANT Scenes

ASSUME ServerAssumption ==
  /\ 0 \notin Connections
  /\ Scenes \subseteq [connections : SUBSET Connections, commands : SUBSET (Kinds \cup {"reconnect"}),
                       operator : SUBSET {"modes", "moderation"}, limit : Nat]

Nobody == 0
Stages == << "running", "maintain", "changing", "waiting", "stopping", "http", "matcher",
             "workers", "clients", "pumps", "rooms", "saves", "closed" >>

VARIABLES
  scene,
  stage,      \* how far the shutdown has come
  doing,      \* where the handling of a connection has come to
  slot,       \* connectionLease: none, reserved, active or released
  reserved,   \* connectionLimiter.reserved
  sockets,    \* open WebSockets
  clients,    \* Server.clients, by player
  ident,      \* Client.ID
  closed,     \* Client.closed
  reading,    \* ReadPump: off, on, or leaving (handleDisconnect)
  writing,    \* connections whose WritePump runs
  sessions,   \* players with a session to come back to
  authority,  \* the reconnect that holds sessionAuthorityMu
  previous,   \* whom a reconnect under way has detached
  missed,     \* history: whom one had detached when Shutdown closed the others
  banned,     \* moderationStore.bannedUntil, not yet over
  saving      \* whether a room is still to be written to Redis

connection == << doing, slot, reserved, sockets, clients, ident, closed, reading,
                 writing, sessions, authority, previous, missed >>
serverVars == << operation, scene, stage, connection, banned, saving >>

ServerInit ==
  /\ OperationsInit
  /\ scene \in Scenes /\ stage = "running"
  /\ doing = [c \in Connections |-> "unborn"] /\ slot = [c \in Connections |-> "none"]
  /\ reserved = 0 /\ sockets = {}
  /\ clients = [c \in Connections |-> Nobody] /\ ident = clients /\ previous = clients
  /\ closed = {} /\ reading = [c \in Connections |-> "off"] /\ writing = {}
  /\ sessions = {} /\ authority = Nobody /\ missed = {}
  /\ banned = {} /\ saving = FALSE

Past(s) == \E i, j \in DOMAIN Stages : Stages[i] = s /\ Stages[j] = stage /\ i < j
ShuttingDown == stage # "running"
MatcherClosed == Past("matcher")
RoomsClosed == Past("rooms")
Serving == ~Past("http")  \* the admin endpoint can still be reached

-----------------------------------------------------------------------------
(* A connection is made: handleWebSocket.                                  *)

Goes(c, to) == doing' = [doing EXCEPT ![c] = to]

\* connectionLease.release, which only works once.
Frees(c) ==
  /\ slot' = [slot EXCEPT ![c] = "released"]
  /\ reserved' = IF slot[c] \in {"reserved", "active"} THEN reserved - 1 ELSE reserved

Knock(c) ==
  /\ c \in scene.connections /\ doing[c] = "unborn" /\ ~ShuttingDown
  /\ reserved < scene.limit
  /\ reserved' = reserved + 1 /\ slot' = [slot EXCEPT ![c] = "reserved"]
  /\ Goes(c, "knocked")
  /\ UNCHANGED << operation, scene, stage, sockets, clients, ident, closed, reading,
                  writing, sessions, authority, previous, missed, banned, saving >>

\* The address, the origin, the rate or the browser's cookie is refused.
Refuse(c) ==
  /\ doing[c] = "knocked" /\ Goes(c, "gone") /\ Frees(c)
  /\ UNCHANGED << operation, scene, stage, sockets, clients, ident, closed, reading,
                  writing, sessions, authority, previous, missed, banned, saving >>

Upgrade(c) ==
  /\ doing[c] = "knocked" /\ Goes(c, "upgraded")
  /\ sockets' = sockets \cup {c} /\ slot' = [slot EXCEPT ![c] = "active"]
  /\ UNCHANGED << operation, scene, stage, reserved, clients, ident, closed, reading,
                  writing, sessions, authority, previous, missed, banned, saving >>

\* negotiateWebSocket refuses the client's hello, or it never comes.
HandshakeFails(c) ==
  /\ doing[c] = "upgraded" /\ Goes(c, "gone")
  /\ sockets' = sockets \ {c} /\ Frees(c)
  /\ UNCHANGED << operation, scene, stage, clients, ident, closed, reading,
                  writing, sessions, authority, previous, missed, banned, saving >>

\* activateWebSocketClient: registerClient and CreateSession.
Register(c) ==
  /\ doing[c] = "upgraded" /\ Goes(c, "registered")
  /\ clients' = [clients EXCEPT ![c] = c] /\ ident' = [ident EXCEPT ![c] = c]
  /\ sessions' = sessions \cup {c}
  /\ UNCHANGED << operation, scene, stage, slot, reserved, sockets, closed, reading,
                  writing, authority, previous, missed, banned, saving >>

\* Fault: the pumps are started although the server shuts down.
FaultServes == TRUE

\* startClientPumps.
Serves == ~ShuttingDown

Activate(c) ==
  /\ doing[c] = "registered" /\ Serves
  /\ Goes(c, "serving")
  /\ reading' = [reading EXCEPT ![c] = "on"] /\ writing' = writing \cup {c}
  /\ UNCHANGED << operation, scene, stage, slot, reserved, sockets, clients, ident, closed,
                  sessions, authority, previous, missed, banned, saving >>

Without(p, c) == IF clients[p] = c THEN [clients EXCEPT ![p] = Nobody] ELSE clients

\* cleanupRejectedClientSession, cleanupClientPumpStartFailure, and the
\* release that handleWebSocket deferred.
Withdraw(c) ==
  /\ doing[c] = "registered" /\ (c \in closed \/ ~Serves)
  /\ Goes(c, "gone") /\ closed' = closed \cup {c}
  /\ clients' = Without(c, c) /\ sessions' = sessions \ {c}
  /\ sockets' = sockets \ {c} /\ Frees(c)
  /\ UNCHANGED << operation, scene, stage, ident, reading, writing, authority, previous,
                  missed, banned, saving >>

-----------------------------------------------------------------------------
(* The pumps of a connection.                                              *)

Idle(c) == reading[c] = "on" /\ inside[c] = "none" /\ authority # c
Reads(c) == c \in sockets /\ Idle(c)

\* ReadPump returns: its socket is closed or broken.
StopReading(c) ==
  /\ Idle(c)
  /\ reading' = [reading EXCEPT ![c] = "leaving"] /\ closed' = closed \cup {c}
  /\ UNCHANGED << operation, scene, stage, doing, slot, reserved, sockets, clients, ident,
                  writing, sessions, authority, previous, missed, banned, saving >>

\* handleDisconnect: only the connection registered for a player leaves the
\* matcher, and its player is off line.
Disconnect(c) ==
  /\ reading[c] = "leaving" /\ reading' = [reading EXCEPT ![c] = "off"]
  /\ clients' = Without(ident[c], c)
  /\ queued' = IF clients[ident[c]] = c THEN queued \ {c} ELSE queued
  /\ UNCHANGED << mode, change, inside, game, leases, poll, safe,
                  scene, stage, doing, slot, reserved, sockets, ident, closed, writing,
                  sessions, authority, previous, missed, banned, saving >>

\* WritePump returns: the client is closed, or a write fails.
StopWriting(c) ==
  /\ c \in writing /\ writing' = writing \ {c} /\ closed' = closed \cup {c}
  /\ sockets' = sockets \ {c} /\ Frees(c)
  /\ UNCHANGED << operation, scene, stage, doing, clients, ident, reading, sessions,
                  authority, previous, missed, banned, saving >>

\* A reconnect as player p: RebindClient, once p is found not to be banned.
Rebind(c, p) ==
  /\ "reconnect" \in scene.commands
  /\ Reads(c) /\ ident[c] = c /\ clients[c] = c /\ c # p
  /\ p \in sessions /\ authority = Nobody
  /\ IF p \in banned
     THEN /\ closed' = closed \cup {c}
          /\ UNCHANGED << clients, ident, sessions, authority, previous >>
     ELSE /\ authority' = c /\ previous' = [previous EXCEPT ![c] = clients[p]]
          /\ clients' = [clients EXCEPT ![p] = c, ![c] = Nobody]
          /\ ident' = [ident EXCEPT ![c] = p] /\ sessions' = sessions \ {c}
          /\ UNCHANGED closed
  /\ UNCHANGED << operation, scene, stage, doing, slot, reserved, sockets, reading,
                  writing, missed, banned, saving >>

\* finishReconnectSuccess: the answer is on its way, the connection that had
\* the player is closed.
Finish(c) ==
  /\ authority = c /\ c \notin closed
  /\ authority' = Nobody /\ previous' = [previous EXCEPT ![c] = Nobody]
  /\ closed' = closed \cup ({previous[c]} \ {Nobody})
  /\ queued' = IF previous[c] \in queued THEN (queued \ {previous[c]}) \cup {c} ELSE queued
  /\ UNCHANGED << mode, change, inside, game, leases, poll, safe, scene, stage, doing, slot,
                  reserved, sockets, clients, ident, reading, writing, sessions, missed,
                  banned, saving >>

\* RollbackRebindClient: the answer cannot be delivered, since the new
\* connection is closed or its queue full.
RollBack(c) ==
  /\ authority = c /\ authority' = Nobody /\ previous' = [previous EXCEPT ![c] = Nobody]
  /\ closed' = closed \cup {c}
  /\ clients' = [clients EXCEPT ![ident[c]] = previous[c], ![c] = c]
  /\ ident' = [ident EXCEPT ![c] = c] /\ sessions' = sessions \cup {c}
  /\ UNCHANGED << operation, scene, stage, doing, slot, reserved, sockets, reading,
                  writing, missed, banned, saving >>

-----------------------------------------------------------------------------
(* Commands and games, as the server's other parts let them.               *)

Command(c, kind) ==
  /\ kind \in scene.commands /\ Reads(c) /\ Enter(c, kind)
  /\ UNCHANGED << scene, stage, connection, banned, saving >>

\* saveRoomAsync, unless the room manager is closed.
Saves == saving' = (saving \/ ~RoomsClosed)

CommandEnds(c) ==
  /\ \/ Return(c) /\ (IF inside[c] = "match" THEN UNCHANGED saving ELSE Saves)
     \/ Enqueue(c) /\ ~MatcherClosed /\ UNCHANGED saving
  /\ UNCHANGED << scene, stage, connection, banned >>

Starts(c, g) ==
  /\ \/ ReadyStarts(c, g) /\ ~RoomsClosed
     \/ MatchLeases(c, g) /\ ~MatcherClosed
  /\ Saves
  /\ UNCHANGED << scene, stage, connection, banned >>

MatchEnds(c) == MatchRefused(c) /\ UNCHANGED << scene, stage, connection, banned, saving >>

GameStep(g) ==
  /\ MatchCommits(g) \/ MatchAborts(g) \/ EndGame(g) \/ Settled(g)
  /\ UNCHANGED << scene, stage, connection, banned, saving >>

\* persistenceWorker.
Persist ==
  /\ saving /\ saving' = FALSE
  /\ UNCHANGED << operation, scene, stage, connection, banned >>

-----------------------------------------------------------------------------
(* The operator: admin.go.                                                 *)

ChangeMode(to) ==
  /\ "modes" \in scene.operator /\ Serving /\ Request("admin", to)
  /\ UNCHANGED << scene, stage, connection, banned, saving >>

Status ==
  /\ \/ Serving /\ "modes" \in scene.operator /\ CountGames("admin")
     \/ Judge("admin")
  /\ UNCHANGED << scene, stage, connection, banned, saving >>

ChangeStep ==
  /\ Swap \/ CancelPending \/ Announce
  /\ UNCHANGED << scene, stage, connection, banned, saving >>

\* handleAdminBan, and handleAdminDisconnect which only closes.
Known(p) == ident[p] # Nobody
Closes(p) == closed' = closed \cup ({clients[p]} \ {Nobody})

\* Fault: the ban does not wait for a reconnect under way.
FaultBan(p) ==
  /\ "moderation" \in scene.operator /\ Serving
  /\ Known(p) /\ banned' = banned \cup {p} /\ Closes(p)
  /\ UNCHANGED << operation, scene, stage, doing, slot, reserved, sockets, clients, ident,
                  reading, writing, sessions, authority, previous, missed, saving >>

Ban(p) ==
  /\ "moderation" \in scene.operator /\ Serving /\ authority = Nobody
  /\ Known(p) /\ banned' = banned \cup {p} /\ Closes(p)
  /\ UNCHANGED << operation, scene, stage, doing, slot, reserved, sockets, clients, ident,
                  reading, writing, sessions, authority, previous, missed, saving >>

AdminDisconnect(p) ==
  /\ "moderation" \in scene.operator /\ Serving /\ authority = Nobody
  /\ Known(p) /\ Closes(p) /\ UNCHANGED banned
  /\ UNCHANGED << operation, scene, stage, doing, slot, reserved, sockets, clients, ident,
                  reading, writing, sessions, authority, previous, missed, saving >>

\* The ban is lifted or over.
Unban(p) ==
  /\ p \in banned /\ banned' = banned \ {p}
  /\ UNCHANGED << operation, scene, stage, connection, saving >>

-----------------------------------------------------------------------------
(* GracefulShutdown and Shutdown.                                          *)

Advances(from) ==
  /\ stage = from
  /\ stage' = LET i == CHOOSE n \in DOMAIN Stages : Stages[n] = from IN Stages[i + 1]

Signal ==
  /\ Advances("running") /\ UNCHANGED << operation, scene, connection, banned, saving >>

EnterMaintenance ==
  /\ Advances("maintain") /\ Request("shutdown", "maintenance")
  /\ UNCHANGED << scene, connection, banned, saving >>

InMaintenance ==
  /\ Advances("changing") /\ change.by # "shutdown"
  /\ UNCHANGED << operation, scene, connection, banned, saving >>

\* waitForOperationalQuiescence: at every tick, until it is safe or too late.
Wait ==
  /\ stage = "waiting"
  /\ \/ CountGames("shutdown") /\ UNCHANGED stage
     \/ Judge("shutdown") /\ (IF SafeToRestart(poll["shutdown"]) THEN Advances("waiting")
                              ELSE UNCHANGED stage)
  /\ UNCHANGED << scene, connection, banned, saving >>

TimeOut ==
  /\ Advances("waiting") /\ poll["shutdown"] = "none"
  /\ UNCHANGED << operation, scene, connection, banned, saving >>

\* stopClientPumps; then stopHTTPServer, which waits five seconds at most.
StopServing ==
  /\ Advances("stopping") \/ Advances("http")
  /\ UNCHANGED << operation, scene, connection, banned, saving >>

\* Matcher.Close ends what it has queued, its attempts and its rooms, ...
CloseMatcher ==
  /\ Advances("matcher") /\ queued' = {}
  /\ game' = [g \in Games |-> IF game[g] = "matched" THEN "none" ELSE Withdrawn[g]]
  /\ leases' = leases - Cardinality(In({"matched"}))
  /\ UNCHANGED << mode, change, inside, poll, safe, scene, connection, banned, saving >>

\* ... and waits for its workers.
MatcherDone ==
  /\ Advances("workers") /\ In(Pending) = {}
  /\ UNCHANGED << operation, scene, connection, banned, saving >>

\* Close of the connections that are registered. One that a reconnect has
\* detached is not, and is overlooked.
CloseClients ==
  /\ Advances("clients")
  /\ closed' = closed \cup ({clients[p] : p \in Connections} \ {Nobody})
  /\ missed' = { previous[c] : c \in Connections } \ {Nobody}
  /\ UNCHANGED << operation, scene, doing, slot, reserved, sockets, clients, ident, reading,
                  writing, sessions, authority, previous, banned, saving >>

Pumping == writing \cup {c \in Connections : reading[c] # "off"}

\* Fault: the pumps are not waited for.
FaultPumpsDone ==
  /\ Advances("pumps")
  /\ UNCHANGED << operation, scene, connection, banned, saving >>

\* clientPumpsWG.Wait.
PumpsDone ==
  /\ Advances("pumps") /\ Pumping = {}
  /\ UNCHANGED << operation, scene, connection, banned, saving >>

\* RoomManager.Close: rooms are removed and their games retired; a save is
\* dropped if it has not begun, ...
CloseRooms ==
  /\ Advances("rooms")
  /\ game' = [g \in Games |-> IF game[g] \in Playing THEN "none" ELSE game[g]]
  /\ leases' = leases - Cardinality(In(Playing))
  /\ saving' \in {saving, FALSE}
  /\ UNCHANGED << mode, change, inside, queued, poll, safe, scene, connection, banned >>

\* ... and one that has begun is waited for, before Redis is closed.
CloseRedis ==
  /\ Advances("saves") /\ ~saving
  /\ UNCHANGED << operation, scene, connection, banned, saving >>

-----------------------------------------------------------------------------
Reconnecting(c) == Finish(c) \/ RollBack(c)
Leaving(c) == \/ Disconnect(c) \/ Withdraw(c)
              \/ c \in closed /\ StopWriting(c)
              \/ c \notin sockets /\ StopReading(c)
ShutdownStep ==
  \/ EnterMaintenance \/ InMaintenance \/ Wait \/ TimeOut \/ StopServing
  \/ CloseMatcher \/ MatcherDone \/ CloseClients \/ PumpsDone \/ CloseRooms \/ CloseRedis

ServerNext ==
  \/ \E c \in Connections :
       \/ Knock(c) \/ Refuse(c) \/ Upgrade(c) \/ HandshakeFails(c)
       \/ Register(c) \/ Activate(c) \/ Withdraw(c)
       \/ StopReading(c) \/ Disconnect(c) \/ StopWriting(c) \/ Reconnecting(c)
       \/ CommandEnds(c) \/ MatchEnds(c)
       \/ \E p \in Connections : Rebind(c, p)
       \/ \E kind \in Kinds : Command(c, kind)
       \/ \E g \in Games : Starts(c, g)
  \/ \E g \in Games : GameStep(g)
  \/ \E to \in Modes : ChangeMode(to)
  \/ \E p \in Connections : Ban(p) \/ AdminDisconnect(p) \/ Unban(p)
  \/ Persist \/ Status \/ ChangeStep \/ Signal \/ ShutdownStep

\* The goroutines of the server go on: a mutex starves nobody, and a timer
\* that has fired is taken by a select in the end.  Nothing says that peers
\* send or leave, that games end or that an operator acts.
ServerFairness ==
  /\ WF_serverVars(\E c \in Connections : Leaving(c))
  /\ WF_serverVars(\E c \in Connections : Reconnecting(c))
  /\ \A c \in Connections : WF_serverVars(CommandEnds(c))
  /\ WF_serverVars(\E g \in Games : game[g] \in Pending /\ GameStep(g))
  /\ WF_serverVars(Persist) /\ WF_serverVars(ChangeStep) /\ WF_serverVars(ShutdownStep)
  /\ SF_serverVars(EnterMaintenance) /\ SF_serverVars(TimeOut)

ServerSpec == ServerInit /\ [][ServerNext]_serverVars /\ ServerFairness

-----------------------------------------------------------------------------
(* Properties.                                                             *)

ServerTypeOK ==
  /\ OperationsTypeOK
  /\ scene \in Scenes /\ \E i \in DOMAIN Stages : stage = Stages[i]
  /\ doing \in [Connections -> {"unborn", "knocked", "upgraded", "registered", "serving", "gone"}]
  /\ slot \in [Connections -> {"none", "reserved", "active", "released"}] /\ reserved \in Nat
  /\ clients \in [Connections -> Connections \cup {Nobody}]
  /\ ident \in [Connections -> Connections \cup {Nobody}]
  /\ previous \in [Connections -> Connections \cup {Nobody}] /\ missed \subseteq Connections
  /\ authority \in Connections \cup {Nobody}
  /\ \A s \in {sockets, closed, writing, sessions, banned} : s \subseteq Connections
  /\ reading \in [Connections -> {"off", "on", "leaving"}]
  /\ saving \in BOOLEAN

\* Every open WebSocket keeps its place under the limit until it is closed,
\* whoever its player has become, and no place is lost or given back twice
\* (connectionLease, whose release several ends of a connection compete for).
SlotsFollowSockets ==
  /\ Cardinality(sockets) <= scene.limit
  /\ reserved = Cardinality(sockets \cup {c \in Connections : doing[c] = "knocked"})

\* No open connection is a banned player's, also when the ban meets a
\* reconnect that is taking the player over (IsPlayerBanned, handleAdminBan).
BannedStayOut ==
  \A c \in Connections : doing[c] = "serving" /\ c \notin closed => ident[c] \notin banned

\* The server's books about its sockets, places and players are right.
SocketsAreAccounted == ServerTypeOK /\ SlotsFollowSockets /\ BannedStayOut

\* Nothing that writes to Redis is left when Redis is closed, but the
\* settlement of a game that a forced shutdown has not waited for
\* (closeRedis, closeRuntimeManagers).
NothingAfterRedis ==
  stage = "closed" =>
    /\ Pumping = {} /\ ~saving /\ queued = {}
    /\ In(Pending \cup Playing) = {}
    /\ safe => In({"over"}) = {}

\* Overlooked when the registered connections were closed, and open since: the
\* reconnect that had detached it was rolled back.
PutBack == {c \in Pumping \ closed : c \in missed}

\* A shutdown ends, at the latest when its time is up (clientPumpsWG.Wait),
\* unless it waits for good for the peer of a connection that a reconnect had
\* detached at the very moment the registered ones were closed.
ShutdownEnds == stage = "maintain" ~> (stage = "closed" \/ [](PutBack # {}))
=============================================================================
