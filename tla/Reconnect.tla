----------------------------- MODULE Reconnect -----------------------------
(***************************************************************************)
(* Coming back as a player: connections (server/connection.go,             *)
(* server/client.go), the reconnect handler (server/handler/connection.go),*)
(* browser sessions (server/web_session.go, server/web.go) over the        *)
(* session manager, with the device at the other end: a browser with one   *)
(* cookie jar, its requests and answers lost at will, or a terminal client.*)
(*                                                                         *)
(* sessionAuthorityMu makes steps of what runs under it; the reconnect     *)
(* handler, which meets connections that end while it holds the lock,      *)
(* keeps it in authority from step to step.  A read lock of a connection's *)
(* webCommandMu is its membership in running.  Rooms are another module's. *)
(***************************************************************************)
EXTENDS Naturals, FiniteSets, Credentials

\* The device of a behaviour: a browser or a terminal client, how many
\* connections it makes, and from which of them its page may log out.
CONSTANT Devices

ASSUME ReconnectAssumption ==
  Devices \subseteq [kind : {"web", "tui"}, connections : Connection, leaves : SUBSET Connection]

VARIABLES
  scene,        \* the device, for a whole behaviour
  cred,         \* the session manager
  ticket,       \* by the token it is for: none, issued or committed
  nonces,       \* ownerNonces, by the connection it was set for
  clients,      \* Server.clients
  ident,        \* Client.ID
  doing,        \* where a connection's handling has come to
  seen,         \* the credential a connection brought with it
  closed,       \* Client.closed
  authorized,   \* Client.authorizedWebSessionToken
  running,      \* connections that carry out a command
  authority,    \* the handler that holds sessionAuthorityMu between steps
  moving,       \* by reconnecting connection, whom it drains
  previous,     \* by reconnecting connection, whom it replaces
  retired,      \* retiredBrowserClients
  jar,          \* of the device: the credential and, of a browser, the owner cookie
  request,      \* by connection: what its page asks for, or has been answered
  drains,       \* browserRevokeDrain, by the request that leads it
  awaited,      \* by revoke request, the drains it waits for
  held,         \* by player, the tokens the device may still hold
  ending,       \* by revoke request, the players that it waits to see ended
  over          \* players that a revoke which has returned ended

server == << cred, ticket, nonces, clients, ident, doing, seen, closed, authorized >>
locks == << running, authority, moving, previous, retired >>
device == << scene, jar, request >>
revokes == << drains, awaited, ending, over >>
reconnectVars == << server, locks, device, revokes, held >>

Web == scene.kind = "web"
NoRequest == [what |-> "none", cookie |-> NoToken, owner |-> Nobody]
NoDrain == [clients |-> {}, left |-> {}, credentials |-> {}, dependencies |-> {}, open |-> FALSE]

ReconnectInit ==
  /\ scene \in Devices
  /\ cred = NoCredentials
  /\ ticket = [t \in Token |-> "none"] /\ nonces = {}
  /\ clients = [p \in Connection |-> Nobody] /\ ident = clients
  /\ doing = [c \in Connection |-> "unborn"]
  /\ seen = [c \in Connection |-> NoToken] /\ authorized = seen
  /\ closed = {} /\ running = {} /\ retired = {}
  /\ authority = Nobody
  /\ moving = clients /\ previous = clients
  /\ jar = [cookie |-> NoToken, owner |-> Nobody]
  /\ request = [c \in Connection |-> NoRequest]
  /\ drains = [c \in Connection |-> NoDrain] /\ awaited = [c \in Connection |-> {}]
  /\ held = [p \in Connection |-> {}] /\ ending = held /\ over = {}

-----------------------------------------------------------------------------
(* What the steps share.                                                   *)

Free == authority = Nobody
Asks(c, what) == request[c].what = what
Registered(c) == clients[ident[c]] = c

\* webCommandMu: someone wants to write, or does.
Drained(x) == \E c \in Connection : moving[c] = x
Locked(x) == x \in running \/ \E c \in Connection : moving[c] = x /\ doing[c] # "draining"
Unwelcome(x) == Drained(x) \/ x \in retired \/ \E d \in Connection : x \in drains[d].left

\* Fault: the browser may have stored the answer of a commit.
FaultInvalidatedCommitted(cr, c) == IF ticket[New(c)] # "none" THEN RolledBack(cr, c, TRUE) ELSE cr

\* invalidateEntry, of the ticket c has for the token it came back with.
Invalidated(cr, c) ==
  CASE ticket[New(c)] = "issued" -> RolledBack(cr, c, TRUE)
    [] ticket[New(c)] = "committed" -> Orphaned(cr, c)
    [] OTHER -> cr

\* AcquireOwnerNonce, and the owner cookie that carries it.
NonceGiven(c) == nonces' = nonces \cup {c} /\ jar' = [jar EXCEPT !.owner = c]

\* Issue, of the ticket that will commit t.
Issued(tickets, t) == [tickets EXCEPT ![t] = "issued"]

\* The same for the connections gone, of which one at most has such a ticket
\* (OneRotationTicket).
AllInvalidated(cr, gone) ==
  LET turning == { c \in gone : ticket[New(c)] # "none" } IN
  IF turning = {} THEN cr ELSE Invalidated(cr, CHOOSE c \in turning : TRUE)

\* deleteEntryLocked and RevokeWebSessionAuthorization, of the connections gone.
WithoutTicketsOf(gone) == [t \in Token |-> IF t[1] \in gone THEN "none" ELSE ticket[t]]
WithoutAuthority(gone) ==
  [c \in Connection |-> IF c \in gone THEN NoToken ELSE authorized[c]]

\* Close of the connections gone: no authority, no tickets, no nonce.
Closes(gone, cr) ==
  /\ closed' = closed \cup gone
  /\ authorized' = WithoutAuthority(gone)
  /\ ticket' = WithoutTicketsOf(gone)
  /\ nonces' = nonces \ gone
  /\ cred' = AllInvalidated(cr, gone)

\* ObserveSuccessor, with ConfirmWebSession: whoever has a committed ticket
\* for the presented token may run commands from now on.
Confirmable(c, t, cr) ==
  c \notin closed /\ Registered(c) /\ CanReconnectToken(cr, t) /\ ~Drained(c)

\* A browser presents t, and the server follows it.
Presents(t, cr) ==
  LET c == t[1] IN
  IF ticket[t] = "committed"
  THEN /\ ticket' = [ticket EXCEPT ![t] = "none"]
       /\ authorized' = IF Confirmable(c, t, cr) THEN [authorized EXCEPT ![c] = t] ELSE authorized
  ELSE UNCHANGED << ticket, authorized >>

Goes(c, to) == doing' = [doing EXCEPT ![c] = to]
Answers(c, what, cookie) ==
  request' = [request EXCEPT ![c] = [NoRequest EXCEPT !.what = what, !.cookie = cookie]]
Becomes(c, what) == request' = [request EXCEPT ![c] = [NoRequest EXCEPT !.what = what]]
Releases(c) == authority' = Nobody /\ moving' = [moving EXCEPT ![c] = Nobody]

\* UnregisterClient: only who is registered goes.
Unregister(c) ==
  clients' = IF Registered(c) THEN [clients EXCEPT ![ident[c]] = Nobody] ELSE clients

-----------------------------------------------------------------------------
(* A connection is made: handleWebSocket.                                  *)

IsNext(c) ==
  /\ doing[c] = "unborn" /\ c <= scene.connections
  /\ \A b \in Connection : b < c => doing[b] # "unborn"

\* prepareBrowserWebSocket: the cookie, or else a fresh owner nonce.
Upgrade(c) ==
  /\ IsNext(c)
  /\ Web /\ Free
  /\ LET t == jar.cookie  cr == Resolved(cred, t)  observed == t # NoToken /\ Observes(cred, t) IN
       /\ cred' = cr
       /\ IF observed
          THEN /\ Presents(t, cr) /\ seen' = [seen EXCEPT ![c] = t] /\ Goes(c, "upgraded")
               /\ held' = [held EXCEPT ![HolderOf(cr, t)] = {t}]
               /\ UNCHANGED << nonces, jar >>
          ELSE IF Known(cr, t)
          THEN UNCHANGED << ticket, authorized, seen, doing, held, nonces, jar >>
          ELSE /\ NonceGiven(c) /\ Goes(c, "upgraded")
               /\ UNCHANGED << ticket, authorized, seen, held >>
  /\ UNCHANGED << clients, ident, closed, locks, scene, request, revokes >>

\* A terminal client brings the token it holds, if any.
Dial(c) ==
  /\ IsNext(c)
  /\ ~Web
  /\ seen' = [seen EXCEPT ![c] = jar.cookie] /\ Goes(c, "upgraded")
  /\ UNCHANGED << cred, ticket, nonces, clients, ident, closed, authorized, locks, device, revokes, held >>

\* The temporary identity, its session and, for a browser, its ticket.
Admits(c, cr) ==
  /\ clients' = [clients EXCEPT ![c] = c] /\ ident' = [ident EXCEPT ![c] = c]
  /\ cred' = Created(cr, c) /\ Goes(c, "idle")

\* activateWebSocketClient
ActivateBrowser(c) ==
  /\ doing[c] = "upgraded" /\ Web /\ Free
  /\ LET t == seen[c]  cr == Resolved(cred, t) IN
       IF (IF t = NoToken THEN c \notin nonces ELSE ~Observes(cred, t))
       THEN /\ Goes(c, "gone") /\ cred' = cr
            /\ UNCHANGED << ticket, nonces, clients, ident, authorized, request, held >>
       ELSE /\ Admits(c, cr)
            /\ IF t # NoToken /\ ticket[t] = "committed"
               THEN /\ ticket' = Issued([ticket EXCEPT ![t] = "none"], Own(c))
                    /\ authorized' = IF Confirmable(t[1], t, cr)
                                     THEN [authorized EXCEPT ![t[1]] = t] ELSE authorized
               ELSE ticket' = Issued(ticket, Own(c)) /\ UNCHANGED authorized
            /\ held' = IF t = NoToken THEN held ELSE [held EXCEPT ![HolderOf(cr, t)] = {t}]
            /\ Becomes(c, IF CanReconnectToken(cr, t) THEN "ask" ELSE "ticket")
            /\ UNCHANGED nonces
  /\ UNCHANGED << seen, closed, locks, scene, jar, revokes >>

ActivateTerminal(c) ==
  /\ doing[c] = "upgraded" /\ ~Web
  /\ Admits(c, cred)
  /\ held' = [held EXCEPT ![c] = {Own(c)}]
  /\ IF seen[c] = NoToken
     THEN Becomes(c, "up") /\ jar' = [jar EXCEPT !.cookie = Own(c)]
     ELSE Becomes(c, "ask") /\ UNCHANGED jar
  /\ UNCHANGED << ticket, nonces, seen, closed, authorized, locks, scene, revokes >>

\* The hello fails, or the answer cannot be sent: cleanupRejectedClientSession.
Abandon(c) ==
  /\ doing[c] = "upgraded" /\ Goes(c, "gone") /\ nonces' = nonces \ {c}
  /\ UNCHANGED << cred, ticket, clients, ident, seen, closed, authorized, locks, device, revokes, held >>

-----------------------------------------------------------------------------
(* The reconnect handler.                                                  *)

\* It gives up: attempt.cleanup closes a browser's connection.
Fails(c, cr) == Closes({c}, cr) /\ Goes(c, "idle") /\ Becomes(c, "failed")

\* AcquireBrowserReconnectAuthority, up to where it waits for the commands of
\* the connection that is the player now.
AskReconnect(c) ==
  /\ doing[c] = "idle" /\ Asks(c, "ask") /\ Free
  /\ LET p == PlayerOf(cred, seen[c])
         current == IF p = Nobody THEN Nobody ELSE clients[p] IN
       IF ~Web \/ current = Nobody
       THEN /\ authority' = c /\ Goes(c, "restoring") /\ Becomes(c, "asked")
            /\ UNCHANGED << cred, ticket, nonces, closed, authorized, moving >>
       ELSE IF Drained(current) \/ authorized[current] \notin {NoToken, seen[c]}
       THEN Fails(c, cred) /\ UNCHANGED << authority, moving >>
       ELSE /\ moving' = [moving EXCEPT ![c] = current] /\ Goes(c, "draining") /\ Becomes(c, "asked")
            /\ UNCHANGED << cred, ticket, nonces, closed, authorized, authority >>
  /\ UNCHANGED << clients, ident, seen, running, previous, retired, scene, jar, revokes, held >>

\* Fault: it does not wait for the command lock.
FaultCommandsOver(c) == TRUE

CommandsOver(c) == moving[c] \notin running

\* It has the command lock, then the authority again: is all as it was?
Reacquire(c) ==
  /\ doing[c] = "draining" /\ CommandsOver(c) /\ Free
  /\ LET p == PlayerOf(cred, seen[c]) IN
       IF p # Nobody /\ clients[p] = moving[c]
       THEN /\ authority' = c /\ Goes(c, "restoring")
            /\ UNCHANGED << cred, ticket, nonces, closed, authorized, request, moving >>
       ELSE Fails(c, cred) /\ moving' = [moving EXCEPT ![c] = Nobody] /\ UNCHANGED authority
  /\ UNCHANGED << clients, ident, seen, running, previous, retired, scene, jar, revokes, held >>

\* restoreReconnectSession: the token is exchanged, a browser gets a ticket
\* for the new one, and RebindClient; a banned player, or one the ticket
\* fails for, gets nothing.
Restore(c) ==
  /\ doing[c] = "restoring" /\ authority = c
  /\ LET p == PlayerOf(Resolved(cred, seen[c]), seen[c])
         cr == Restored(cred, seen[c], c, Web)
     IN
       \/ /\ ~Restorable(cred, seen[c], Web)
          /\ IF Web THEN Fails(c, cred)
             ELSE /\ Goes(c, "idle") /\ Answers(c, "rejected", Own(c))
                  /\ UNCHANGED << cred, ticket, nonces, closed, authorized >>
          /\ Releases(c) /\ UNCHANGED << clients, ident, previous, held >>
       \/ /\ Restorable(cred, seen[c], Web)
          /\ held' = [held EXCEPT ![p] = IF Resolved(cred, seen[c]) = cred THEN @ ELSE {seen[c]}]
          /\ \/ /\ Fails(c, RolledBack(cr, c, Web)) /\ Releases(c)
                /\ UNCHANGED << clients, ident, previous >>
             \/ /\ ~(Web /\ c \in closed)
                /\ cred' = cr /\ Goes(c, "delivering")
                /\ ticket' = IF Web THEN Issued(ticket, New(c)) ELSE ticket
                /\ previous' = [previous EXCEPT ![c] = clients[p]]
                /\ clients' = [clients EXCEPT ![c] = Nobody, ![p] = c]
                /\ ident' = [ident EXCEPT ![c] = p]
                /\ UNCHANGED << nonces, closed, authorized, request, authority, moving >>
  /\ UNCHANGED << seen, running, retired, scene, jar, revokes >>

\* RetireBrowserSessionClient, of the connection that c has replaced.
Retiring(c) == IF Web THEN {previous[c]} \ {Nobody} ELSE {}

\* validateCurrentBrowserRestore, deliverReconnectState, finishReconnectSuccess.
Deliver(c) ==
  LET p == cred.restored[c].player
      gone == {previous[c]} \ {Nobody}
  IN
  /\ doing[c] = "delivering"
  /\ \/ /\ Web => IsCurrent(cred, c)
        /\ c \notin closed
        /\ closed' = closed \cup gone
        /\ authorized' = WithoutAuthority(gone)
        /\ ticket' = [WithoutTicketsOf(gone) EXCEPT ![Own(c)] = "none"]
        /\ nonces' = nonces \ (gone \cup {c})
        /\ cred' = AllInvalidated(WentOnline(cred, p), gone)
        /\ retired' = retired \cup Retiring(c)
        /\ previous' = [previous EXCEPT ![c] = Nobody]
        /\ held' = IF Web THEN held ELSE [held EXCEPT ![p] = {New(c)}]
        /\ Goes(c, "idle") /\ Releases(c)
        /\ IF Web THEN Becomes(c, "ticket") ELSE Answers(c, "reconnected", New(c))
     \/ /\ cred' = IF Web => IsCurrent(cred, c) THEN WentOnline(cred, p) ELSE cred
        /\ Goes(c, "undoing")
        /\ UNCHANGED << closed, authorized, ticket, nonces, retired, previous, held, authority,
                        moving, request >>
  /\ UNCHANGED << clients, ident, seen, running, scene, jar, revokes >>

\* rollbackReconnect: first the registration (RollbackRebindClient)...
UndoRebind(c) ==
  /\ doing[c] = "undoing"
  /\ LET p == cred.restored[c].player IN
       clients' = [clients EXCEPT ![p] = previous[c], ![c] = c]
  /\ ident' = [ident EXCEPT ![c] = c]
  /\ previous' = [previous EXCEPT ![c] = Nobody]
  /\ Goes(c, "undone")
  /\ UNCHANGED << cred, ticket, nonces, seen, closed, authorized, running, authority, moving,
                  retired, device, revokes, held >>

\* ... then the credential, a browser's through its ticket.
UndoRestore(c) ==
  /\ doing[c] = "undone"
  /\ Fails(c, IF Web THEN cred ELSE RolledBack(cred, c, FALSE))
  /\ Releases(c)
  /\ UNCHANGED << clients, ident, seen, running, previous, retired, scene, jar, revokes, held >>

\* drainRetiredBrowserSessionClient
DrainRetired(x) ==
  /\ x \in retired /\ ~Locked(x) /\ Free
  /\ retired' = retired \ {x}
  /\ UNCHANGED << server, running, authority, moving, previous, device, revokes, held >>

-----------------------------------------------------------------------------
(* A connection ends, at any moment.                                       *)

\* The write side fails or the queue is full: Close, the handler goes on.
CloseEarly(c) ==
  /\ doing[c] \in {"idle", "delivering"} /\ c \notin closed
  /\ Closes({c}, cred)
  /\ UNCHANGED << clients, ident, doing, seen, locks, device, revokes, held >>

\* ReadPump returns: Close, then handleDisconnect up to unregisterClient...
Disconnect(c) ==
  /\ doing[c] = "idle" /\ c \notin running
  /\ Closes({c}, cred)
  /\ Unregister(c)
  /\ Goes(c, IF Registered(c) THEN "leaving" ELSE "gone")
  /\ IF request[c].what \in {"ask", "ticket", "up"} THEN Becomes(c, "failed") ELSE UNCHANGED request
  /\ UNCHANGED << ident, seen, locks, scene, jar, revokes, held >>

\* ... and from SetOffline on.
MarkOffline(c) ==
  /\ doing[c] = "leaving"
  /\ cred' = IF HasSession(cred, ident[c]) THEN WentOffline(cred, ident[c]) ELSE cred
  /\ Goes(c, "gone")
  /\ UNCHANGED << ticket, nonces, clients, ident, seen, closed, authorized, locks, device, revokes, held >>

-----------------------------------------------------------------------------
(* Commands of a browser: beginBrowserCommandAuthority.                    *)

MayCommand(c) ==
  /\ c \notin closed /\ Registered(c) /\ ~Unwelcome(c)
  /\ authorized[c] # NoToken /\ CanReconnectToken(cred, authorized[c])

Command(c) ==
  /\ Web /\ doing[c] = "idle" /\ c \notin running /\ Asks(c, "up") /\ Free
  /\ IF MayCommand(c)
     THEN running' = running \cup {c} /\ UNCHANGED << closed, authorized, ticket, nonces, cred >>
     ELSE c \notin closed /\ Closes({c}, cred) /\ UNCHANGED running
  /\ UNCHANGED << clients, ident, doing, seen, authority, moving, previous, retired, device, revokes, held >>

EndCommand(c) ==
  /\ c \in running /\ running' = running \ {c}
  /\ UNCHANGED << server, authority, moving, previous, retired, device, revokes, held >>

-----------------------------------------------------------------------------
(* The page and its HTTP requests.  A request carries the jar as it was    *)
(* when it was sent; its answer may come late or not at all.               *)

TicketOf(c) == IF cred.restored[c] # NotRestored THEN New(c) ELSE Own(c)

Post(c, what) ==
  request' = [request EXCEPT ![c] = [what |-> what, cookie |-> jar.cookie, owner |-> jar.owner]]

PostCommit(c) ==
  /\ Web /\ Asks(c, "ticket") /\ c \notin closed
  /\ Post(c, "commit")
  /\ UNCHANGED << server, locks, scene, jar, revokes, held >>

\* Commit: bound to the cookie the connection came with, or to its nonce.
Binds(c, t) ==
  IF seen[c] # NoToken THEN request[c].cookie = seen[c]
  ELSE request[c].owner = c /\ (ticket[t] = "committed" \/ c \in nonces)

Committable(c, t) == c \notin closed /\ Registered(c) /\ CanReconnectToken(cred, t)

Commit(c, t) ==
  IF ticket[t] = "none" \/ ~Binds(c, t)
  THEN UNCHANGED << closed, authorized, ticket, nonces, cred >>
  ELSE IF ~Committable(c, t)
  THEN Closes({c}, cred)
  ELSE /\ ticket' = [ticket EXCEPT ![t] = "committed"] /\ nonces' = nonces \ {c}
       /\ UNCHANGED << closed, authorized, cred >>

\* handleSessionCommit: the cookie is set once the ticket is committed.
ServeCommit(c) ==
  /\ Asks(c, "commit") /\ Free
  /\ LET t == TicketOf(c) IN
       /\ Commit(c, t)
       /\ IF ticket[t] # "none" /\ Binds(c, t) /\ Committable(c, t)
          THEN /\ held' = [held EXCEPT ![cred.index[t]] = @ \cup {t}]
               /\ Answers(c, "committed", t)
          ELSE Becomes(c, "failed") /\ UNCHANGED held
  /\ UNCHANGED << clients, ident, doing, seen, locks, scene, jar, revokes >>

\* The browser stores the cookie, and the page asks for a refresh with it.
TakeCommit(c) ==
  /\ Asks(c, "committed")
  /\ jar' = [cookie |-> request[c].cookie, owner |-> Nobody]
  /\ request' = [request EXCEPT ![c].what = "refresh"]
  /\ UNCHANGED << server, locks, scene, revokes, held >>

\* handleSessionRefresh; its answer names the cookie the browser has.
ServeRefresh(c) ==
  /\ Asks(c, "refresh") /\ Free
  /\ LET t == request[c].cookie  cr == Resolved(cred, t) IN
       /\ cred' = cr
       /\ IF t # NoToken /\ Observes(cred, t)
          THEN /\ Presents(t, cr) /\ Becomes(c, "up")
               /\ held' = [held EXCEPT ![HolderOf(cr, t)] = {t}]
          ELSE Becomes(c, "failed") /\ UNCHANGED << ticket, authorized, held >>
  /\ UNCHANGED << nonces, clients, ident, doing, seen, closed, locks, scene, jar, revokes >>

\* A terminal client is told its identity over the connection itself: the
\* player it came back as (MsgReconnected) ...
TakeReconnected(c) ==
  /\ Asks(c, "reconnected")
  /\ jar' = [jar EXCEPT !.cookie = request[c].cookie] /\ Becomes(c, "up")
  /\ UNCHANGED << server, locks, scene, revokes, held >>

\* ... or, when that was refused, the identity it was given at first and held
\* back until then (provisionalConnected, resolveReconnectError).
TakeProvisional(c) ==
  /\ Asks(c, "rejected")
  /\ jar' = [jar EXCEPT !.cookie = request[c].cookie] /\ Becomes(c, "up")
  /\ UNCHANGED << server, locks, scene, revokes, held >>

Lose(c) ==
  /\ request[c].what \in {"commit", "committed", "refresh", "reconnected", "rejected"}
  /\ Becomes(c, "failed")
  /\ UNCHANGED << server, locks, scene, jar, revokes, held >>

-----------------------------------------------------------------------------
(* Logging out: handleSessionRevoke.                                       *)

PostRevoke(c) ==
  /\ Web /\ c \in scene.leaves /\ request[c].what \in {"ticket", "up", "failed"}
  /\ Post(c, "revoke")
  /\ UNCHANGED << server, locks, scene, jar, revokes, held >>

Nonce(c) == << c, "nonce" >>
Draining(credential) == { d \in Connection : drains[d].open /\ credential \in drains[d].credentials }

\* The tickets that have t on either side, and the one bound to a nonce.
Pending(t) == { u \in Token : ticket[u] # "none" /\ t \in {u, seen[u[1]]} }
Owned(nonce) == { u \in Token : ticket[u] # "none" /\ u = Own(nonce) /\ seen[nonce] = NoToken }

\* closePlayer: whom the end of p, whose credentials were cr's, concerns.
Concerned(p) == ({clients[p]} \ {Nobody}) \cup { x \in retired : ident[x] = p }
CredentialsOf(p, cr) == RevokedLineage(cr, p) \cup { authorized[x] : x \in Concerned(p) }

\* collectPendingWebSessionCredentialLineage: both sides of these tickets.
PendingLineage(tickets) == tickets \cup { seen[u[1]] : u \in tickets }

\* Whose drains already have to do with one of the credentials.
WorkOn(credentials) == UNION { Draining(t) : t \in credentials }

\* Fault: a logout with nothing left to close does not wait for another's.
FaultWaitsFor(c, work, needed) == IF needed THEN work \cup {c} ELSE {}

WaitsFor(c, work, needed) == IF needed THEN work \cup {c} ELSE work

\* registerBrowserRevokeDrains, by c, which then waits.
RegisterDrain(c, ended, whom, credentials) ==
  LET work == WorkOn(credentials)
      uncovered == whom \ UNION { drains[d].clients : d \in work }
      unmapped == { t \in credentials : Draining(t) = {} }
      needed == uncovered # {} \/ (work # {} /\ unmapped # {})
  IN /\ drains' = IF needed
                  THEN [drains EXCEPT ![c] =
                         [ clients |-> uncovered, left |-> uncovered, credentials |-> unmapped,
                           dependencies |-> work, open |-> TRUE ]]
                  ELSE drains
     /\ ending' = [ending EXCEPT ![c] = ended \cup UNION { ending[d] : d \in work }]
     /\ awaited' = [awaited EXCEPT ![c] = WaitsFor(c, work, needed)]

\* buildBrowserRevokePlan: the session cookie first, then the owner cookie.
ServeRevoke(c) ==
  /\ Asks(c, "revoke") /\ Free
  /\ LET t == request[c].cookie
         owner == request[c].owner
         fresh == t # NoToken /\ Draining(t) = {}
         p == IF fresh THEN RevokedBy(cred, t) ELSE Nobody
         first == IF p = Nobody THEN cred ELSE Deleted(cred, p)
         pending == IF fresh THEN Pending(t) ELSE {}
         owned == IF owner # Nobody /\ Draining(Nonce(owner)) = {} THEN Owned(owner) \ pending ELSE {}
         q == IF owned # {} /\ Draining(Own(owner)) = {} THEN RevokedBy(first, Own(owner)) ELSE Nobody
         second == IF q = Nobody THEN first ELSE Deleted(first, q)
         ended == {p, q} \ {Nobody}
         whom == UNION { Concerned(x) : x \in ended }
         gone == { u[1] : u \in pending \cup owned }
     IN /\ RegisterDrain(c, ended, whom,
             ({t, IF owner = Nobody THEN NoToken ELSE Nonce(owner)}
                \cup PendingLineage(pending \cup owned)
                \cup UNION { CredentialsOf(x, cred) : x \in ended }) \ {NoToken})
        /\ closed' = closed \cup gone
        /\ authorized' = WithoutAuthority(gone \cup whom)
        /\ ticket' = WithoutTicketsOf(gone)
        /\ nonces' = nonces \ (gone \cup {owner})
        /\ cred' = AllInvalidated(second, gone)
  /\ request' = [request EXCEPT ![c].what = "revoking"]
  /\ UNCHANGED << clients, ident, doing, seen, locks, scene, jar, held, over >>

\* runBrowserRevokeDrain: each connection once its command is over...
DrainClient(d, x) ==
  /\ x \in drains[d].left /\ ~Locked(x)
  /\ drains' = [drains EXCEPT ![d].left = @ \ {x}]
  /\ Closes({x}, cred)
  /\ UNCHANGED << clients, ident, doing, seen, locks, device, awaited, ending, held, over >>

\* ... and completeBrowserRevokeDrain.
DrainDone(d) ==
  /\ drains[d].open /\ drains[d].left = {} /\ Free
  /\ \A e \in drains[d].dependencies : ~drains[e].open
  /\ drains' = [drains EXCEPT ![d] = NoDrain]
  /\ UNCHANGED << server, locks, device, awaited, ending, held, over >>

RevokeReturns(c) ==
  /\ Asks(c, "revoking") /\ \A d \in awaited[c] : ~drains[d].open
  /\ over' = over \cup ending[c] /\ ending' = [ending EXCEPT ![c] = {}]
  /\ awaited' = [awaited EXCEPT ![c] = {}]
  /\ Becomes(c, "revoked")
  /\ UNCHANGED << server, locks, scene, jar, drains, held >>

TakeRevoked(c) ==
  /\ Asks(c, "revoked") /\ Becomes(c, "out")
  /\ jar' = [cookie |-> NoToken, owner |-> Nobody]
  /\ UNCHANGED << server, locks, scene, revokes, held >>

-----------------------------------------------------------------------------
(* Time passes.                                                            *)

\* expire, under the authority: abortPendingWebSession closes whose it is.
TicketExpires(c) ==
  /\ Free /\ \E t \in {Own(c), New(c)} : ticket[t] # "none"
  /\ Closes({c}, cred)
  /\ UNCHANGED << clients, ident, doing, seen, locks, device, revokes, held >>

NonceExpires(c) ==
  /\ c \in nonces /\ nonces' = nonces \ {c}
  /\ UNCHANGED << cred, ticket, clients, ident, doing, seen, closed, authorized, locks, device, revokes, held >>

\* Two minutes after the player went offline; its handlers are done by then.
Lapse(p) ==
  /\ HasSession(cred, p) /\ ~cred.session[p].online /\ ~cred.session[p].lapsed
  /\ \A c \in Connection :
       doing[c] \in {"delivering", "undoing", "undone"} => cred.restored[c].player # p
  /\ cred' = Lapsed(cred, p)

\* cleanup
Cleanup(p) ==
  /\ HasSession(cred, p) /\ ~Valid(cred, p)
  /\ cred' \in {Forgotten(cred, p), Deleted(cred, p)} /\ cred' # cred

AliasExpires(t) == cred.alias[t] # Nobody /\ cred' = AliasExpired(cred, t)

TimePasses ==
  /\ \/ \E p \in Connection : Lapse(p) \/ Cleanup(p)
     \/ \E t \in Token : AliasExpires(t)
  /\ UNCHANGED << ticket, nonces, clients, ident, doing, seen, closed, authorized, locks, device,
                  revokes, held >>

-----------------------------------------------------------------------------
Opening(c) == Upgrade(c) \/ Dial(c) \/ ActivateBrowser(c) \/ ActivateTerminal(c) \/ Abandon(c)
Reconnecting(c) ==
  \/ AskReconnect(c) \/ Reacquire(c) \/ Restore(c) \/ Deliver(c)
  \/ UndoRebind(c) \/ UndoRestore(c) \/ DrainRetired(c)
Ending(c) == CloseEarly(c) \/ Disconnect(c) \/ MarkOffline(c)
Commanding(c) == Command(c) \/ EndCommand(c)
Paging(c) ==
  \/ PostCommit(c) \/ ServeCommit(c) \/ TakeCommit(c) \/ ServeRefresh(c)
  \/ TakeReconnected(c) \/ TakeProvisional(c) \/ Lose(c)
Revoking(c) ==
  \/ PostRevoke(c) \/ ServeRevoke(c) \/ RevokeReturns(c) \/ TakeRevoked(c) \/ DrainDone(c)
  \/ \E x \in Connection : DrainClient(c, x)
Expiring(c) == TicketExpires(c) \/ NonceExpires(c)

ReconnectNext ==
  \/ \E c \in Connection : Opening(c) \/ Reconnecting(c) \/ Ending(c) \/ Commanding(c)
                             \/ Paging(c) \/ Revoking(c) \/ Expiring(c)
  \/ TimePasses

ReconnectSpec == ReconnectInit /\ [][ReconnectNext]_reconnectVars

-----------------------------------------------------------------------------
(* Properties.                                                             *)

\* Every variable has its type: in particular no connection stands for "none"
\* in a set of connections.
ReconnectTypeOK ==
  /\ scene \in Devices /\ cred \in Credentials
  /\ ticket \in [Token -> {"none", "issued", "committed"}] /\ nonces \subseteq Connection
  /\ clients \in [Connection -> Connection \cup {Nobody}]
  /\ authorized \in [Connection -> Token \cup {NoToken}]
  /\ running \cup closed \cup retired \cup over \subseteq Connection
  /\ authority \in Connection \cup {Nobody}
  /\ jar.cookie \in Token \cup {NoToken} /\ held \in [Connection -> SUBSET Token]

\* A handler that has exchanged t delivers the new token, or puts t back.
GoesBack(p, t) ==
  \E c \in Connection :
    /\ doing[c] \in {"delivering", "undoing", "undone"}
    /\ cred.restored[c].player = p /\ cred.restored[c].previous = t

\* While the credential of a player is good, every token his device may hold
\* still leads to him: the one it last showed, and each one answered to it
\* since, whichever of the answers was lost (OrphanBrowserRestore keeps both
\* sides of a rotation, RollbackRestore brings the old one back).
HeldTokensComeBack ==
  \A p \in Connection : HasSession(cred, p) /\ Valid(cred, p) =>
    \A t \in held[p] :
      \/ cred.index[t] = p /\ t \in Lineage(cred, p)
      \/ GoesBack(p, t)

\* No two connections carry out commands of one player: a reconnect waits for
\* the command of the connection it replaces
\* (AcquireBrowserReconnectAuthority, beginBrowserCommandAuthority).
OneCommander ==
  \A c \in running, d \in running : ident[c] = ident[d] => c = d

\* After a logout has returned, the player it ended has no session and none
\* of its connections is still carrying out a command, the ones that
\* reconnects had replaced included (browserRevokeDrain).
RevokeIsFinal ==
  \A p \in over : ~HasSession(cred, p) /\ \A c \in running : ident[c] # p

\* A rotation that can still go either way ends: a ticket will commit it, or
\* take it back when its connection closes or its time is up (invalidateEntry).
RotationEnds ==
  \A p \in Connection : LET rotation == cred.rotation[p] IN
    rotation.by # Nobody /\ ~rotation.orphaned /\ Valid(cred, p) => ticket[New(rotation.by)] # "none"

\* A connection with a command lock has no ticket left, so no ticket that
\* expires, under sessionAuthorityMu, waits for a lock whose holder may be a
\* reconnect handler that waits for sessionAuthorityMu.
CommandersHaveNoTicket ==
  \A c \in Connection : (c \in running \/ Drained(c)) /\ c \notin closed =>
    ticket[Own(c)] = "none" /\ ticket[New(c)] = "none"

\* No two tickets are for rotations of one player, so that whatever closes
\* several connections at once takes back or commits one rotation at most.
OneRotationTicket ==
  \A c \in Connection, d \in Connection :
    /\ ticket[New(c)] # "none" /\ ticket[New(d)] # "none"
    /\ cred.restored[c].player = cred.restored[d].player
    => c = d

\* Whatever is lost, a rotation of a token ends, and until then and afterwards
\* no token that the device may show is forgotten.
TokensAreKept ==
  ReconnectTypeOK /\ HeldTokensComeBack /\ RotationEnds /\ OneRotationTicket

\* Who carries out a command does it alone for its player, and nothing that
\* holds sessionAuthorityMu waits for it to end.
CommandersAreAlone == OneCommander /\ CommandersHaveNoTicket

\* A token that lost its rotation can end its player's session and no more:
\* no rollback, commit or late presentation makes it a credential again
\* (resolveBrowserRotationLocked, RollbackRestore).
SpentForGood ==
  [][\A t \in Token : cred.alias[t] # Nobody => PlayerOf(cred', t) = Nobody]_reconnectVars
=============================================================================
