------------------------------ MODULE Matcher ------------------------------
(***************************************************************************)
(* Matchmaking (internal/game/match/matcher.go) with what a match goes     *)
(* through: the room transaction (game/room/match_transaction.go), the     *)
(* connections its players use and replace, the removal of its room and    *)
(* the start lease that an operator's drain waits for.                     *)
(*                                                                         *)
(* A handle is one physical connection of a player. An attempt, its room   *)
(* and its lease share one number, free again once all three have ended;   *)
(* its bots are counted together. A step is what happens under one lock, a *)
(* message is sent in the step that enqueues it. m.entries is known by     *)
(* player, since an entry is told from an older one by its handle.         *)
(***************************************************************************)
EXTENDS Integers, Sequences, FiniteSets

CONSTANTS
  Players,
  Links,        \* bound: connections of each player, one after the other
  MaxAttempts,  \* bound: attempts and match rooms at one time
  BotsEnabled,  \* botCfg.Enabled
  Operations,   \* what the operator does: drain, close
  OtherRooms    \* whether players also enter rooms that no match made

ASSUME MatcherAssumption ==
  /\ Links \in [Players -> Nat \ {0}] /\ MaxAttempts \in Nat \ {0}
  /\ BotsEnabled \in BOOLEAN /\ OtherRooms \in BOOLEAN
  /\ Operations \subseteq {"drain", "close"}

VARIABLES
  mode, closed, \* the operator's state, and whether Close has begun
  notices,      \* handles that CancelPending or Close has yet to notify
  conn,         \* the handle registered for a player, 0 for none
  link, doing,  \* a handle's connection, and what its command has come to
  room,         \* the room a handle is bound to
  told,         \* what a handle last heard of its request
  session,      \* the room that a player's session names
  restored,     \* that room, as RestoreSession has read it for a reconnect
  rejoin,       \* the reconnect of a player under way
  late,         \* players with a seat their reconnect looked for too early
  entry, queue, \* m.entries of players, and m.queue
  fill,         \* the bot-fill timer: off, armed, or fired and not done
  att           \* attempts with their room and lease

operator == << mode, closed, notices >>
sessions == << session, restored, late >>
connections == << conn, link, doing, room, told, rejoin, sessions >>
requests == << entry, queue, fill >>
vars == << operator, connections, requests, att >>

Attempts == 1..MaxAttempts
Elsewhere == MaxAttempts + 1  \* a room that no match made
Former == MaxAttempts + 2     \* still bound to a room where it was replaced
Handles == UNION { {p} \X (1..Links[p]) : p \in Players }
Nobody == "nobody"
\* What stands for nobody is no player.
ASSUME NobodyAssumption == Nobody \notin Players
NoEntry == [client |-> 0, state |-> "none", attempt |-> 0]
Unread == -1                  \* no reconnect has read the player's session
NoRejoin == [step |-> "none", gen |-> 0, room |-> 0, previous |-> 0]
Unused == [stage |-> "unused", humans |-> << >>, bots |-> "none",
           launched |-> FALSE, stopped |-> FALSE, excused |-> Nobody, step |-> 1,
           room |-> "none", left |-> {}, mine |-> FALSE,
           published |-> FALSE, lease |-> "none"]

Init ==
  /\ mode = "normal" /\ closed = FALSE /\ notices = {}
  /\ conn = [p \in Players |-> 1]
  /\ link = [h \in Handles |-> IF h[2] = 1 THEN "open" ELSE "unborn"]
  /\ doing = [h \in Handles |-> "idle"] /\ room = [h \in Handles |-> 0]
  /\ told = [h \in Handles |-> "nothing"] /\ session = [p \in Players |-> 0]
  /\ restored = [p \in Players |-> Unread] /\ rejoin = [p \in Players |-> NoRejoin]
  /\ late = {}
  /\ entry = [p \in Players |-> NoEntry] /\ queue = << >> /\ fill = "off"
  /\ att = [a \in Attempts |-> Unused]

-----------------------------------------------------------------------------
(* What the steps share.                                                   *)

Humans(a) == { att[a].humans[i] : i \in DOMAIN att[a].humans }
Listed(a) ==  \* m.attempts
  att[a].stage \in {"frozen", "assemble", "commit", "ready", "settle",
                    "rollback", "notify", "release"}
Live(a) == att[a].room \in {"waiting", "ready", "playing"}
Current(a) == att[a].published /\ ~closed /\ Live(a)
Members(a) == { h \in Handles : room[h] = a }
Reaches(h) == room[h] = 0 /\ link[h] = "open"
InHandler(h) == rejoin[h[1]].step # "none" /\ rejoin[h[1]].gen = h[2]
CanAct(h) == link[h] \in {"open", "closed"} /\ doing[h] = "idle" /\ ~InHandler(h)
Owns(h) == entry[h[1]].client = h[2]
Wanted(h) == Owns(h) /\ entry[h[1]].state \in {"queued", "inflight"}

\* The entry's deliveryMu: held while MatchQueued is on its way.
Held(p) == \/ \E h \in Handles : h[1] = p /\ doing[h] = "sending"
           \/ rejoin[p].step = "migrated"

Hears(h, what) == told' = IF Reaches(h) THEN [told EXCEPT ![h] = what] ELSE told

Scheduled(q, f) ==
  IF BotsEnabled /\ ~closed /\ Len(q) \in 1..2 THEN "armed" ELSE f
WithoutPlayer(p) ==
  LET at == CHOOSE i \in DOMAIN queue : queue[i] = p
  IN [i \in 1 .. Len(queue) - 1 |-> queue[IF i < at THEN i ELSE i + 1]]
AfterRemoval(q) == Scheduled(q, IF q = << >> THEN "off" ELSE fill)

Free == { a \in Attempts : att[a].stage = "unused" }
NextAttempt == CHOOSE a \in Free : \A b \in Free : a <= b

\* newAttemptLocked, for players whose entries are given by e.
Freeze(players, e, bots, launched) ==
  /\ att' = [att EXCEPT ![NextAttempt] =
       [Unused EXCEPT !.stage = "frozen", !.launched = launched,
          !.bots = IF bots = 0 THEN "none" ELSE "open",
          !.humans = [i \in DOMAIN players |-> << players[i], e[players[i]].client >>]]]
  /\ entry' = [p \in Players |->
       IF \E i \in DOMAIN players : players[i] = p
       THEN [client |-> e[p].client, state |-> "inflight", attempt |-> NextAttempt]
       ELSE e[p]]
  /\ fill' = "off"

\* cancelAttemptLocked: the first reason stays.
Stopped(attempt, by) ==
  IF attempt.stopped THEN attempt
  ELSE [attempt EXCEPT !.stopped = TRUE, !.excused = by]
RolledBack(attempts) ==
  [p \in Players |-> IF entry[p].state = "inflight" /\ entry[p].attempt \in attempts
                     THEN [entry[p] EXCEPT !.state = "rolledback"] ELSE entry[p]]

\* cancelEntryLocked: the matcher without p's request.
Cancelled(p, by) ==
  LET a == entry[p].attempt
  IN IF entry[p].state = "queued"
     THEN [entry |-> [entry EXCEPT ![p] = NoEntry], queue |-> WithoutPlayer(p),
           fill |-> AfterRemoval(WithoutPlayer(p)), att |-> att]
     ELSE IF entry[p].state = "inflight"
     THEN [entry |-> RolledBack({a}), queue |-> queue, fill |-> fill,
           att |-> [att EXCEPT ![a] = Stopped(@, by)]]
     ELSE [entry |-> entry, queue |-> queue, fill |-> fill, att |-> att]

CancelEntry(h, by) ==
  IF Owns(h)
  THEN \E c \in {Cancelled(h[1], by)} :
         entry' = c.entry /\ queue' = c.queue /\ fill' = c.fill /\ att' = c.att
  ELSE UNCHANGED << requests, att >>

\* launchAttempt by the handler that froze the attempt, whose player is its last.
Launched(attempts, h) ==
  [a \in Attempts |->
     IF attempts[a].stage = "frozen" /\ attempts[a].humans[Len(attempts[a].humans)] = h
     THEN [attempts[a] EXCEPT !.launched = TRUE] ELSE attempts[a]]

\* An attempt that is over keeps its room and lease, its number until they end.
Over(attempt) ==
  IF attempt.stage # "done" THEN attempt
  ELSE IF attempt.room \in {"none", "gone"} /\ attempt.bots # "open" /\ attempt.lease = "none"
  THEN Unused
  ELSE [attempt EXCEPT !.humans = << >>, !.launched = FALSE, !.stopped = FALSE,
                       !.excused = Nobody, !.step = 1]

\* removePublishedRoomLocked: whoever drops a room also dispatches its removal.
\* Members that are there are unbound, and with them what their session says.
Drop(a, attempt, byWorker) ==
  /\ room' = [h \in Handles |-> IF room[h] = a THEN 0 ELSE room[h]]
  /\ session' = [p \in Players |->
       IF \E h \in Members(a) : h[1] = p /\ link[h] # "offline" THEN 0 ELSE session[p]]
  /\ att' = [att EXCEPT ![a] = [attempt EXCEPT !.room = "dropped", !.mine = byWorker,
                                               !.left = Members(a)]]

-----------------------------------------------------------------------------
(* Commands of a connection, handled one after the other by its read pump. *)

MayRequest(h) ==
  /\ CanAct(h) /\ mode = "normal" /\ ~closed /\ room[h] = 0 /\ entry[h[1]] = NoEntry

\* AddToQueue up to the release of m.mu.
Enqueue(h) ==
  LET p == h[1]
      e == [entry EXCEPT ![p] = [client |-> h[2], state |-> "queued", attempt |-> 0]]
  IN /\ MayRequest(h)
     /\ \/ /\ Len(queue) < 2
           /\ entry' = e /\ queue' = Append(queue, p)
           /\ fill' = Scheduled(queue', fill) /\ UNCHANGED att
        \/ /\ Len(queue) = 2 /\ Free # {}
           /\ Freeze(Append(queue, p), e, 0, FALSE) /\ queue' = << >>
     /\ doing' = [doing EXCEPT ![h] = "publish"]
     /\ UNCHANGED << operator, conn, link, room, told, rejoin, sessions >>

PracticeMatch(h) ==
  /\ MayRequest(h) /\ Free # {}
  /\ Freeze(<< h[1] >>, [entry EXCEPT ![h[1]].client = h[2]], 2, FALSE)
  /\ doing' = [doing EXCEPT ![h] = "publish"]
  /\ UNCHANGED << operator, conn, link, room, told, rejoin, sessions, queue >>

\* publishQueuedEntry: the check, then the message, under deliveryMu; an
\* answer that cannot be delivered takes the request back.
PublishQueued(h) ==
  /\ doing[h] = "publish" /\ ~Held(h[1])
  /\ IF ~closed /\ Wanted(h)
     THEN doing' = [doing EXCEPT ![h] = "sending"] /\ UNCHANGED att
     ELSE doing' = [doing EXCEPT ![h] = "idle"] /\ att' = Launched(att, h)
  /\ UNCHANGED << operator, conn, link, room, told, rejoin, sessions, requests >>

SendQueued(h) ==
  /\ doing[h] = "sending" /\ doing' = [doing EXCEPT ![h] = "idle"]
  /\ Hears(h, IF Owns(h) THEN "queued" ELSE "stale")
  /\ \E c \in {IF Owns(h) /\ ~Reaches(h) THEN Cancelled(h[1], Nobody)
               ELSE [entry |-> entry, queue |-> queue, fill |-> fill, att |-> att]} :
       entry' = c.entry /\ queue' = c.queue /\ fill' = c.fill /\ att' = Launched(c.att, h)
  /\ UNCHANGED << operator, conn, link, room, rejoin, sessions >>

\* handleCancelMatch; a cancel that comes too late is refused.
CancelMatch(h) ==
  /\ CanAct(h) /\ Wanted(h)
  /\ CancelEntry(h, h[1])
  /\ told' = [told EXCEPT ![h] = "nothing"]
  /\ UNCHANGED << operator, conn, link, doing, room, rejoin, sessions >>

\* LeaveRoom: a room that is left to nobody but bots goes.
LeaveRoom(h) ==
  \E a \in Attempts :
    /\ CanAct(h) /\ room[h] = a /\ att[a].room = "waiting"
    /\ IF Members(a) = {h} THEN Drop(a, att[a], FALSE)
       ELSE /\ room' = [room EXCEPT ![h] = 0] /\ session' = [session EXCEPT ![h[1]] = 0]
            /\ UNCHANGED att
    /\ told' = [told EXCEPT ![h] = "nothing"]
    /\ UNCHANGED << operator, conn, link, doing, restored, rejoin, late, requests >>

\* Creating, joining and leaving a room do not look at the queue.
EnterOtherRoom(h) ==
  /\ OtherRooms /\ CanAct(h) /\ room[h] = 0
  /\ room' = [room EXCEPT ![h] = Elsewhere] /\ told' = [told EXCEPT ![h] = "nothing"]
  /\ session' = [session EXCEPT ![h[1]] = Elsewhere]
  /\ UNCHANGED << operator, conn, link, doing, restored, rejoin, late, requests, att >>
LeaveOtherRoom(h) ==
  /\ CanAct(h) /\ room[h] = Elsewhere
  /\ room' = [room EXCEPT ![h] = 0] /\ session' = [session EXCEPT ![h[1]] = 0]
  /\ UNCHANGED << operator, conn, link, doing, told, restored, rejoin, late, requests, att >>

-----------------------------------------------------------------------------
(* Connections come and go.                                                *)

LoseLink(h) ==
  /\ link[h] = "open"
  /\ link' = [link EXCEPT ![h] = "closed"] /\ told' = [told EXCEPT ![h] = "nothing"]
  /\ UNCHANGED << operator, conn, doing, room, rejoin, sessions, requests, att >>

\* handleDisconnect: a handle that is no longer registered goes silently, the
\* registered one leaves the matcher, then its room (NotifyPlayerOffline).
Vanish(h) ==
  /\ link[h] = "closed" /\ doing[h] = "idle" /\ ~InHandler(h) /\ conn[h[1]] # h[2]
  /\ link' = [link EXCEPT ![h] = "gone"]
  /\ UNCHANGED << operator, conn, doing, room, told, rejoin, sessions, requests, att >>

Disconnect(h) ==
  /\ link[h] = "closed" /\ doing[h] = "idle" /\ ~InHandler(h) /\ conn[h[1]] = h[2]
  /\ conn' = [conn EXCEPT ![h[1]] = 0] /\ link' = [link EXCEPT ![h] = "leaving"]
  /\ CancelEntry(h, h[1])
  /\ UNCHANGED << operator, doing, room, told, rejoin, sessions >>

GoOffline(h) ==
  /\ link[h] = "leaving"
  /\ LET a == room[h]
     IN IF a \notin Attempts
        THEN link' = [link EXCEPT ![h] = "gone"] /\ UNCHANGED << room, session, att >>
        ELSE IF att[a].bots = "none" /\ \A g \in Members(a) \ {h} : link[g] = "offline"
        THEN link' = [link EXCEPT ![h] = "gone"] /\ Drop(a, att[a], FALSE)
        ELSE link' = [link EXCEPT ![h] = "offline"] /\ UNCHANGED << room, session, att >>
  /\ UNCHANGED << operator, conn, doing, told, restored, rejoin, late, requests >>

\* The connection that a player may come back on.
NextLink(p) == 1 + Cardinality({ n \in 1..Links[p] : link[<< p, n >>] # "unborn" })
MayRestore(p) == rejoin[p] = NoRejoin /\ restored[p] = Unread /\ NextLink(p) \in 1..Links[p]

\* Fault: the room of the session is not read.
RestoreSessionUnseated(p) ==
  /\ MayRestore(p) /\ restored' = [restored EXCEPT ![p] = 0]
  /\ UNCHANGED << operator, conn, link, doing, room, told, session, rejoin, late, requests, att >>

\* handleReconnect begins: it takes along the room that the session names now.
RestoreSession(p) ==
  /\ MayRestore(p) /\ restored' = [restored EXCEPT ![p] = session[p]]
  /\ UNCHANGED << operator, conn, link, doing, room, told, session, rejoin, late, requests, att >>

\* The new connection takes the player over.
RebindClient(p) ==
  LET g == NextLink(p)
  IN /\ rejoin[p] = NoRejoin /\ restored[p] # Unread /\ g \in 1..Links[p]
     /\ restored' = [restored EXCEPT ![p] = Unread]
     /\ rejoin' = [rejoin EXCEPT ![p] =
          [step |-> "rebound", gen |-> g, previous |-> conn[p], room |-> restored[p]]]
     /\ conn' = [conn EXCEPT ![p] = g] /\ link' = [link EXCEPT ![<< p, g >>] = "open"]
     /\ UNCHANGED << operator, doing, room, told, session, late, requests, att >>

\* ReconnectPlayerWithResponse hands the seat in that room over, as far as there
\* is one, or the session forgets its room, whichever it names by now; a snapshot
\* that cannot be sent undoes the rebinding, and with it what the session says.
Reseat(p) ==
  LET h == << p, rejoin[p].gen >>
      a == rejoin[p].room
      old == { g \in Handles : g[1] = p /\ a # 0 /\ room[g] = a }
  IN /\ rejoin[p].step = "rebound"
     /\ IF link[h] = "open"
        THEN /\ rejoin' = [rejoin EXCEPT ![p].step = "seated"]
             /\ room' = [g \in Handles |-> IF g = h /\ old # {} THEN a
                                           ELSE IF g \in old THEN Former ELSE room[g]]
             /\ session' = [session EXCEPT ![p] = IF old # {} THEN a ELSE 0]
             /\ UNCHANGED << conn, link >>
        ELSE /\ rejoin' = [rejoin EXCEPT ![p] = NoRejoin]
             /\ conn' = [conn EXCEPT ![p] = rejoin[p].previous]
             /\ link' = [link EXCEPT ![h] = "gone"] /\ session' = [session EXCEPT ![p] = a]
             /\ UNCHANGED room
     /\ UNCHANGED << operator, doing, told, restored, late, requests, att >>

ClosePrevious(p) ==
  LET previous == << p, rejoin[p].previous >>
      closes == rejoin[p].previous # 0 /\ link[previous] = "open"
  IN /\ rejoin' = [rejoin EXCEPT ![p] = NoRejoin]
     /\ link' = IF closes THEN [link EXCEPT ![previous] = "closed"] ELSE link

\* ReplaceClient: a queued entry goes to the new connection, a match under
\* assembly is cancelled.
ReplaceClient(p) ==
  LET mine == rejoin[p].previous # 0 /\ entry[p].client = rejoin[p].previous
  IN /\ rejoin[p].step = "seated"
     /\ \/ /\ mine /\ ~closed /\ entry[p].state = "queued" /\ ~Held(p)
           /\ entry' = [entry EXCEPT ![p].client = rejoin[p].gen]
           /\ rejoin' = [rejoin EXCEPT ![p].step = "migrated"]
           /\ UNCHANGED << link, att >>
        \/ /\ mine /\ entry[p].state = "inflight"
           /\ att' = [att EXCEPT ![entry[p].attempt] = Stopped(@, p)]
           /\ entry' = RolledBack({entry[p].attempt})
           /\ ClosePrevious(p)
        \/ /\ ~mine \/ entry[p].state \notin {"queued", "inflight"}
           /\ ClosePrevious(p) /\ UNCHANGED << entry, att >>
     /\ UNCHANGED << operator, conn, doing, room, told, sessions, queue, fill >>

SendMigrated(p) ==
  LET h == << p, rejoin[p].gen >>
  IN /\ rejoin[p].step = "migrated"
     /\ Hears(h, IF Owns(h) THEN "queued" ELSE "stale")
     /\ IF Reaches(h) THEN UNCHANGED << requests, att >> ELSE CancelEntry(h, Nobody)
     /\ ClosePrevious(p)
     /\ UNCHANGED << operator, conn, doing, room, sessions >>

-----------------------------------------------------------------------------
(* The worker of an attempt.                                               *)

Valid(a) ==
  /\ ~closed /\ ~att[a].stopped
  /\ \A h \in Humans(a) : conn[h[1]] = h[2] /\ entry[h[1]].state = "inflight"

\* Fault: the entries are released without a notice.
FailSilently(a) ==
  /\ att' = [att EXCEPT ![a] = [Stopped(@, Nobody) EXCEPT !.stage = "release",
                                                          !.launched = TRUE]]
  /\ entry' = RolledBack({a})

\* markAttemptRolledBack, and the rollback of a room that was published.
Fail(a) ==
  /\ att' = [att EXCEPT ![a] = [Stopped(@, Nobody) EXCEPT !.stage = "rollback",
                                                          !.launched = TRUE]]
  /\ entry' = RolledBack({a})

\* Fault: the lease is not refused while the server drains.
TakeLeaseAlways(a) ==
  /\ att[a].stage = "frozen" /\ (att[a].launched \/ att[a].stopped)
  /\ att' = [att EXCEPT ![a].stage = "assemble", ![a].launched = TRUE, ![a].lease = "held"]
  /\ UNCHANGED << operator, connections, requests >>

TakeLease(a) ==
  /\ att[a].stage = "frozen" /\ (att[a].launched \/ att[a].stopped)
  /\ IF mode = "normal"
     THEN /\ att' = [att EXCEPT ![a].stage = "assemble", ![a].launched = TRUE,
                                ![a].lease = "held"]
          /\ UNCHANGED entry
     ELSE Fail(a)
  /\ UNCHANGED << operator, connections, queue, fill >>

\* BeginMatchRoom, Join and Commit take nobody who is in a room.
Unbound(a) == \A h \in Humans(a) : room[h] = 0

\* prepareAttempt and joinAttemptParticipants: the room is not published yet.
Assemble(a) ==
  /\ att[a].stage = "assemble"
  /\ \/ /\ Valid(a) /\ att' = [att EXCEPT ![a].stage = "commit"]
        /\ UNCHANGED entry
     \/ /\ ~Valid(a) \/ ~Unbound(a)
        /\ Fail(a)
  /\ UNCHANGED << operator, connections, queue, fill >>

\* Players who come back and whose session has been read for it already.
Returning == { p \in Players : restored[p] # Unread \/ rejoin[p].step = "rebound" }
HasSeat(p) == \E h \in Handles : h[1] = p /\ room[h] \in Attempts

\* MatchRoomTransaction.Commit binds everybody or nobody, and does not wait for
\* reconnects: one that is under way does not learn of the seat.
Commit(a) ==
  /\ att[a].stage = "commit"
  /\ IF ~att[a].stopped /\ Unbound(a)
     THEN /\ room' = [h \in Handles |-> IF h \in Humans(a) THEN a ELSE room[h]]
          /\ session' = [p \in Players |-> IF \E h \in Humans(a) : h[1] = p THEN a
                                           ELSE session[p]]
          /\ late' = { p \in late : HasSeat(p) } \cup
                     { p \in Returning : \E h \in Humans(a) : h[1] = p }
          /\ att' = [att EXCEPT ![a].stage = "ready", ![a].room = "waiting"]
          /\ UNCHANGED entry
     ELSE Fail(a) /\ UNCHANGED << room, session, late >>
  /\ UNCHANGED << operator, conn, link, doing, told, restored, rejoin, queue, fill >>

\* validateAttempt and ReadyAllAndStart; an offline member has no client.
ReadyAllAndStart(a) ==
  /\ att[a].stage = "ready"
  /\ IF /\ Valid(a) /\ att[a].room = "waiting" /\ Members(a) = Humans(a)
        /\ \A h \in Humans(a) : link[h] # "offline"
     THEN /\ att' = [att EXCEPT ![a].stage = "settle", ![a].room = "ready"]
          /\ UNCHANGED entry
     ELSE Fail(a)
  /\ UNCHANGED << operator, connections, queue, fill >>

\* Fault: a cancellation between the start of the room and here is not seen.
CommitAttemptUnchecked(a) ==
  /\ att[a].stage = "settle"
  /\ IF ~closed /\ Live(a)
     THEN /\ att' = [att EXCEPT ![a].stage = "publish", ![a].published = TRUE]
          /\ entry' = [p \in Players |->
               IF entry[p].attempt = a THEN NoEntry ELSE entry[p]]
     ELSE Fail(a)
  /\ UNCHANGED << operator, connections, queue, fill >>

\* commitAttempt: the entries end here, the room is known to be a match.
CommitAttempt(a) ==
  /\ att[a].stage = "settle"
  /\ IF /\ ~closed /\ ~att[a].stopped /\ Live(a)
        /\ \A h \in Humans(a) : entry[h[1]].state = "inflight"
     THEN /\ att' = [att EXCEPT ![a].stage = "publish", ![a].published = TRUE]
          /\ entry' = [p \in Players |->
               IF entry[p].attempt = a THEN NoEntry ELSE entry[p]]
     ELSE Fail(a)
  /\ UNCHANGED << operator, connections, queue, fill >>

\* A match that cannot be published any more.
Withdraw(a) ==
  IF Live(a) THEN Drop(a, [att[a] EXCEPT !.stage = "withdraw"], TRUE)
  ELSE att' = [att EXCEPT ![a].stage = "withdraw"] /\ UNCHANGED << room, session >>

\* One RoomJoined after the other; one that cannot be delivered ends the match.
PublishJoined(a) ==
  /\ att[a].stage = "publish"
  /\ LET h == att[a].humans[att[a].step]
         last == att[a].step = Len(att[a].humans)
     IN IF Current(a) /\ room[h] = a /\ link[h] = "open"
        THEN /\ told' = [told EXCEPT ![h] = "nothing"]
             /\ att' = [att EXCEPT ![a].step = IF last THEN 1 ELSE @ + 1,
                                   ![a].stage = IF last THEN "register" ELSE @]
             /\ UNCHANGED << room, session >>
        ELSE Withdraw(a) /\ UNCHANGED told
  /\ UNCHANGED << operator, conn, link, doing, restored, rejoin, late, requests >>

\* newPublishedSession and SetQuiescenceRelease: the session owns the lease.
RegisterSession(a) ==
  /\ att[a].stage = "register"
  /\ IF Current(a)
     THEN /\ att' = [att EXCEPT ![a].stage = "start", ![a].lease = "session"]
          /\ UNCHANGED << room, session >>
     ELSE Withdraw(a)
  /\ UNCHANGED << operator, conn, link, doing, told, restored, rejoin, late, requests >>

StartSession(a) ==
  /\ att[a].stage = "start"
  /\ att' = [att EXCEPT ![a] =
       Over(IF Current(a) THEN [@ EXCEPT !.stage = "done", !.room = "playing"]
            ELSE [@ EXCEPT !.stage = "done", !.lease = "none"])]
  /\ UNCHANGED << operator, connections, requests >>

\* A worker returns from its own removal only after it was dispatched.
Dispatched(a) == ~(att[a].room = "dropped" /\ att[a].mine)

ReleaseWithdrawn(a) ==
  /\ att[a].stage = "withdraw" /\ Dispatched(a)
  /\ att' = [att EXCEPT ![a] = Over([@ EXCEPT !.stage = "done", !.lease = "none"])]
  /\ UNCHANGED << operator, connections, requests >>

RollbackRoom(a) ==
  /\ att[a].stage = "rollback"
  /\ IF Live(a) THEN Drop(a, [att[a] EXCEPT !.stage = "notify"], TRUE)
     ELSE att' = [att EXCEPT ![a].stage = "notify"] /\ UNCHANGED << room, session >>
  /\ UNCHANGED << operator, conn, link, doing, told, restored, rejoin, late, requests >>

\* notifyRolledBackEntries, one human after the other.
NotifyRolledBack(a) ==
  /\ att[a].stage = "notify" /\ Dispatched(a)
  /\ LET h == att[a].humans[att[a].step]
         spared == h[1] = att[a].excused \/ conn[h[1]] # h[2]
         last == att[a].step = Len(att[a].humans)
     IN /\ IF spared THEN UNCHANGED told ELSE ~Held(h[1]) /\ Hears(h, "nothing")
        /\ att' = [att EXCEPT ![a].step = IF last THEN 1 ELSE @ + 1,
                              ![a].stage = IF last THEN "release" ELSE @]
  /\ UNCHANGED << operator, conn, link, doing, room, rejoin, sessions, requests >>

\* releaseRolledBackEntries, and the lease that runAttempt gives back. Bots
\* of a room that was never published are the worker's to close.
Release(a) ==
  /\ att[a].stage = "release"
  /\ entry' = [p \in Players |-> IF entry[p].attempt = a THEN NoEntry ELSE entry[p]]
  /\ att' = [att EXCEPT ![a] = Over([att[a] EXCEPT !.stage = "done", !.lease = "none",
       !.bots = IF att[a].room = "none" /\ @ = "open" THEN "closed" ELSE @])]
  /\ fill' = Scheduled(queue, fill)
  /\ UNCHANGED << operator, connections, queue >>

-----------------------------------------------------------------------------
(* Deadlines, the bot-fill timer, rooms and the operator.                  *)

\* expireEntry; a queued entry stays reserved until its player was told.
Expire(p) ==
  /\ ~closed
  /\ \/ /\ entry[p].state = "queued"
        /\ queue' = WithoutPlayer(p) /\ fill' = AfterRemoval(queue')
        /\ entry' = [entry EXCEPT ![p].state = "rolledback"] /\ UNCHANGED att
     \/ entry[p].state = "inflight" /\ CancelEntry(<< p, entry[p].client >>, Nobody)
  /\ UNCHANGED << operator, connections >>

NotifyExpired(p) ==
  /\ entry[p].state = "rolledback" /\ entry[p].attempt = 0
  /\ IF conn[p] = entry[p].client
     THEN ~Held(p) /\ Hears(<< p, entry[p].client >>, "nothing")
     ELSE UNCHANGED told
  /\ entry' = [entry EXCEPT ![p] = NoEntry] /\ fill' = Scheduled(queue, fill)
  /\ UNCHANGED << operator, conn, link, doing, room, rejoin, sessions, queue, att >>

\* The deadline of a bot's entry.
ExpireBots(a) ==
  /\ ~closed /\ att[a].bots = "open" /\ Listed(a) /\ ~att[a].stopped
  /\ att' = [att EXCEPT ![a] = Stopped(@, Nobody)] /\ entry' = RolledBack({a})
  /\ UNCHANGED << operator, connections, queue, fill >>

ClaimBotFill ==
  /\ fill = "armed" /\ fill' = "claimed"
  /\ UNCHANGED << operator, connections, entry, queue, att >>

\* A claim is void once the timer was set anew or cancelled, as it is
\* whenever the queue changes.
CommitBotFill ==
  /\ fill = "claimed" /\ Free # {}
  /\ Freeze(queue, entry, 3 - Len(queue), TRUE) /\ queue' = << >>
  /\ UNCHANGED << operator, connections >>

\* handleRoomRemoved: the session is retired, the matcher told, then the players.
DispatchRemoval(a) ==
  LET retired == [att[a] EXCEPT !.room = "gone", !.left = {}, !.published = FALSE,
        !.bots = IF @ = "open" THEN "closed" ELSE @,
        !.lease = IF @ = "session" THEN "none" ELSE @]
  IN /\ att[a].room = "dropped"
     /\ att' = [att EXCEPT ![a] = IF Listed(a) THEN Stopped(retired, Nobody)
                                                 ELSE Over(retired)]
     /\ entry' = RolledBack({a})
     /\ told' = [h \in Handles |-> IF h \in att[a].left /\ Reaches(h) /\ ~Wanted(h)
                                   THEN "nothing" ELSE told[h]]
     /\ UNCHANGED << operator, conn, link, doing, room, rejoin, sessions, queue, fill >>

\* The game: its room opens again and its lease returns, once it is settled.
EndGame(a) ==
  /\ att[a].room = "playing"
  /\ att' = [att EXCEPT ![a].room = "waiting", ![a].lease = "none"]
  /\ UNCHANGED << operator, connections, requests >>

\* The cleanup of rooms that wait too long.
TimeOutRoom(a) ==
  /\ att[a].stage = "done" /\ att[a].room = "waiting" /\ Drop(a, att[a], FALSE)
  /\ UNCHANGED << operator, conn, link, doing, told, restored, rejoin, late, requests >>

\* CancelPending and the first half of Close.
CancelAll ==
  /\ notices' = { << queue[i], entry[queue[i]].client >> : i \in DOMAIN queue }
  /\ queue' = << >> /\ fill' = "off"
  /\ att' = [a \in Attempts |-> IF Listed(a) THEN Stopped(att[a], Nobody) ELSE att[a]]
  /\ entry' = [p \in Players |-> IF entry[p].state = "queued" THEN NoEntry
                                 ELSE RolledBack(Attempts)[p]]

\* setOperationalState waits for the commands that were admitted before it.
Drain ==
  /\ "drain" \in Operations /\ mode = "normal" /\ notices = {} /\ ~closed
  /\ \A h \in Handles : doing[h] = "idle"
  /\ mode' = "draining" /\ CancelAll
  /\ UNCHANGED << closed, connections >>

Resume ==
  /\ mode = "draining" /\ notices = {} /\ mode' = "normal"
  /\ UNCHANGED << closed, notices, connections, requests, att >>

Close ==
  /\ "close" \in Operations /\ ~closed /\ notices = {}
  /\ closed' = TRUE /\ CancelAll
  /\ UNCHANGED << mode, connections >>

CloseRoom(a) ==
  /\ closed /\ att[a].published
  /\ IF Live(a) THEN Drop(a, [att[a] EXCEPT !.published = FALSE], FALSE)
     ELSE att' = [att EXCEPT ![a].published = FALSE] /\ UNCHANGED << room, session >>
  /\ UNCHANGED << operator, conn, link, doing, told, restored, rejoin, late, requests >>

NotifyPending(h) ==
  /\ h \in notices /\ ~Held(h[1])
  /\ Hears(h, "nothing") /\ notices' = notices \ {h}
  /\ UNCHANGED << mode, closed, conn, link, doing, room, rejoin, sessions, requests, att >>

-----------------------------------------------------------------------------
Command(h) == \/ Enqueue(h) \/ PracticeMatch(h) \/ CancelMatch(h) \/ LeaveRoom(h)
              \/ EnterOtherRoom(h) \/ LeaveOtherRoom(h)
Handler(h) == PublishQueued(h) \/ SendQueued(h)
Departure(h) == Vanish(h) \/ Disconnect(h) \/ GoOffline(h)
Reconnect(p) == RestoreSession(p) \/ Reseat(p) \/ ReplaceClient(p) \/ SendMigrated(p)
Worker(a) ==
  \/ TakeLease(a) \/ Assemble(a) \/ Commit(a) \/ ReadyAllAndStart(a) \/ CommitAttempt(a)
  \/ PublishJoined(a) \/ RegisterSession(a) \/ StartSession(a) \/ ReleaseWithdrawn(a)
  \/ RollbackRoom(a) \/ NotifyRolledBack(a) \/ Release(a)
Removal(a) == DispatchRemoval(a) \/ CloseRoom(a)

Next ==
  \/ \E h \in Handles : \/ Command(h) \/ Handler(h) \/ LoseLink(h) \/ Departure(h)
                        \/ NotifyPending(h)
  \/ \E p \in Players : RebindClient(p) \/ Reconnect(p) \/ Expire(p) \/ NotifyExpired(p)
  \/ \E a \in Attempts : \/ Worker(a) \/ Removal(a) \/ ExpireBots(a)
                         \/ EndGame(a) \/ TimeOutRoom(a)
  \/ ClaimBotFill \/ CommitBotFill \/ Drain \/ Resume \/ Close

Spec == Init /\ [][Next]_vars

-----------------------------------------------------------------------------
(* Properties.                                                             *)

\* Every variable keeps its type; the worker's loops stay within its entries.
TypeOK ==
  /\ mode \in {"normal", "draining"} /\ closed \in BOOLEAN /\ notices \subseteq Handles
  /\ \A p \in Players : conn[p] \in 0..Links[p]
  /\ link \in [Handles -> {"unborn", "open", "closed", "leaving", "offline", "gone"}]
  /\ doing \in [Handles -> {"idle", "publish", "sending"}]
  /\ room \in [Handles -> 0..Former]
  /\ told \in [Handles -> {"nothing", "queued", "stale"}] /\ late \subseteq Players
  /\ \A p \in Players : session[p] \in 0..Elsewhere /\ restored[p] \in Unread..Elsewhere
  /\ \A p \in Players : /\ entry[p].client \in 0..Links[p]
                        /\ entry[p].state \in {"none", "queued", "inflight", "rolledback"}
                        /\ entry[p].attempt \in 0..MaxAttempts
  /\ queue \in Seq(Players) /\ fill \in {"off", "armed", "claimed"}
  /\ \A a \in Attempts : /\ att[a].lease \in {"none", "held", "session"}
                         /\ att[a].step \in 1..Len(att[a].humans) \/ att[a].humans = << >>
                         /\ att[a].room \in {"none", "waiting", "ready", "playing",
                                             "dropped", "gone"}

\* A player's entry, his place in the queue and the attempt that froze him
\* agree (m.entries, m.queue, m.attempts), and an attempt that was cancelled
\* has no entry left that still counts as inflight.
ReservedIsOwned ==
  \A p \in Players :
    /\ (\E i \in DOMAIN queue : queue[i] = p) <=> entry[p].state = "queued"
    /\ Cardinality({ i \in DOMAIN queue : queue[i] = p }) <= 1
    /\ entry[p].attempt # 0 =>
         /\ Listed(entry[p].attempt)
         /\ << p, entry[p].client >> \in Humans(entry[p].attempt)
    /\ entry[p].state = "inflight" => ~att[entry[p].attempt].stopped

\* A client whose last news is MatchQueued, with nothing of its own under way.
Waits(h) == /\ told[h] = "queued" /\ conn[h[1]] = h[2] /\ link[h] = "open"
            /\ doing[h] = "idle" /\ rejoin[h[1]] = NoRejoin
Replaced(h) == \E g \in 1..Links[h[1]] : g > h[2] /\ link[<< h[1], g >>] # "unborn"
Accounted(h) ==
  \/ Owns(h) \/ h \in notices
  \/ \E a \in Attempts : h \in att[a].left \/ (room[h] = a /\ att[a].stage = "publish")
\* Such a client is still queued, about to be notified or about to be told of a
\* room: no cancellation, deadline, drain or failed publication forgets it.
\* Connections that were replaced, and came back because the replacement was
\* rolled back, are excepted.
NobodyIsLeftWaiting == \A h \in Handles : Waits(h) /\ ~Replaced(h) => Accounted(h)

\* A cancellation that reaches a queued client is about the request it has, not
\* about an older one: entries stay reserved until their notice is enqueued.
NoticesInOrder ==
  [][\A h \in Handles :
       told[h] = "queued" /\ told'[h] = "nothing" /\ link'[h] = "open" /\ room[h] = 0 /\ room'[h] = 0 =>
         ~(entry'[h[1]].client = h[2] /\ entry'[h[1]].state \in {"queued", "inflight"})]_vars

\* The bots of an attempt are closed once neither the attempt nor its room is
\* there to own them, and not before the room is gone.
BotsAreOwned ==
  \A a \in Attempts :
    /\ att[a].bots = "open" => Listed(a) \/ Live(a) \/ att[a].room = "dropped"
    /\ Live(a) => att[a].bots # "closed"

\* A match is played under a lease, and a worker that is done leaves none behind
\* but with a game under way or a removal about to return it.
LeaseIsAccounted ==
  \A a \in Attempts :
    /\ att[a].room = "playing" => att[a].lease = "session"
    /\ att[a].stage = "done" /\ att[a].lease # "none" =>
         att[a].room = "playing" \/ att[a].room = "dropped"

\* What the drain waits for: no lease and no notice outstanding. Once so, it
\* stays so and no match begins until the operator resumes.
Quiet ==
  /\ mode # "normal" /\ notices = {}
  /\ \A a \in Attempts : att[a].lease = "none"
DrainedStaysQuiet == [][Quiet /\ mode' = mode =>
                          Quiet' /\ \A a \in Attempts : att'[a].room # "playing"]_vars

\* An attempt that was cancelled before commitAttempt is never published.
CancelledNeverPlays ==
  [][\A a \in Attempts : Listed(a) /\ att[a].stopped => ~att'[a].published]_vars

\* No player has a seat in two matches, whichever connections took them. Players
\* are excepted while a seat of theirs goes back to a commit that came after their
\* reconnect had read its session (player.go:470) and before it was through: the
\* seat stays with the old connection, and the new one may be bound once more.
OneMatchEach ==
  \A p \in Players \ late, a, b \in Attempts :
    (\E g, h \in Handles : g[1] = p /\ h[1] = p /\ room[g] = a /\ room[h] = b) => a = b

\* Players, seats, bots and leases are never lost, doubled or left behind,
\* however an attempt fails, in whichever of its steps (matcher.go:585-900).
EverythingHasAnOwner ==
  TypeOK /\ ReservedIsOwned /\ OneMatchEach /\ BotsAreOwned /\ LeaseIsAccounted

\* A cancellation counts for the request it was made for, to the end: no match
\* is played over it and no later request of the player hears of it.
CancellationHolds == NoticesInOrder /\ CancelledNeverPlays

\* config.yaml: a waiting player gets bots for the free seats after a while. So
\* with players in the queue and no match being assembled the timer is set.
BotFillIsArmed ==
  BotsEnabled /\ ~closed /\ queue # << >> /\ (\A a \in Attempts : ~Listed(a)) => fill # "off"

=============================================================================
