# Fight the Landlord: specifications

TLA+ specifications of the game server in this repository and of what its clients
conclude from it: TLC configurations that check them on small instances, and
theorems that TLAPS proves for every value of their constants. Paths are relative to
the repository, except that file names without a directory are under
`internal/server/session` (game, bid, play, timer, delivery, events, dto, player),
`internal/server` (client, connection, command_cache, operational, web, web_session,
admin, moderation, connection_limit), `internal/game/match` (matcher),
`internal/game/room` (persistence, broadcast) or `web/src/stores/slices` (the
slices). There are two files `lifecycle.go`; which one is meant is said where it
matters.

1. [The system](#1-the-system)
2. [The modules](#2-the-modules)
3. [How state and actions correspond to the code](#3-how-state-and-actions-correspond-to-the-code)
4. [What the runs check, and their bounds](#4-what-the-runs-check-and-their-bounds)
5. [Fairness](#5-fairness)
6. [Where code and documents disagree](#6-where-code-and-documents-disagree)
7. [What is proved](#7-what-is-proved)
8. [What is only model-checked, and what is not modelled](#8-what-is-only-model-checked-and-what-is-not-modelled)
9. [Plan](#9-plan)

## 1. The system

A Go server for the three-player card game (斗地主), with terminal and web clients
over WebSockets. Three seats bid for the landlord, who then plays alone against
two farmers. Free seats may be taken by bots.

| Component | Code | State it keeps | Operations |
|---|---|---|---|
| Hand rules | `internal/game/rule`, `card` | none | parse a hand, compare two, list responses, choose an automatic play |
| Game of one room | `game.go`, `bid.go`, `play.go`, `lifecycle.go` of the session | phase, auction, hands, round, tallies, settlement | start, bid, play, pass, redeal, end |
| Live session | `timer.go`, `lifecycle.go`, `delivery.go` | timers, presence, retirement, pending deliveries, start lease | the game's commands with their versions, timeouts, offline and online, retire |
| Event delivery and snapshots | `events.go`, `dto.go`, `delivery.go`, `broadcast.go` | watermark, queue of events, recipients | stamp and queue events, dispatch, snapshot |
| Matcher | `internal/game/match` | entries, queue, attempts, bot-fill timer | quick and practice match, cancel, expire, fill with bots, replace a client, drain, close |
| Match room transaction | `internal/game/room/match_transaction.go` | an unpublished room | begin, join, commit, roll back, ready all and start |
| Rooms | `internal/game/room`, `internal/server/handler` | rooms, seats, readiness, presence, removals, registered sessions | create, join, leave, ready, go offline, reconnect and take it back, remove, clean up |
| Room persistence | `persistence.go` | per code a save, a delete and a worker | save, delete, retire a code |
| Operational state and leases | `operational.go` | normal, draining or maintenance; admissions; start leases | drain, maintain, resume, tell whether a restart is safe |
| Session identities and tokens | `player.go` | tokens, rotations, aliases, reconnect windows | create, restore and rotate, roll back, revoke, clean up |
| Web sessions | `web_session.go`, `web.go` | owner nonces, tickets, revoke drains | commit, refresh, revoke, expire |
| Command cache | `command_cache.go` | results of commands by player and request, LRU list | begin, finish, abort, responses |
| Client connection | `client.go`, `connection.go` | send queue, read and write pump, identity | handshake, read and execute commands, rebind, close, disconnect |
| Dispatch and reconnect | `internal/server/handler` | maps of sessions | route commands, reconnect, removal callback |
| Limits and moderation | `connection_limit.go`, `moderation.go`, `admin.go` | places, bans, mutes | reserve, activate, release, ban |
| Shutdown | `lifecycle.go` of the server | how far it has come | graceful and forced shutdown |
| Bots | `internal/bot` | what they know of the game, a decision under way | bid, play |
| Terminal and web clients | `internal/ui`, `web/src` | a picture of the game | apply events and snapshots |
| The rest | storage, codec, configuration, metrics, sound, update, DouZero service | | |

**How they interact.** One read pump per connection executes that client's
commands one after the other; between connections everything runs concurrently
(timers are goroutines too). A command is looked up in the command cache
(a repeated request is answered from it), passes the rate limit and goes to its
handler, where the admission of the operational state may refuse it: match commands go to the matcher, room commands to
the room manager, game commands to the session of the room. The matcher freezes an
*attempt*, whose worker takes a start lease, assembles an unpublished room,
commits it to the room manager, publishes it and starts a session, which from then
on owns the lease. The session sets the phase and the landlord of its room, queues the
events of each command and dispatches them to whoever is in the room at that moment;
at the end it reopens the room, records results and returns the lease. A lost
connection tells the matcher, then the room, which tells the session. A reconnect
rotates the token, rebinds the player to the new connection, hands over the seat and
sends a snapshot under the room's publication lock, tells the session and migrates a
queued entry; each of these is taken back when a later one fails. A browser holds its
token in a cookie, which an HTTP request has to replace after a reconnect. Removing a
room retires its code until the record in Redis is erased, retires its session, tells
the matcher and then the players. A drain refuses new entries, cancels pending matches,
and waits for all leases; a shutdown does that first, and then closes HTTP, matcher,
connections, rooms and Redis in this order.

**What is hard here**, and what each component must get right:

* *Rules.* Eight checks in an order, a pruned search for responses, an automatic
  move by yet another path. They must agree: a hand has one reading, beating is an
  order, the search misses nothing, a timeout's move passes validation.
* *Game.* The auction goes round a circle that skips the standing candidate and may
  redeal; a round is described by three fields set in three places; settlement
  depends on counters at zero and one. Nobody is asked twice, there is one landlord,
  no card is lost, the settlement is fair, the game ends.
* *Session.* A turn can be ended by its player, a bot, a turn timer, an offline timer
  or the callback of a timer already stopped, while the player leaves and returns and
  the room is removed. A turn ends by something made for it, every turn has something
  that ends it, retirement is final, the lease comes back once and not too early.
* *Events.* A snapshot comes between two events of one command, or while events of a
  later turn are queued. A browser orders both by one watermark, a terminal has none
  and applies events twice, a bot reads its memory from a goroutine. Each must end up
  with the game as it is.
* *Matcher.* Cancellations, deadlines, disconnects, replacements, room removals, a
  drain or shutdown arrive between any two steps of a worker. An entry, its place in
  the queue and its attempt agree; nobody is left waiting for nothing; a notice is
  about the request it was made for; bots and leases are returned; a drained server is
  quiet; nobody sits in two matches.
* *Rooms.* A connection ends while another one takes its player over, a removal is
  reported after its code has been given away, a start registers a session for a room
  that is being removed. Bindings, seats, presence and registrations agree.
* *Persistence.* One worker per code, saves overtaken by a delete, codes reused. Nothing
  is written of a room that was forgotten, and nothing of its successor is erased.
* *Identities.* Answers that carry tokens get lost or come late, two connections present
  one token, a handler that rotated a token ends half way. Whoever holds a token of his
  can come back, a spent one stays spent, a logout is final.
* *Command authority.* A handler that takes a player over drains the command of the
  connection it replaces without the authority lock and then takes it again. Two
  connections never act for one player.
* *Operational state, connections, shutdown.* Counters are read one after the other while
  a game moves between them; a place under the limit is given back by whichever pump or
  handshake ends; a shutdown may be forced in any state. "Safe to restart" stays true,
  places are neither lost nor doubled, nothing writes after Redis is closed.
* *Command cache.* A client repeats a request on a new connection while the old one is
  executing it; identity changes in the middle of a reconnect. No command is executed
  twice at once, answers are the command's own, waiters are released, results are
  forgotten only for a reason.

`PROJECT.json` lists every hazard with its line and the properties that cover it.

## 2. The modules

| Module | What it is | Extends |
|---|---|---|
| `HandRules` | the rule engine as operators on multisets of ranks | |
| `LandlordGame` | one game: the state machine of deal, auction, play and settlement | `HandRules` |
| `Auction` | the game with the answers of the auction recorded as clients are told them: a history variable | `LandlordGame` |
| `GameSession` | the game driven by commands, timers, presence and retirement; implements `LandlordGame` | `LandlordGame` |
| `GameEvents` | the events every command of the game queues, with their stamps, and the snapshot | `LandlordGame` |
| `TerminalView`, `WebView`, `BotSeat` | what a terminal, a browser and a bot make of events and snapshots | `GameEvents` |
| `Delivery` | dispatch to a player whose connection breaks and comes back; composes the game with one of the three | those three |
| `Matcher` | matchmaking with connections, match rooms, leases and the operator | |
| `RoomRegister` | abstract: what room codes and stored rooms promise | |
| `RoomStore` | persistence queues and their workers | |
| `Rooms` | the room manager with its handlers, down to the store; implements `RoomRegister` | `RoomStore` |
| `Credentials` | the session manager as operations on one record | |
| `Reconnect` | connections, reconnect handler, browser sessions and the device at the other end | `Credentials` |
| `Operations` | the operator's state, admissions, leases, the quiescence answer | |
| `Server` | connections with limit and pumps, moderation, shutdown | `Operations` |
| `CommandCache` | the cache and the connections that use it | |
| `GameProofs` | theorems about `LandlordGame`, `Auction` and `GameSession` | `GameSession`, `Auction` |
| `CommandCacheProofs`, `ServerProofs`, `RoomsProofs`, `DeliveryProofs`, `MatcherProofs`, `ReconnectProofs` | theorems | the module named |
| `SessionProofs` | theorems about commanders, logouts and the tokens of a device | `ReconnectProofs` |
| `MCHandRules`, `MCLandlordGame`, `MCGameSession`, `MCCommandCache`, `MCMatcher`, `MCRooms`, `MCReconnect`, `MCServer`, `MCDelivery` | instances for TLC | the module named |

Two abstract specifications are implemented:

* `LandlordGame` is the abstract specification of a session: it says which moves a game
  accepts and nothing about who makes them or when. `GameSession` adds the processes;
  `PlaysLandlord == Spec` says that whatever they do is a behaviour of the game (the
  refinement mapping is the identity on the game's variables).
* `RoomRegister` says what the room manager promises: a code names one room at a time, a
  room is written only between its creation and its being forgotten, and a closed room is
  forgotten in the end. `Rooms` instantiates it with a mapping: a room is `open` while it
  is published, `closed` while its code retires, `forgotten` afterwards; the record is
  what Redis holds. `KeepsRegister == Register!LiveSpec`.

In the modules, a comment that starts with "Fault:" marks an operator that stands for a
plausible mistake; it is used by no specification, only in place of its neighbour to see
that a property notices.

## 3. How state and actions correspond to the code

### HandRules and LandlordGame

Cards are multisets of ranks because suits decide nothing (the order in which equal
responses differ only by suit is left out). `ParseHand` keeps the eight checks in
their order; `ListLegalResponses` keeps the code's pruning by card count;
`FindSmallestBeatingCards` its shortcut for a lead and its order of candidates.
Variables of `LandlordGame` have the names of the fields of `GameSession`. An action is
the part of a handler under `gs.mu`: `Bid` is `handleBidAt` with `Call`, `NoCall` and
`Grab`; a third "no call" in a row is a `Redeal`, which is part of the same action.
`PlayCards` includes the counters, the end of the game and the settlement. `roomState`
and `roomLandlord` are what the session writes into its room. Seats are numbers; the
random first seat and the random forced landlord are choices from `RandomSeats`; the
shuffle is a choice from `Deals`. `turnID` and `gameID` are the versions that clients
must quote.

The lists of hands in the comments of `internal/game/rule/validator.go:33` and `:69`
name hands (AAAABBBB, AAABBBCC) that the code and its tests refuse; the model follows
the code.

### GameSession

One step is one critical section of `gs.mu`. `actionMu`, which serialises commands,
automatic moves, `Start` and `Retire` and is kept while events are delivered, is the
variable `dispatch`: what its holder still has to do. A delivery that is followed by
nothing else is no step, since it only delays the others; the sequence after the end of
a game (reopen the room, record, release the lease) is three.

| Model | Code |
|---|---|
| `Send`, `inbox`, `HandleCommand` | a client or bot acts on the turn it sees; its command arrives later, at any time, and carries game and turn (a bot's bid carries neither, `bot.go:407`) |
| `turnTimer`, `lostTimers` | the timer the session refers to; running timers it no longer refers to, since `PlayerOnline` replaces without stopping |
| `callbacks`, `autoMoves` | a fired timer whose callback is not in `mu` yet; a chosen move that waits for `actionMu` (`handlePlayTimeout` and `handleOfflineTimeout` choose under one lock and move under another); a move remembers for which turn its timer was `armed` |
| `PauseOfflineTurn`, `ResumeTurn` | `pauseOfflineTurnLocked`, `PlayerOnline` |
| `Retire`, `ReleaseAfterRetire` | `Retire` and its release outside the lock |
| `SetQuiescenceRelease`, `ReleaseQuiescence` | the start lease |

Time is abstract: a timer that is armed may fire in any later state. Of the remaining
time only whether there is any is kept. `StopMayBeLate` adds the case that a turn is
paused just past its deadline before its timer has fired: then it has no time left to
resume with. The callback of the offline timer names its player and no turn
(`timer.go:166`): it acts in whichever turn of that player is on when it runs, and its move
carries that turn. `Takeover` lets a seat that is online come online again (a connection
replaced while attached).

### CommandCache

`entries` is the sequence of all entries ever made, `index` the map from keys, `cached`
the contents of the LRU list and `newer` its order. `begin`, `finish`, `abort` and
`responsesAfter` are one step each (`Receive`, `Finish`, `Abort`, `Wake`). A handler
takes effect in `Execute`, where a reconnect may change the identity the connection acts
for; `Finish` then files the result under the new identity as well. A panic is
re-raised after `abort`, so the goroutine of that connection stops. A command refused by
the rate limit is finished without being executed. The time to live is counted in
ticks.

### Matcher

A *handle* `<<p, n>>` is the n-th connection of player `p`; entries and registrations
are told apart by it, as by the client pointer in the code. An attempt, its room and its
lease share one number, which is free again when all three have ended, so `MaxAttempts`
bounds what exists at one time and not how often players are matched.

| Model | Code |
|---|---|
| `conn`, `link`, `doing` | `Server.clients`; a physical connection; where the command of its read pump is (`publish`: entry made and MatchQueued not sent; `sending`: checked under `deliveryMu`, not enqueued) |
| `room` | the room a handle is bound to; `Elsewhere` for a room no match made; `Former` for a replaced handle, which stays bound |
| `told` | whether a client's last news is that it is queued; `stale` if that was no longer so when it was sent |
| `entry`, `queue`, `fill` | `m.entries`, `m.queue`, the bot-fill timer and its claim |
| `att[a].stage` | where the worker is: `frozen`, `assemble`, `commit`, `ready`, `settle`, `publish`, `register`, `start`, `done`; or `rollback`, `notify`, `release`; or `withdraw` |
| `att[a].stopped`, `excused` | the attempt's context was cancelled, and by whom |
| `att[a].room` | the match room: `waiting`, `ready`, `playing`, `dropped` (unpublished, removal callback to come), `gone` |
| `att[a].lease` | the start lease: `held` by the worker, `session` |
| `session`, `restored` | the room that a player's session names; the one that a reconnect has read there |
| `notices` | handles `CancelPending` or `Close` has taken out of the queue and not told yet |

`AddToQueue` is `Enqueue` (under `m.mu`), `PublishQueued` and `SendQueued` (under
`deliveryMu`); an attempt frozen by a third player is launched when that player's
message was sent. A failed attempt rolls its room back, notifies its players one by one
and only then releases their entries. A reconnect is `RestoreSession`, which takes along
the room that the session names (`player.go:466-471`), `RebindClient`, `Reseat`, then
`ReplaceClient` with `SendMigrated`, then the previous connection is closed. It holds
`sessionAuthorityMu`, but a worker's `Commit` does not (`match_transaction.go:155-165`) and
may bind the player's former connection in between: the reconnect then looks for a seat in
the room it has read and the session forgets its room, or, if the snapshot cannot be
sent, gets back the one that was read (`player.go:628`). The seat stays with a connection
that was replaced. `late` remembers the players to whom a commit came like that, until they have no seat.

Steps that are merged, and why that loses nothing the properties could see:
`validateAttempt` and `ReadyAllAndStart` (between them nothing of the worker changes and
the second checks the room again); registering the session and `SetQuiescenceRelease`
(`GameSession` models that race). Time-outs of contexts in room assembly, which fail the
attempt, are the other alternative of `Assemble`. One merge does leave a behaviour out:
`AddToQueue` looks at the client's room before it takes `m.mu` (`matcher.go:280`), here in
the same step. If an earlier match of that client is committed and settled in between, the code
lets a seated player into the queue. `MatchQueued` is sent to clients without a room only
(`sendCommandResultIfUnbound`), so the request is taken back, with the match that froze it;
and nobody who is in a room is bound (`BeginMatchRoom`, `Join`, `Commit`).

### GameEvents, the three views and Delivery

`GameEvents` gives every command of `LandlordGame` its events (`Queue` is
`takePendingWorkLocked`), each with the game, version and turn that stamp it.
`Delivery` adds one player, in seat `Me`, on one kind of device for a whole behaviour.
The next command finds the queue empty, since `actionMu` is held through dispatch;
breaks and reconnects do not wait for it.

| Model | Code |
|---|---|
| `snapshotVersion`, `pendingDeliveries` | `GameSession.snapshotVersion`, the deliveries of the last command |
| `DispatchBroadcast` | `BroadcastBuiltIfCurrentRoom`: to whoever is in the room then; the players of GameStart are filled in at that moment |
| `LookUpRecipient`, `SendIfCurrent` | `PrivateRecipient`, then `SendIfCurrentMember`, with anything in between |
| `Break`, `Reconnect` | the connection is lost, with or without `PlayerOffline` in time; `ReconnectPlayerWithResponse` attaches, builds the snapshot and sends it under `publishMu` |
| `TerminalSees`, `TerminalRestores` | `internal/ui/handler/game.go`, `connection.go` and the card counter |
| `WebSees`, `WebRestores` | `gameSlice.ts` and `roomSlice.ts`: gate, reducer, `shouldRestoreSnapshot` |
| `BotSees`, `thoughts` | `SendMessage` of the bot; the goroutine each of its turns starts, in its stages `PlayTurn`, `current`, `decided` |

A client takes an event in when it is sent: a client that lags behind is in the state of
one whose later events were not dispatched yet. `RemoveCards` removes the very cards
that were played; on multisets that is the meet with what the player still holds. Sounds,
prompts, the countdown, `canBeat` (the turn's event and the snapshot compute it alike)
and what only the bot's engines read are left out, and so is the limit of 64 streams a
browser remembers.

### RoomStore and Rooms

| Model | Code |
|---|---|
| `life`, `state`, `players`, `order` | membership of `rm.rooms`, the fields of a `Room` |
| `clients`, `clientRoom`, `sessionRoom` | `Server.clients`, `Client.RoomID`, the room of a player's session |
| `doing`, `target`, `recalled`, `previous`, `former` | where a connection's handler is, and its local variables |
| `publishing` | `publishMu` of a room, when it is kept from one step to the next |
| `removals` | rooms out of the map whose removal callback has not run |
| `games`, `game`, `away` | `Handler.games`, the session of a room, who that session takes for offline |
| `retiringRooms`, `queues`, `workers`, `store` | the fields of `persistence.go`; of a snapshot only whose it is |

What a handler does under the manager's locks is one step. Any fresh connection may come
back as its player; whether it may is `Reconnect`'s matter. A removal dispatches its
callback later than it takes the room out of the map. An operation on Redis may fail, and
is then not repeated, as in the code. Rooms that a match made are `Matcher`'s. A game that
leaves `Handler.games`, because its room was removed or another is registered in its place, is
retired in the same step; the code does it once it has let go of `gamesMu`
(`handler.go:126-132`, `164-166`), and what a session does until then is `GameSession`'s.

### Credentials and Reconnect

`Credentials` has the state of the session manager as one record and an operator per
operation; the module that uses it says when each runs. A player is named by the
connection whose temporary identity it first was, a token by the connection that drew it.

| Model | Code |
|---|---|
| `index`, `session`, `rotation`, `alias`, `restored` | the maps of `player.go`, and what `RestoreSession` has returned to a handler |
| `ticket`, `nonces`, `drains`, `retired` | `web_session.go` and the revoke drains |
| `authority`, `running` | `sessionAuthorityMu` where it is kept from step to step; read locks of `webCommandMu` |
| `jar`, `request`, `held` | the cookies of the device; its HTTP requests, under way or answered; which tokens it may show |

Simplifications, none of which takes a behaviour away that the properties could see:
`RestoreSession` and `RebindClient` are one step (nothing else runs between them but
under the lock both hold); closing a connection is one step, and before it serves
commands it closes only while idle or while its answer is delivered; a rollback is two
steps; a refresh answers with the cookie the browser has already; failures of ban check
and ticket are one refusal; time is any moment. The branches in which `RebindClient`
fails cannot be reached from its one caller. A client's second attempt at a commit and
its memory of the last authorised snapshot are not modelled.

### Operations and Server

`Operations` has the operational state: a change of it, an admission, a lease and an
answer of the quiescence endpoint each take several steps, since counters are read one
after the other. A game is known by its lease and goes through `leased`, `cancelled`,
`matched` or `readied`, and `over` (recording its result). `Server` adds connections with
their place under the limit (`slot`), both pumps, bans, and the shutdown as `stage`.
A reconnect holds `sessionAuthorityMu` from `Rebind` to `Finish`. The activation of a
browser's connection holds it too in the code; the model lets it interleave, which only
adds behaviours. `previous` is whom the reconnect under way has detached, `missed` whom one had
detached at the moment `CloseClients` closed the registered connections. A save that waits and one that is written are one (`saving`). Mutes,
rates, addresses and origins only refuse. Frames that were read before a socket was
closed and wait in its buffer are not executed.

## 4. What the runs check, and their bounds

| Run | Instance | What it shows |
|---|---|---|
| `rules` | all disjoint pairs of a hand and a table from two small decks: the four K, A and 2 with both jokers (bombs, trios, planes and kickers), and ten cards of 9 to 2 with runs of singles and pairs | `RulesAreSound`: a hand has at most one meaning and `ParseHand` finds it whatever the order of the checks, and beating is a strict order; `ResponsesAreRight`: the pruned search misses no response and the automatic play is the weakest |
| `game` | ten cards, three to a hand, two deals, two first seats, up to two redeals; bomb, rocket, spring and anti-spring within reach; every play of every seat | the shape of rounds, conservation of cards, a timeout's move is always accepted, a fair settlement; nobody is asked twice in a phase and what clients were told explains landlord and multiplier (`AuctionIsFair`); one landlord; the game ends |
| `session` | four cards, one bot, one flaky seat with takeover that is asked first; at a time one command and, besides, one callback or chosen move under way, each as late as it likes | the session implements `LandlordGame`; every turn has something that ends it; the lease comes back once, not before settlement, and in the end; a turn is ended by a move that was made for it; retirement is final |
| `offline_turn` | two flaky seats | *violation*, section 6 |
| `deadline` | one flaky seat | *violation*, section 6 |
| `commands` | three connections, two of which may come back as the player of the third; two requests; capacity two; up to three executions; results expire | index and list agree; never twice at once; own answers; nobody waits in vain; forgotten only for a reason |
| `matching` | three players, two attempts, bots, other rooms, drain, resume and close, in four scenes (below) | `EverythingHasAnOwner` (reservations, seats, bots and leases); nobody is left waiting; `CancellationHolds`; a drained server stays quiet |
| `bot_fill` | two players | *violation*, section 6 |
| `rooms` | two players, one with a second connection to come back on; two rooms that get one code after the other; tables of two | `MembershipAgrees`: bindings, members and seats; `PresenceAgrees`; `GamesFollowRooms`; `KeepsRegister`, the refinement of `RoomRegister` |
| `reconnect` | a browser that makes three connections; one that makes two and logs out from either; a terminal client that makes three | `TokensAreKept`: whatever is lost, the device holds a token that leads back; `CommandersAreAlone`; `RevokeIsFinal`; `SpentForGood` |
| `server` | one connection and two games under an operator; two connections that reconnect under bans; three connections for two places; all with a shutdown | `SafeStaysSafe`: "safe to restart" stays true; `SocketsAreAccounted`; `NothingAfterRedis`; `ShutdownEnds` |
| `delivery` | seven cards, two to a hand, two deals, the player in seat 1 on any of the three devices, one break at any moment with at most one command missed, two goroutines of the bot | `WebAgrees`, `TerminalShowsGame`, `BotSeesItsTurn`: each picture agrees with the game; `WatermarkNeverGoesBack` |

**Why these bounds.** The rules compare ranks and counts: the decks contain every hand
type and both sides of the limit at the 2, so every check and every length the search
allows is met. Four cards are the smallest deal on which a player can pass, beat, lead
twice and win; what the session adds does not depend on the cards beyond that. A
command and a callback or chosen move are what a race for a turn needs: either ends it and the
other comes late, in a turn of another seat, in a later turn of the same seat or after a
redeal. All of these occur in the run; the inductive proofs remove the bound for the safety
properties. In the cache, two connections race and a third evicts or returns; capacity
two with three executions makes it full.

The matcher's scenes: *everybody* comes with one connection and one attempt, of which
one connection may break (three players fill a room without bots); or one player comes
alone and may come back on a second connection, while he makes a second attempt
(*again*), an operator drains, resumes and closes (*operator*), or he goes to rooms no
match made (*elsewhere*). Two attempts with a second connection are what a stale attempt,
its room and its lease need to meet a new one.

Of rooms, two with one code are what a stale save, delete, removal or start needs to meet
its successor; a table of two is full with one member coming back. Of connections of one
device, the third is the first that meets a connection that was itself taken over;
logging out is left to devices with two. A game missed by one command and one break in
the middle of another's events gives a browser every order of event and snapshot; a
second break repeats the first from a picture that `WebAgrees` has just described.

Symmetry is used where players (`matching`) or requests and returning connections
(`commands`) are interchangeable, for safety only. `CHECK_DEADLOCK FALSE` is set since
these systems may stop: a finished game, a retired session, connections all gone, a
server that was closed.

**What the properties leave open on purpose.**

* `MovesAreForThisTurn` excepts bids of bots: a bot thinks in a goroutine and bids without
  a version, so a bid may act in a later turn of the same bot, even after a redeal. It also
  excepts callbacks of the offline timer (`timer.go:166`): one that fired, and did not get the
  lock before its player came back or his turn was over, ends the player's turn that is on
  when it runs, with a move chosen in that turn.
* `TurnHasDriver` is checked with `StopMayBeLate = FALSE`: a turn paused just past its
  deadline before its timer has fired has no time left to resume with, and nothing ends it
  until its player acts.
* `OneMatchEach`, in `EverythingHasAnOwner`, excepts the players in `late`: a match that is
  committed while a reconnect has read the session and is not through leaves the new
  connection without a seat, so that it may be bound in a second match while the first one
  still has the player's former connection. No document speaks of it.
* `NobodyIsLeftWaiting` excepts connections that were replaced and came back because the
  replacement was rolled back: if the deadline of their request passes in between, they are
  not current at that moment and are never told. Three more behaviours that the matcher's
  model has, none of them contradicted by a document: MatchQueued may be sent after the
  request it confirms is over (`stale`); if MatchQueued is delayed past the commit of the
  room it counts as undeliverable and cancels the whole match; a RoomLeft of an old room may
  reach a client after its next MatchQueued.
* `WebAgrees` excepts the multiplier once bombs fell (the browser learns of a bomb's
  doubling only from a snapshot or the end of the game) and the numbers of cards nobody
  told it (`unheard`): GameStart carries no counts, the codec makes them zero, and
  `cards_count ?? 17` (`roomSlice.ts:43`) never applies, so the others show no cards until
  they play.
* `TerminalAgrees` excepts what a snapshot does not restore, until an event tells it: whose
  turn it is to bid (a player who comes back during his own bid cannot bid from the
  keyboard, though `internal/ui/handler/connection.go:62` restores a bidding phase), the multiplier, and the
  counter, which is rebuilt from what is visible. On the landlord's own screen everybody
  shows a dealt hand after the second DealCards, until they play.
* `PresenceAgrees` and `MembershipAgrees` are about the connection that is registered and
  bound. Behaviours outside of that, which the code has: after a reconnect that took over
  a dead connection is rolled back, the dead connection is registered again and its player
  seems online; a create or join that the old connection is carrying out during a takeover
  leaves `Client.RoomID` and the session's room apart, and a member nobody acts for; when the old
  connection has unregistered itself, the reconnect sets the player online and only then
  the old one sets him offline, his session lapses although he is connected
  (`docs/deployment.md:105` gives that window to disconnected players).
* `HeldTokensComeBack` speaks of every token the device *may* hold. A browser applies the
  cookies of answers in the order they arrive: the late answer of a rotation that lost may
  overwrite the jar with a dead token (`docs/web-session-security.md:27` describes the
  rotation without that case). A terminal client whose Reconnected message is lost has no
  other way back.
* `RotationEnds` speaks of players whose credential is good; of a lapsed one nobody asks.
* `NothingAfterRedis` excepts a settlement that a forced shutdown does not wait for, and
  `SafeStaysSafe` ends when the operator resumes; a resume between the quiescent answer and
  the closing of HTTP lets new games start.
* `ShutdownEnds` excepts shutdowns that wait for good for a connection that a reconnect had
  detached at the very moment when the registered ones were closed, and that was put back since:
  `clientPumpsWG.Wait` then waits for that peer. A takeover or a rollback at any other time
  is no excuse.

`CommandersHaveNoTicket` is the reason why no circle of waits arises between
`webCommandMu` and `sessionAuthorityMu`: a ticket that expires takes them in the opposite
order, but only for a connection that has not begun to carry out commands.

## 5. Fairness

* In `LandlordGame` alone (`game`), weak fairness of the whole next-state relation: somebody
  moves. It is the session's business that somebody does.
* In `GameSession` (`session`), nothing is assumed of clients and bots: they need never answer.
  Goroutines that hold or wait for a lock get it (Go's mutexes do not starve waiters), so
  commands, callbacks, automatic moves and the steps of `dispatchPendingWork` are
  weakly fair. An armed offline timer fires. The turn timer gets strong fairness, because a
  flaky player may pause and resume it for
  ever. Every pause keeps what the turn has used up (`timer.go:147-155`), so the
  remaining time only shrinks; a timer armed again and again therefore fires. With strong
  fairness of firing the model says exactly that and nothing about how soon.
* In `Rooms` (`rooms`), the persistence workers are scheduled, one weak fairness per code. Of users and
  timers nothing is asked. Redis answers, with success or an error: its client has time-outs.
* In `Server` (`server`), handlers that run finish, the shutdown and a change of the state take their next step,
  a match that was cancelled gives its lease back, saves are written: weak fairness each.
  `EnterMaintenance` has strong fairness because it needs a lock that others take in
  between and Go's mutex starves nobody; the time-out of the wait for games has it because polls interrupt
  its being enabled, and time passes meanwhile. Players, games and operators need never do
  anything.
* `matching`, `commands`, `reconnect` and `delivery` check safety without fairness.

## 6. Where code and documents disagree

* **`offline_turn`.** `docs/deployment.md:118` says that the game waits a configured
  number of seconds for an offline player whose turn it is. `PlayerOnline`
  (`timer.go:195`) stops the offline timer before it looks whose turn it is: when
  another player reconnects, nothing bounds that turn any more. Needs two flaky seats,
  which is why `TurnHasDriver` is checked with one.
* **`deadline`.** `game.go:105` calls `turnDeadline` the server's absolute deadline of the
  turn. A reconnect while the turn timer runs (`timer.go:213`; the player was offline
  before his turn began, or is taken over while attached) arms a second timer with a later
  deadline and leaves the first running, which still ends the turn at the old one.
* **`bot_fill`.** `config.yaml:77` says that bots fill the free seats after some seconds of
  waiting. A practice match of somebody else cancels the one bot-fill timer
  (`matcher.go:551`), and once it runs nothing sets the timer again until the queue
  changes.

## 7. What is proved

TLAPS proves the forty theorems listed in `PROJECT.json`, from the assumptions that
the modules state about their constants (ranks within 3..17, deals that fit the deck, at
least one redeal, sets of seats, a capacity of at least one, a finite set of games, a code
for every room, at least one connection a player and one attempt; nobody is not a player). Two of them need more,
and say so: `EveryTurnIsDriven` and `EverythingIsOwned`, below.

*The game* (`GameProofs`), for every deck, deal and turn order:
`TypeCorrect` (`TypeOK`), `RoundsAreSound` (`RoundShape`), `OneLandlordForAll`
(`LandlordAgrees`), `NoCardIsLost` (`CardsConserved`). Types are not inductive as they
stand: `bidPasses \in 0..2` needs that an auction with a caller ends at two passes,
`redealCount <= MaxRedeals` that there is a redeal left while seats are asked, and the
range of the landlord that a caller implies a candidate. `GameInv` adds these
(`AuctionBounds`) and that the room follows the phase (`RoomFollows`). `RoundShape` needs in addition
that the table is clear while seats bid (`TableClear`), and that no cards are no hand
(`NoCardsAreNoHand`, by evaluating `ParseHand`), or a play could leave the table clear.
`CardsConserved` is inductive with the types; its lemmas are about the sum of hands in a
deal and in the hand-over of the bottom cards.

* `SilentSeatsCanBePlayed` (`TimeoutMoveAccepted`): `HeldInv` says that no seat that may
  have to play is without cards, and that what lies on the table is a hand. The order in
  which candidates are preferred is total (`PrecedesOrders`), so that among the finitely many
  responses one comes first (`WeakestResponse`); it is held and beats the table, or there
  is none and the seat may pass, and a seat that must lead has a card to lead with.
* `SettlementsAreFair` (`SettlementIsFair`): `SettledInv` says that the settlement is what
  `Multiplier` and the result make of bombs, bid and springs, and that the farmers have not
  played if and only if `farmerPlays` is zero. That 2^n is a positive
  number, which the provers do not know, is counted: it is the number of subsets of 1..n.
* `AuctionsAreFair` (`AuctionIsFair`): until somebody calls, the answers are the passes of
  seats in a circle (`NobodyCalled`); `EveryoneInTurn` says who has called, who has grabbed
  and who is next, in terms of how many calls came before the one that counted, and
  `Outcome` that the multiplier and the candidate are what the answers so far explain. An
  auction takes six answers at most, so that the three seats and the powers of two are
  cases and no induction.

*The session* (`GameProofs`), for any number of pending commands, any flaky
seats, takeovers and late stops:

* `SessionPlaysLandlord`: every step of the session is a step of the game or leaves it
  alone, whoever made the move. `Next` quantifies over the sub-hands of a hand, so the
  cards of an accepted play have to be one (`SelectionIsSubHand`); that needs hands
  within the deck, hence `GameInv` and `CardsConserved`.
* `RetirementIsFinal`: `RetiredInv` adds to "nothing is armed" that nobody holds
  `actionMu`; a late `PauseInitialOfflineTurn` would arm a timer.
* `LeaseReleasedOnce`: `LeaseInv` relates the number of releases to `quiescenceDone`,
  which two parties set, and the steps after the end of the game to what they have done.
* `TurnsEndOnTheirOwnMoves`: `VersionInv` says that every turn timer, its callbacks and the moves they
  choose carry the turn it was armed for, and that only a bid of a bot and the callback of
  an offline timer carry none; then a move that is accepted was made for this turn, by the check
  of the version, or is one of these two.
* `EveryTurnIsDriven` (`TurnHasDriver`), where a timer that is stopped still has time left
  and at most one connection is unreliable. Both hypotheses name what the code does not
  guarantee: a turn paused at its very deadline is left with no time (`timer.go:150`, listed
  as a hazard), and the offline timer of one seat cancels the wait for another
  (`timer.go:195`, section 6, run `deadline`), so that without them the statement is false.
  The invariant goes through the states of the turn's timer, the offline wait, the
  pause and the locks, and says for each which of them ends the turn.

*The cache* (`CommandCacheProofs`), for any number of connections, requests, entries, any
capacity and time to live: `OneExecutionAtATime`, `OwnAnswers`, `WaitersHaveAnOwner`.
The invariant is `CacheTypeOK /\ IndexInv /\ OwnerInv`: index and keys of the cached
entries are inverse to each other; whoever executes a command is the only owner of its
entry, which is cached and running; and every running entry has an owner. Eviction is
harmless because it takes finished entries only, aliasing because it takes only free
keys. `IndexAgreesWithList` (`IndexMatchesList`) and `ForgetsForAReason`
(`ForgottenForAReason`) add `ListInv`: the order by recency is total on the cached entries,
and they are finitely many, never more than the capacity. A full cache that has a
finished entry then has a least recent one, which is the one that goes.

*The server* (`ServerProofs`), for any connections, games and scenes, whatever pollers,
operator and shutdown do: `SafeToRestartIsFinal` (`SafeStaysSafe`) and `LeasesAreCounted`.
`OperationsInv` says that the lease counter is the number of games that hold one
(`LeasesCounted`), that no admission outlasts the change to draining (`AdmissionsEnded`),
that the queue is empty once the cancelling is done (`QueueCancelled`), and what the answer
was based on (`SafeBasis`). The answer reads games, leases and queue one after the other;
`SafeBasis` holds because by the order of the reads none of them can grow after it was
read. `OperationsStep` names the few things that the many actions of `Server` do to
`Operations`.

`ServerKeepsItsBooks` (`SocketsAreAccounted`) and `RedisOutlivesItsUsers`
(`NothingAfterRedis`) rest on `ServerInv`, which adds how many places every connection
holds in each of its stages (`PlacesInv`, with counts as cardinalities), that an open
connection of a player is the registered one and was authorised after the last ban
(`PlayersInv`), and what each stage of the shutdown has left behind for good (`EndedInv`).

*The rooms* (`RoomsProofs`), for any rooms, codes, players and connections:
`RoomsImplementRegister`, the safety part of `KeepsRegister`. Under the mapping of
`Fate`, initial states map to initial states and every step to a step of `RoomRegister` or
a stutter. `StoreInv` is needed because a worker carries its operation out after the
queue has moved on: a delete that waits or runs is of the removed room whose code retires
and there is never a second (`DeletesRetire`); a save that waits is of the published room,
and one that runs may be overtaken by the removal but not by the delete
(`SavesAreOfTheOpen`); codes are distinct among published rooms (`OneRoomACode`); the
store closes after the last room (`ClosedIsEmpty`).

`RoomsKeepMembership` (`MembershipAgrees`), `RoomsTellPresence` (`PresenceAgrees`) and
`RoomsHaveTheirGames` (`GamesFollowRooms`) are about everything above the store, and rest
on one invariant, `RoomsInv`. `GamesInv` ties the life of a room to its game and to the
handler that starts, reports or ends it; `Seated` keeps the seats distinct and in order
through every insertion and removal; `BondsInv` says how a connection is bound in each
step of a reconnect or a leave, and that a player has one reconnect at a time; `Presence`
says whose news of a player's presence is still under way while session and room differ.

*Delivery* (`DeliveryProofs`), for every deck, deal, seat and number of breaks and of
commands missed between them:

* `WatermarkIsMonotonic` (`WatermarkNeverGoesBack`). Every event in the queue is stamped with
  a game and turn the session has reached, GameStart with its latest game (`QueueInv`); the
  browser's picture is never ahead of the session (`WebInv`); a recipient that was looked up
  waits for the first event (`RecipientInv`). So the gate and `shouldRestoreSnapshot` can
  only move forward.
* `BrowsersShowTheGame` (`WebAgrees`). The property speaks of an empty queue and is far from
  inductive. `Leads` says what a picture becomes once a list of events has been told, one after
  the other, by a sequence of pictures; with it `PictureInv` can speak of the events under
  way. While a browser is there, they lead its picture to one that shows the committed
  state (`LeadsToTruth`). While it is away, a picture with the latest watermark shows that
  state already (`UpToDate`), so a snapshot may be left alone; and a game that was ever shown
  is the one that is shown (`Placed`), so a snapshot of another game is never refused. A
  private event that was looked up for an earlier connection has been passed by the
  snapshot of the later one (`LostIsOld`). For each command `TellsTruth` shows that its events
  lead a picture of the state before it to one of the state after it
  (`StartTells`, `BidTells` with a redeal and a landlord by force, `PlayTells`,
  `PassTells`), all with newer stamps (`Ends`); a browser that goes or comes back in between
  needs only the stamps. `GameShape` is the part of the game's invariant this rests on: no
  landlord and no bomb while seats bid.
* `DeliveryPlaysLandlord`: everything delivery adds, the bot's late moves included, is a step
  of the game or leaves it alone. So what `GameProofs` shows of the game (`GameAll`) holds
  while it is delivered, and what follows may use it.
* `BotsSeeTheirTurn` (`BotSeesItsTurn`). What is under way leads the bot's picture to the
  game (`BotPicture`), up to the turns it has claimed, which make no difference to what it
  remembers (`AlikeTold`); for each command `TellsBot` shows so, the counts of a deal
  being derived by the bot itself (`BotDeals`, with `SizesAdd`: the size of a sum of cards is
  the sum of their sizes). `AsksLast` says that a command asks for a turn at most once and
  last; so a thought about the turn that is on has nothing under way behind it
  (`Timely`), and what it reads without a lock is the game as it is (`ContextIs`) until
  some command ends that turn. With `HeldInv` it then has a decision, and each is accepted
  (`RightDecisions`).

*The matcher* (`MatcherProofs`), for any players, any number of connections of each, any
number of attempts, whatever the operator may do. Every step does to an attempt what one
step of its life may do to it (`EvolvesKeeps`); so lease, bots, room and publication of an
attempt are related by an invariant of single attempts (`AttInv`), whichever of the many
actions moved it. `MatcherInv` adds what relates players to attempts: who is in the queue
is so once and says so; who is frozen is in the attempt his entry names, on this very
connection, and if the attempt is cancelled no longer counts as inflight; and the bot-fill
timer is set only with somebody in the queue. From it follow

* `EverythingIsReserved`, all of `EverythingHasAnOwner` but `OneMatchEach`, for all
  constants;
* `CancelledMatchesNeverPlay` and `CancellationsHold` (`CancellationHolds`), because the
  entry of a cancelled player stays reserved until his notice is enqueued;
* `DrainedMatcherStaysQuiet` (`DrainedStaysQuiet`), because no step lets a player into the
  queue, or takes a lease, while the mode is not normal.

`EverythingIsOwned` (all of `EverythingHasAnOwner`) adds `OneMatchEach` where players enter no
room that the matcher did not make (`OtherRooms = FALSE`). `SeatsInv` says, of every player
who is not in `late`, with which connection a seat may be: the registered one, the one before the player went, the one a
reconnect is taking it to, or one whose match is going to be taken back (`SeatsAreHeld`);
hence who is about to be bound by a commit has no other seat (`CommitFits`). A reconnect finds
the seat, because the session and whatever was read of it name its room (`SessionKnows`);
only a commit can give a seat that is not known there, and it makes its players late. Connections
are born in order and one that is yet to come has nothing (`BornInOrder`), and a reconnect
under way owns its player (`HandoversFit`). With other rooms a player may have a seat in
one of them and in a match, and a reconnect takes one of the two; that case stays with
the run `matching`, for two connections.

`NobodyIsForgotten` (`NobodyIsLeftWaiting`), for all constants again,
is the theorem that took most. A client that was told "queued", whose link is open and
that nobody replaced *hopes*; `PromisesKept` says what each such client is promised, in
terms that are inductive where `Accounted` is not. Without a seat: a notice that is about
to be sent, the removal of its room that is about to be told, or a request of its own whose
attempt, if it has one, has not gone past the point where it tells him (`NotYet`: still to
be made or rolled back, or in the loop of notices and not beyond him). With a seat: in the
room of a match that is being made from his request, or in one whose loop of `RoomJoined`
has not come to him yet. `WaitInv` needs besides

* `LinksInv`: the last connection of a player is the registered one until it is torn down,
  and whoever takes a player over is his last connection; so a client that hopes is neither
  skipped as stale nor about to be replaced (`HopesAreSettled`);
* `FreshInv`: a connection that is yet to come, or has not taken over yet, was told nothing;
* `Excuses`: whom `notifyRolledBackEntries` spares because he cancelled or went does not
  hope;
* `SendsInTime`: whoever is being sent `MatchQueued` under `deliveryMu` and owns his
  request has still an answer to come: the check before the message, and the lock that the
  notices wait for, are both needed here;
* `SettlesBound`: a match that may be committed has bound its players, so that a request
  that ends with `commitAttempt` leaves its client in the room that it is told of;
* `AttemptsFit`: the loops begin with the first human, only a dropped room has leavers.

`AttemptMoves`, `EntryMoves` and `SeatMoves` say once what any step may do to an attempt, a
request and a seat; the promises are followed through these few kinds and not through
each of some forty actions.

*Identities, tokens and browser sessions* (`ReconnectProofs`, and `SessionProofs` from the second
item on), for any connections and any
devices. The properties speak of folds over waiting drains and of quantifiers over the
tokens of devices nobody knows; the proofs go through what a step may do to one player
(`Turn`), to one connection (`WebMove`) and to what one device holds (`HeldMove`), so
that the invariants are kept by these moves and not by each of the many steps.

* `BooksAreRight` (`ReconnectTypes`, `SpentTokensStaySpent` for `SpentForGood`): the invariant
  `Core` relates the books of the session manager. A token in the index leads to
  the player it was drawn for; a spent token has an alias at most and never comes back; an
  open rotation has both its tokens; what a handler put back was a token of its player. Tokens
  are drawn afresh, so `Drawn` says how far drawing has come, and `Admitted` which
  connection may have an identity yet.
* `CommandersStayAlone` (`CommandersAreAlone`) and `RotationsAreDecided`: `Deep` says of each
  connection what its standing excludes. Whoever runs a command is registered and has no
  ticket open (`RunningInv`), and neither has whoever may run one (`AuthorizedInv`) or is about
  to be moved off its player (`MovingInv`). The registered connection of a player has a
  token of its session, but for the time in which a reconnect decides (`RegisteredInv`,
  `WindowInv`); the handler that puts a token back finds nobody running there
  (`RestoringInv`); and an open rotation is of one connection that commits, rolls back
  or loses it (`RotationsInv`, `RotatingInv`).
* `LogoutsAreFinal` (`RevokeIsFinal`): `Covers` says whom the drain of a logout waits for. Whoever
  still runs a command of a player whose session has ended is among them, or is
  waited for by somebody who is, because a connection that moved off that player in time
  hands its drain on (`CoveredInv`). `Finals` adds who revokes (`RevokersInv`, `EndingInv`)
  and what is over for good (`OverInv`). Terminal clients never log out (`Stays`).
* `TokensStayKept` (`TokensAreKept`): every token that a browser's device may still show is one
  of its player's open rotation, or the last it was given (`HeldInv`); a rotation that is
  settled leaves the presented token and no other (`HeldMove`). A terminal client holds
  the token of its session, or one that the handler is about to put back (`TerminalInv`),
  and asks nothing over HTTP.

## 8. What is only model-checked, and what is not modelled

*Only model-checked.* Liveness (`GameEnds`, `SessionGetsOver`, `ShutdownEnds`, the liveness
of `KeepsRegister`) is beyond the prover. `RulesAreSound` and `ResponsesAreRight`, the
properties of the rule engine, compare two definitions over bounded inputs; for all hands
this is induction over data. `TerminalShowsGame` is
checked and not proved: a terminal applies events a second time, so that its picture is
not led to the state by the events under way, only up to what such an event changes for
good. `TurnHasDriver` with two unreliable connections or a stop at the
deadline is false (section 6 and the hazards), and `OneMatchEach` with other rooms is checked for two connections a player.

*Not modelled, by module.* Session: the estimate by which
bots decide. Cache: what the cached messages say. Matcher: metrics, room codes
and names; the readiness and chat of rooms; joining rooms while the server drains, which
the code admits, is part of `EnterOtherRoom` without its room. Rooms: chat, names, the room
list; what a snapshot of a room says. Reconnect: rooms and matches (theirs are `Rooms` and
`Matcher`), and that a logout always returns, which is not checked. Server: the audit log,
broadcast texts, mutes and rates. Views: rendering, sounds, prompts, countdowns.

*Modelled with a smaller part of the neighbour.* `Rooms`, `Reconnect`, `Matcher` and
`Server` each have the connections they need and leave the others' state out; what crosses
is a choice in each: whether a reconnect is admitted in `Rooms` (decided in `Reconnect`),
whether queue cancellation leaves the queue empty in `Operations` (shown by
`DrainedStaysQuiet` of `Matcher`), whether a game ends in `Server` (shown by
`SessionGetsOver`).

*Not modelled, by component.* The leaderboard's scripts run in Redis, outside this code.
The codec is generated and without state; the one conversion that matters, an absent number
of cards becoming zero, is in `WebGameStart`. Configuration, logging,
metrics, sound, update and the DouZero service have no protocol of their own.

## 9. Plan

Done: the rules and the game; the session as an implementation of the game; the cache;
the matcher with match rooms and the drain; rooms and persistence as an implementation of
`RoomRegister`; identities, browser sessions and the reconnect; the operational state with
connections, limits, bans and shutdown; events, snapshots and the three kinds of client;
proofs about each of them but the rules (section 7).

Left, in this order:

1. `TerminalShowsGame` for every deal, along the lines of `BrowsersShowTheGame`; a terminal applies events a second time, so its pictures are led
   to the state only up to what such an event changes for good.
2. An abstract specification of `Reconnect` (a player, the tokens that lead to him, and
   nothing about rotations) that the detailed one implements.
