------------------------------ MODULE Delivery ------------------------------
(***************************************************************************)
(* A game and one of its players, in seat Me: a terminal, a browser or a   *)
(* bot. Events are dispatched one by one (session/delivery.go) to the      *)
(* connections that the room holds at that moment (room/broadcast.go);     *)
(* between two of them a connection may break, and a reconnect attaches a  *)
(* new one and gives it a snapshot of the committed state, in one step     *)
(* under the room's publication lock. What the client was told then has to *)
(* agree with the game whenever nothing is under way.                      *)
(*                                                                         *)
(* A client takes an event in when it is sent: one that lags behind sees   *)
(* the same events later. Events sent into a broken connection are lost.   *)
(***************************************************************************)
EXTENDS TerminalView, WebView, BotSeat

CONSTANTS
  Me,             \* the seat of the player
  Devices,        \* a subset of "terminal", "web", "bot"
  MaxConnections, \* bound: connections of the player, the first included
  MaxMissed,      \* bound: commands that a player misses between two connections
  MaxThoughts     \* bound: goroutines of the bot at a time

ASSUME MeAssumption == Me \in Seat
ASSUME DevicesAssumption == Devices \subseteq {"terminal", "web", "bot"}
ASSUME BoundsAssumption == MaxConnections \in Nat \ {0} /\ MaxThoughts \in Nat

VARIABLES
  device,      \* what the player uses
  connection,  \* number of the player's latest connection
  attached,    \* whether that connection works
  offline,     \* whether the session has noticed that it does not
  missed,      \* commands since the connection broke
  recipient,   \* the connection a private event was looked up for, 0 for none
  view,        \* what the client has been told
  thoughts     \* goroutines of the bot

linkVars == << device, connection, attached, offline, missed, recipient >>
vars == << gameVars, eventVars, linkVars, view, thoughts >>

DeliveryInit ==
  /\ Init
  /\ snapshotVersion = 0 /\ pendingDeliveries = << >>
  /\ device \in Devices
  /\ connection = 1 /\ attached = TRUE /\ offline = FALSE
  /\ missed = 0 /\ recipient = 0
  /\ view = CASE device = "terminal" -> NoTerminalGame
              [] device = "web"      -> NoWebGame
              [] device = "bot"      -> NewBot
  /\ thoughts = {}

-----------------------------------------------------------------------------
(* Dispatch                                                                *)

\* What the client makes of an event.
Sees(e) == CASE device = "terminal" -> TerminalSees(view, Me, e)
             [] device = "web"      -> WebSees(view, Me, e)
             [] device = "bot"      -> BotSees(view, Me, e)

\* SendMessage of the player's connection.
Receive(e) ==
  /\ view' = Sees(e)
  /\ thoughts' = thoughts \cup (IF device = "bot" THEN Asked(Me, e) ELSE {})
  /\ Cardinality(thoughts') <= MaxThoughts

\* BroadcastBuiltIfCurrentRoom: the players of GameStart, and their landlord
\* mark, are the room's at the time of dispatch.
Built(e) ==
  IF e.type # "GameStart" THEN e
  ELSE [e EXCEPT !.body =
          [landlord |-> IF roomLandlord = NoSeat THEN {} ELSE {roomLandlord}]]

Done == pendingDeliveries' = Tail(pendingDeliveries)

\* dispatchBroadcastDelivery.
DispatchBroadcast ==
  /\ pendingDeliveries # << >>
  /\ Head(pendingDeliveries).to = NoSeat
  /\ Done
  /\ IF attached THEN Receive(Built(Head(pendingDeliveries)))
     ELSE UNCHANGED << view, thoughts >>
  /\ UNCHANGED << gameVars, snapshotVersion, linkVars >>

\* dispatchPendingDelivery to another seat, or to a player who is away.
DispatchElsewhere ==
  /\ pendingDeliveries # << >> /\ recipient = 0
  /\ Head(pendingDeliveries).to # NoSeat
  /\ Head(pendingDeliveries).to = Me => ~attached
  /\ Done
  /\ UNCHANGED << gameVars, snapshotVersion, linkVars, view, thoughts >>

\* PrivateRecipient.
LookUpRecipient ==
  /\ pendingDeliveries # << >> /\ recipient = 0
  /\ Head(pendingDeliveries).to = Me /\ attached
  /\ recipient' = connection
  /\ UNCHANGED << gameVars, eventVars, device, connection, attached, offline,
                  missed, view, thoughts >>

\* SendIfCurrentMember: only to a connection that is still the member's.
SendIfCurrent ==
  /\ recipient # 0
  /\ recipient' = 0 /\ Done
  /\ IF attached /\ connection = recipient
     THEN Receive(Head(pendingDeliveries))
     ELSE UNCHANGED << view, thoughts >>
  /\ UNCHANGED << gameVars, snapshotVersion, device, connection, attached,
                  offline, missed >>

-----------------------------------------------------------------------------
(* Breaks and reconnects                                                   *)

\* The connection breaks. PlayerOffline tells the session, unless the next
\* connection comes first.
Break ==
  /\ device # "bot" /\ state # "Init"
  /\ attached /\ connection < MaxConnections
  /\ attached' = FALSE
  /\ offline' \in BOOLEAN
  /\ snapshotVersion' = snapshotVersion + (IF offline' THEN 1 ELSE 0)
  /\ UNCHANGED << gameVars, pendingDeliveries, device, connection, missed,
                  recipient, view, thoughts >>

\* ReconnectPlayerWithResponse with buildReconnectedMessage: attach, snapshot
\* and send under the publication lock; PlayerOnline follows.
Reconnect ==
  /\ ~attached
  /\ attached' = TRUE /\ connection' = connection + 1
  /\ offline' = FALSE /\ missed' = 0
  /\ snapshotVersion' = snapshotVersion + (IF offline THEN 1 ELSE 0)
  /\ view' = IF device = "web" THEN WebRestores(view, GameStateDTO(Me))
             ELSE TerminalRestores(view, Me, GameStateDTO(Me))
  /\ UNCHANGED << gameVars, pendingDeliveries, device, recipient, thoughts >>

-----------------------------------------------------------------------------
(* The bot's goroutines                                                    *)

Becomes(t, new) == thoughts' = (thoughts \ {t}) \cup new

\* preparePlayTurn up to its second look at the turn: a turn is thought about
\* once, and only while it lasts. The first look and the sleep change nothing
\* that the second look does not decide.
ClaimPlayTurn(t) ==
  /\ t.stage = "PlayTurn"
  /\ view' = [view EXCEPT !.attempted = @ \cup {t.meta.turn}]
  /\ Becomes(t, IF IsCurrentPlayTurn(Me, t.meta) /\ t.meta.turn \notin view.attempted
                THEN {[t EXCEPT !.stage = "current"]} ELSE {})
  /\ UNCHANGED << gameVars, eventVars, linkVars >>

\* The rest of preparePlayTurn: the memory may be of a later turn by now, but
\* not of another game.
BuildContext(t) ==
  /\ t.stage = "current"
  /\ Becomes(t, IF view.game = t.meta.game
                THEN {[stage |-> "decided", meta |-> t.meta,
                       ask |-> GameContext(view, t.ask)]}
                ELSE {})
  /\ UNCHANGED << gameVars, eventVars, linkVars, view >>

\* The move, if the session accepts it.
Accepts(cards) == IF cards = NoCards THEN ~MustPlay ELSE AcceptsPlay(cards)

\* submitPlayDecision: nothing for a turn that is over; a refused answer is
\* replaced by the fallback once.
SubmitPlay(t) ==
  /\ t.stage = "decided" /\ pendingDeliveries = << >>
  /\ Becomes(t, {})
  /\ UNCHANGED << linkVars, view >>
  /\ IF IsCurrentPlayTurn(Me, t.meta)
     THEN \E cards \in Decisions(t.ask) :
            SeatMoves(IF Accepts(cards) THEN cards ELSE RuleFallback(t.ask))
     ELSE UNCHANGED << gameVars, eventVars >>

\* handleBidTurn after its sleep: HandleBid without saying for which turn.
SubmitBid(t) ==
  /\ t.stage = "BidTurn" /\ pendingDeliveries = << >>
  /\ Becomes(t, {})
  /\ UNCHANGED << linkVars, view >>
  /\ IF state = "Bidding" /\ currentBidder = Me
     THEN \E bid \in BOOLEAN : HandleBid(bid)
     ELSE UNCHANGED << gameVars, eventVars >>

-----------------------------------------------------------------------------

\* A command of any seat, of Me by hand or by a timer.
PlayOn ==
  /\ GameCommand
  /\ attached \/ missed < MaxMissed
  /\ missed' = IF attached THEN 0 ELSE missed + 1
  /\ UNCHANGED << device, connection, attached, offline, recipient, view,
                  thoughts >>

DeliveryNext ==
  \/ PlayOn
  \/ DispatchBroadcast \/ DispatchElsewhere
  \/ LookUpRecipient \/ SendIfCurrent
  \/ Break \/ Reconnect
  \/ \E t \in thoughts : \/ ClaimPlayTurn(t) \/ BuildContext(t)
                         \/ SubmitPlay(t) \/ SubmitBid(t)

DeliverySpec == DeliveryInit /\ [][DeliveryNext]_vars

-----------------------------------------------------------------------------
(* Properties                                                              *)

\* Types of what delivery adds to the game.
DeliveryTypeOK ==
  /\ snapshotVersion \in Nat
  /\ \A i \in DOMAIN pendingDeliveries :
       /\ pendingDeliveries[i].to \in Seat \cup {NoSeat}
       /\ pendingDeliveries[i].meta.version \in 1..snapshotVersion
  /\ device \in Devices /\ connection \in 1..MaxConnections
  /\ attached \in BOOLEAN /\ offline \in BOOLEAN
  /\ recipient \in 0..MaxConnections
  /\ view.hand \in CardSet
  /\ Cardinality(thoughts) <= MaxThoughts

\* Nothing is under way to a client that is there.
Quiet == attached /\ pendingDeliveries = << >> /\ state # "Init"

\* Whatever a browser missed and whenever it came back, also between two events
\* of one command, it shows the game as it is: the gate (gameSlice.ts:465) has
\* neither let an event in twice nor kept a new one out, and a snapshot that was
\* not restored had nothing new (gameSlice.ts:317). Excepted are numbers of
\* cards that nobody told it and the multiplier once bombs fell, see the README.
WebAgrees ==
  device = "web" /\ Quiet =>
    /\ view.phase = state /\ view.game = gameID
    /\ view.hand = hands[Me] /\ view.played = playedCards
    /\ view.landlord = LandlordSeat
    /\ \A s \in Seat \ view.unheard : view.counts[s] = Size(hands[s])
    /\ state = "Bidding" =>
         view.currentTurn = currentBidder /\ view.isGrab = (landlordCaller # NoSeat)
    /\ state = "Playing" =>
         /\ view.currentTurn = currentPlayer /\ view.bottom = bottomCards
         /\ view.mustPlay = MustPlay
         /\ MustPlay \/ /\ view.lastPlayed = lastPlayedHand
                        /\ view.lastPlayedBy = lastPlayerIdx
    /\ bombCount = 0 \/ state = "Ended" => view.multiplier = CurrentMultiplier

\* The watermark of a browser never moves back within a game, and never back to
\* a game it has left: a late event or snapshot of the past is not shown
\* (SendBuiltIfCurrentMember and gameSlice.ts:493).
WatermarkNeverGoesBack ==
  [][device = "web" =>
       /\ view'.game >= view.game
       /\ view'.game = view.game => /\ view'.version >= view.version
                                    /\ view'.turn >= view.turn]_vars

\* A terminal applies events that its snapshot already contains once more, and
\* still ends up with the game as it is: own hand, table, turn, and a keyboard
\* that sends a command exactly when it is the player's turn (keyboard.go:418).
\* Excepted is what a snapshot does not restore, until an event tells it: whose
\* turn it is to bid and the multiplier; and on the landlord's own screen the
\* cards of seats that have not played.
TerminalAgrees ==
  device = "terminal" /\ Quiet /\ state # "Ended" =>
    /\ view.phase = state /\ view.hand = hands[Me]
    /\ view.amLandlord = isLandlord[Me] /\ view.landlord = LandlordSeat
    /\ \A s \in Seat : (isLandlord[Me] => playedCards[s] # NoCards) =>
         view.counts[s] = Size(hands[s])
    /\ state = "Playing" =>
         /\ TerminalMayPlay(view, Me) <=> currentPlayer = Me
         /\ view.bottom = bottomCards /\ view.mustPlay = MustPlay
         /\ MustPlay \/ /\ view.lastPlayed = lastPlayedHand
                        /\ view.lastPlayedBy = lastPlayerIdx
    /\ state = "Bidding" /\ "bidTurn" \notin view.stale =>
         /\ TerminalMayBid(view, Me) <=> currentBidder = Me
         /\ view.isGrab = (landlordCaller # NoSeat)
    /\ "multiplier" \notin view.stale => view.multiplier = CurrentMultiplier

\* The card counter of a terminal that has heard the whole deal shows exactly
\* the cards its player cannot see: what the others still hold, and the bottom
\* while it lies there (card_counter.go:30, game.go:269).
CounterCountsUnseen ==
  device = "terminal" /\ Quiet /\ "counter" \notin view.stale =>
    view.counter = Minus(Deck, Plus(hands[Me],
                     Plus(playedCards[0], Plus(playedCards[1], playedCards[2]))))

\* What a terminal shows is the game, its counter of unseen cards included.
TerminalShowsGame == DeliveryTypeOK /\ TerminalAgrees /\ CounterCountsUnseen

\* A bot that thinks about the turn that is still on has the hand, the table
\* and the other hands' sizes as they are now, although it read them between
\* two checks without a lock of the session (bot.go:457): whatever it decides
\* is accepted, so that neither a refused move nor a missing fallback leaves
\* the turn to the timer (bot.go:516).
BotSeesItsTurn ==
  \A t \in thoughts : t.stage = "decided" /\ IsCurrentPlayTurn(Me, t.meta) =>
    LET ctx == t.ask
        landlord == CHOOSE s \in Seat : isLandlord[s]
    IN  /\ ctx.hand = hands[Me] /\ ctx.mustPlay = MustPlay
        /\ \A s \in Seat : LET pos == Position(s, landlord)
                           IN  /\ ctx.cardsLeft[pos] = Size(hands[s])
                               /\ ctx.playedByPos[pos] = playedCards[s]
        /\ Decisions(ctx) # {} /\ \A cards \in Decisions(ctx) : Accepts(cards)
=============================================================================
