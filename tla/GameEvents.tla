----------------------------- MODULE GameEvents -----------------------------
(***************************************************************************)
(* What a game tells its players: the events that each command of          *)
(* LandlordGame queues under the session's lock, with the watermark that   *)
(* stamps them (session/events.go), and the snapshot that a reconnecting   *)
(* player gets instead (session/dto.go).                                   *)
(*                                                                         *)
(* A command holds actionMu until its events are dispatched, so the next   *)
(* one finds the queue empty; reconnects are held up by nothing and may    *)
(* come between two events.                                                *)
(***************************************************************************)
EXTENDS LandlordGame, Sequences

VARIABLES
  snapshotVersion,     \* the watermark, one more for every event and change
  pendingDeliveries    \* the events of the last command still to dispatch

eventVars == << snapshotVersion, pendingDeliveries >>

Meta(game, version, turn) ==
  [game |-> game, version |-> version, turn |-> turn]

\* An event for one seat, or for the whole room when to is NoSeat.
Event(type, to, meta, body) ==
  [type |-> type, to |-> to, meta |-> meta, body |-> body]

\* Stamps of the committed change: version v, before or after the turn moved.
Before(v) == Meta(gameID', v, turnID)
After(v)  == Meta(gameID', v, turnID')

-----------------------------------------------------------------------------
(* The events of each part of a command, v the watermark before them       *)

\* deal: GameStart resets every client, then each seat gets its own hand; the
\* three hands share one version. The players of GameStart are filled in when
\* it is dispatched.
DealEvents(v) ==
  LET dealt(s) == IF roomLandlord' = s THEN Minus(hands'[s], bottomCards')
                  ELSE hands'[s]
      hand(s)  == Event("DealCards", s, Before(v + 2),
                        [cards |-> dealt(s), bottom |-> NoCards])
  IN  << Event("GameStart", NoSeat, Before(v + 1), << >>),
         hand(0), hand(1), hand(2) >>

\* notifyBidTurn.
BidTurnEvents(v) ==
  << Event("BidTurn", NoSeat, After(v + 1),
           [player |-> currentBidder', isGrab |-> landlordCaller' # NoSeat,
            multiplier |-> bidMultiplier']) >>

\* notifyPlayTurn; whether the seat can beat the table is left out, it computes
\* it as the snapshot does.
PlayTurnEvents(v) ==
  << Event("PlayTurn", NoSeat, After(v + 1),
           [player |-> currentPlayer', mustPlay |-> MustPlay']) >>

\* setLandlord: the room hears of the landlord, the landlord gets the hand
\* with the bottom cards, and the first turn begins.
LandlordEvents(v) ==
  << Event("Landlord", NoSeat, Before(v + 1),
           [player |-> roomLandlord', bottom |-> bottomCards',
            multiplier |-> bidMultiplier']),
     Event("DealCards", roomLandlord', Before(v + 2),
           [cards |-> hands'[roomLandlord'], bottom |-> bottomCards']) >>
  \o PlayTurnEvents(v + 2)

\* What follows a decision of the auction: the next bidder or the first turn.
AskEvents(v) ==
  IF state' = "Playing" THEN LandlordEvents(v) ELSE BidTurnEvents(v)

\* The events of handleBidAt; a redeal goes on in a new stream.
BidEvents(bid) ==
  LET v == snapshotVersion
      said == Event("BidResult", NoSeat, Meta(gameID, v + 1, turnID),
                [player |-> currentBidder, bid |-> bid,
                 isGrab |-> landlordCaller # NoSeat,
                 multiplier |-> IF gameID' = gameID THEN bidMultiplier'
                                ELSE bidMultiplier])
  IN  << said >> \o IF gameID' = gameID THEN AskEvents(v + 1)
                    ELSE DealEvents(v + 1) \o AskEvents(v + 3)

CardPlayed(v, cards) ==
  Event("CardPlayed", NoSeat, Before(v),
        [player |-> currentPlayer, cards |-> cards,
         cardsLeft |-> Size(hands'[currentPlayer]),
         left |-> hands'[currentPlayer],
         doubles |-> bombCount' > bombCount])

GameOver(v) ==
  Event("GameOver", NoSeat, Before(v), [multiplier |-> settlement'.multiplier])

\* Fault: the next seat is asked before the cards are shown.
PlayEventsAskingFirst(cards) ==
  LET v == snapshotVersion
  IN  IF state' = "Ended"
      THEN << CardPlayed(v + 1, cards), GameOver(v + 2) >>
      ELSE PlayTurnEvents(v) \o << CardPlayed(v + 2, cards) >>

\* The events of handlePlayCardsAt.
PlayEvents(cards) ==
  LET v == snapshotVersion
  IN  << CardPlayed(v + 1, cards) >>
      \o IF state' = "Ended" THEN << GameOver(v + 2) >>
         ELSE PlayTurnEvents(v + 1)

\* The events of handlePassAt.
PassEvents ==
  << Event("PlayerPass", NoSeat, Before(snapshotVersion + 1),
           [player |-> currentPlayer]) >>
  \o PlayTurnEvents(snapshotVersion + 1)

-----------------------------------------------------------------------------
(* Commands                                                                *)

\* takePendingWorkLocked; endGame moves the watermark once more.
Queue(events) ==
  /\ pendingDeliveries = << >>
  /\ pendingDeliveries' = events
  /\ snapshotVersion' = events[Len(events)].meta.version
                          + (IF state' = "Ended" THEN 1 ELSE 0)

StartGame ==
  Start /\ Queue(DealEvents(snapshotVersion) \o AskEvents(snapshotVersion + 2))
HandleBid(bid)    == Bid(bid) /\ Queue(BidEvents(bid))
HandlePlay(cards) == PlayCards(cards) /\ Queue(PlayEvents(cards))
HandlePass        == Pass /\ Queue(PassEvents)

\* The end of dispatchPendingWork: the room is reopened once the last client
\* has been told.
Reopen ==
  pendingDeliveries = << >> /\ ResetAfterGame /\ UNCHANGED eventVars

\* The seat's move, whoever makes it: the player, a timer or a bot.
SeatMoves(cards) ==
  \/ cards = NoCards /\ HandlePass
  \/ cards # NoCards /\ HandlePlay(cards)

GameCommand ==
  \/ StartGame
  \/ \E bid \in BOOLEAN : HandleBid(bid)
  \/ \E cards \in SubHands(hands[currentPlayer]) : SeatMoves(cards)
  \/ Reopen

-----------------------------------------------------------------------------
(* The snapshot                                                            *)

CurrentMultiplier ==
  IF state = "Ended" THEN settlement.multiplier
  ELSE bidMultiplier * 2 ^ bombCount

\* Fault: the snapshot is stamped with the watermark of the last event sent.
WatermarkSent ==
  IF pendingDeliveries = << >> THEN snapshotVersion
  ELSE pendingDeliveries[1].meta.version - 1

\* The watermark of the state that the snapshot shows.
Watermark == snapshotVersion

LandlordSeat == {s \in Seat : isLandlord[s]}

\* BuildGameStateDTO: the committed state as seat me may see it.
GameStateDTO(me) ==
  [phase     |-> state,
   game      |-> gameID, version |-> Watermark, turn |-> turnID,
   hand      |-> hands[me],
   counts    |-> [s \in Seat |-> Size(hands[s])],
   landlord  |-> LandlordSeat,
   bottom    |-> IF state = "Bidding" THEN NoCards ELSE bottomCards,
   currentTurn |-> CASE state = "Bidding" -> currentBidder
                     [] state = "Playing" -> currentPlayer
                     [] state = "Ended"   -> NoSeat,
   isGrab    |-> state = "Bidding" /\ landlordCaller # NoSeat,
   mustPlay  |-> state = "Playing" /\ MustPlay,
   lastPlayed   |-> lastPlayedHand,
   lastPlayedBy |-> IF lastPlayedHand = NoCards THEN NoSeat ELSE lastPlayerIdx,
   multiplier   |-> CurrentMultiplier,
   played    |-> playedCards]
=============================================================================
