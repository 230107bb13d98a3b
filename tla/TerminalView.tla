---------------------------- MODULE TerminalView ----------------------------
(***************************************************************************)
(* The terminal client's picture of the game: what each event does to it   *)
(* (internal/ui/handler/game.go), what a reconnect snapshot restores, and  *)
(* when the keyboard lets its player act. It keeps no watermark: an event  *)
(* that the snapshot already contains is applied again.                    *)
(*                                                                         *)
(* Sounds, prompts and the countdown are left out.                         *)
(***************************************************************************)
EXTENDS GameEvents

LandlordSize == Size(Deck) - 2 * HandSize    \* 20 in the code

\* The picture before the first game.
NoTerminalGame ==
  [phase |-> "Waiting", hand |-> NoCards, bottom |-> NoCards,
   counts |-> [s \in Seat |-> 0], landlord |-> {}, amLandlord |-> FALSE,
   currentTurn |-> NoSeat, bidTurn |-> NoSeat, isGrab |-> FALSE,
   mustPlay |-> FALSE,
   lastPlayed |-> NoCards, lastPlayedBy |-> NoSeat,
   multiplier |-> 0, counter |-> Deck,
   stale |-> {}]    \* what the last snapshot left as it was

\* CardCounter.DeductCards: a rank with none left stays at none.
DeductCards(counter, cards) ==
  [r \in Rank |-> IF counter[r] > cards[r] THEN counter[r] - cards[r] ELSE 0]

\* RemoveCards takes away the very cards that were played, so that it does
\* nothing to a hand they have already left: what stays is what the player
\* still holds.
RemoveCards(hand, left) == [r \in Rank |-> Min({hand[r], left[r]})]

\* Fault: the number of cards left is counted down locally.
CardPlayedCountingDown(view, me, b) ==
  [view EXCEPT
     !.lastPlayed = b.cards, !.lastPlayedBy = b.player,
     !.multiplier = IF b.doubles THEN 2 * Max({@, 1}) ELSE @,
     !.counts[b.player] = @ - Size(b.cards),
     !.hand = IF b.player = me THEN RemoveCards(@, b.left) ELSE @,
     !.counter = IF b.player = me THEN @ ELSE DeductCards(@, b.cards)]

\* handleMsgCardPlayed: own cards leave the hand, others' the counter.
TerminalCardPlayed(view, me, b) ==
  [view EXCEPT
     !.lastPlayed = b.cards, !.lastPlayedBy = b.player,
     !.multiplier = IF b.doubles THEN 2 * Max({@, 1}) ELSE @,
     !.counts[b.player] = b.cardsLeft,
     !.hand = IF b.player = me THEN RemoveCards(@, b.left) ELSE @,
     !.counter = IF b.player = me THEN @ ELSE DeductCards(@, b.cards)]

\* handleMsgDealCards: everybody is shown with a dealt hand, also when the
\* landlord's hand with the bottom cards arrives.
TerminalDealCards(view, b) ==
  [view EXCEPT
     !.hand = b.cards,
     !.bottom = IF b.bottom = NoCards THEN @ ELSE b.bottom,
     !.counts = [s \in Seat |-> HandSize],
     !.counter = DeductCards(Deck, b.cards),
     !.lastPlayed = NoCards, !.lastPlayedBy = NoSeat,
     !.stale = @ \ {"counter"}]

\* handleMsgLandlord; the hand follows with DealCards.
TerminalLandlord(view, me, b) ==
  [view EXCEPT
     !.bottom = b.bottom, !.landlord = {b.player},
     !.counts[b.player] = LandlordSize,
     !.amLandlord = @ \/ b.player = me,
     !.counter = IF b.player = me THEN DeductCards(@, b.bottom) ELSE @,
     !.isGrab = FALSE, !.multiplier = b.multiplier,
     !.stale = @ \ {"multiplier"}]

\* What one event does to the picture of seat me.
TerminalSees(view, me, e) ==
  LET b == e.body
  IN  CASE e.type = "GameStart" ->
             [view EXCEPT !.counts = [s \in Seat |-> 0],
                          !.landlord = b.landlord, !.amLandlord = FALSE]
        [] e.type = "DealCards" -> TerminalDealCards(view, b)
        [] e.type = "BidTurn" ->
             [view EXCEPT !.phase = "Bidding", !.bidTurn = b.player,
                          !.isGrab = b.isGrab, !.multiplier = b.multiplier,
                          !.stale = @ \ {"bidTurn", "multiplier"}]
        [] e.type = "BidResult" ->
             [view EXCEPT !.multiplier = b.multiplier,
                          !.stale = @ \ {"multiplier"}]
        [] e.type = "Landlord" -> TerminalLandlord(view, me, b)
        [] e.type = "PlayTurn" ->
             [view EXCEPT !.phase = "Playing", !.currentTurn = b.player,
                          !.mustPlay = b.mustPlay]
        [] e.type = "CardPlayed" -> TerminalCardPlayed(view, me, b)
        [] e.type \in {"PlayerPass", "GameOver"} -> view

Unrestored == {"bidTurn", "multiplier", "counter"}

\* handleMsgReconnected and restoreGameState: the snapshot has no history, so
\* the counter is rebuilt from what is visible; multiplier, grab phase and
\* whose turn it is to bid are not restored.
TerminalRestores(view, me, dto) ==
  LET amLandlord == me \in dto.landlord
      bottom == IF dto.phase = "Playing" THEN dto.bottom ELSE NoCards
      own    == DeductCards(Deck, dto.hand)
      seen   == IF amLandlord THEN DeductCards(own, bottom) ELSE own
  IN  [view EXCEPT
         !.phase = IF dto.phase = "Bidding" THEN "Bidding" ELSE "Playing",
         !.hand = dto.hand, !.counts = dto.counts, !.landlord = dto.landlord,
         !.amLandlord = amLandlord, !.bottom = bottom,
         !.currentTurn = dto.currentTurn, !.mustPlay = dto.mustPlay,
         !.lastPlayed = dto.lastPlayed, !.lastPlayedBy = dto.lastPlayedBy,
         !.counter = IF dto.lastPlayedBy = me THEN seen
                     ELSE DeductCards(seen, dto.lastPlayed),
         !.stale = Unrestored]

\* handleBiddingEnter and handlePlayingEnter: when a typed command is sent.
TerminalMayBid(view, me)  == view.phase = "Bidding" /\ view.bidTurn = me
TerminalMayPlay(view, me) == view.phase = "Playing" /\ view.currentTurn = me
=============================================================================
