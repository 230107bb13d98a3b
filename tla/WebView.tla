------------------------------ MODULE WebView -------------------------------
(***************************************************************************)
(* The browser client's picture of the game (web/src/stores/slices/        *)
(* gameSlice.ts): a watermark decides which events and snapshots are new,  *)
(* and the reducer applies them.                                           *)
(*                                                                         *)
(* Labels, prompts, the countdown and the drawer are left out. The streams *)
(* it remembers are not limited (64 in the code).                          *)
(***************************************************************************)
EXTENDS GameEvents

\* The picture before the first game; game stands for the stream too.
NoWebGame ==
  [phase |-> "Waiting", game |-> 0, version |-> 0, turn |-> 0, seen |-> {},
   hand |-> NoCards, bottom |-> NoCards,
   counts |-> [s \in Seat |-> 0], landlord |-> {},
   currentTurn |-> NoSeat, isGrab |-> FALSE,
   mustPlay |-> FALSE,
   lastPlayed |-> NoCards, lastPlayedBy |-> NoSeat,
   multiplier |-> 1, played |-> [s \in Seat |-> NoCards],
   unheard |-> Seat]    \* seats whose number of cards it has yet to be told

\* eventWatermark.
Marked(view, meta) ==
  [view EXCEPT !.game = meta.game, !.version = meta.version,
               !.turn = meta.turn, !.seen = @ \cup {meta.game}]

\* gateGameStart: a stream starts once.
AcceptsGameStart(view, meta) ==
  meta.game # view.game /\ meta.game \notin view.seen

\* Fault: any version of the stream is taken.
AcceptsAnyOfStream(view, meta) == meta.game = view.game

\* gateEvent: only newer events of the current stream.
AcceptsEvent(view, meta) ==
  /\ view.game # 0 => meta.game = view.game
  /\ meta.version > view.version
  /\ meta.turn >= view.turn

\* reduceGameMessage for GameStart: the players come without numbers of cards,
\* which the codec makes zero.
WebGameStart(view, meta, b) ==
  Marked([NoWebGame EXCEPT !.phase = "Bidding", !.landlord = b.landlord,
                           !.seen = view.seen], meta)

\* reduceAcceptedGameMessage.
WebReduces(view, me, type, b) ==
  CASE type = "DealCards" ->
         [view EXCEPT !.hand = b.cards, !.bottom = b.bottom,
                      !.counts[me] = Size(b.cards), !.unheard = @ \ {me}]
    [] type = "BidTurn" ->
         [view EXCEPT !.phase = "Bidding", !.currentTurn = b.player,
                      !.isGrab = b.isGrab, !.multiplier = b.multiplier]
    [] type = "BidResult" -> [view EXCEPT !.multiplier = b.multiplier]
    [] type = "Landlord" ->
         LET hand == IF b.player = me THEN Plus(view.hand, b.bottom)
                     ELSE view.hand
         IN  [view EXCEPT !.landlord = {b.player}, !.bottom = b.bottom,
                          !.hand = hand, !.counts[me] = Size(hand),
                          !.unheard = (@ \cup {b.player}) \ {me},
                          !.multiplier = b.multiplier]
    [] type = "PlayTurn" ->
         [view EXCEPT !.phase = "Playing", !.currentTurn = b.player,
                      !.mustPlay = b.mustPlay]
    [] type = "CardPlayed" ->
         [view EXCEPT !.lastPlayed = b.cards, !.lastPlayedBy = b.player,
                      !.hand = IF b.player = me THEN Minus(@, b.cards) ELSE @,
                      !.counts[b.player] = b.cardsLeft,
                      !.unheard = @ \ {b.player},
                      !.played[b.player] = Plus(@, b.cards)]
    [] type = "PlayerPass" -> view
    [] type = "GameOver" ->
         [view EXCEPT !.phase = "Ended", !.currentTurn = NoSeat,
                      !.multiplier = b.multiplier]

\* What one event does to the picture of seat me.
WebSees(view, me, e) ==
  IF e.type = "GameStart"
  THEN IF AcceptsGameStart(view, e.meta) THEN WebGameStart(view, e.meta, e.body)
       ELSE view
  ELSE IF AcceptsEvent(view, e.meta)
       THEN WebReduces(Marked(view, e.meta), me, e.type, e.body)
       ELSE view

\* shouldRestoreSnapshot: no stream left behind, no version already reached.
ShouldRestoreSnapshot(view, dto) ==
  IF dto.game = view.game THEN dto.version > view.version
  ELSE dto.game \notin view.seen

\* restoreGameSnapshot.
WebRestores(view, dto) ==
  IF ~ShouldRestoreSnapshot(view, dto) THEN view
  ELSE [phase |-> dto.phase, game |-> dto.game, version |-> dto.version,
        turn |-> dto.turn, seen |-> view.seen \cup {dto.game},
        hand |-> dto.hand, bottom |-> dto.bottom, counts |-> dto.counts,
        landlord |-> dto.landlord, currentTurn |-> dto.currentTurn,
        isGrab |-> dto.isGrab,
        mustPlay |-> dto.mustPlay,
        lastPlayed |-> dto.lastPlayed, lastPlayedBy |-> dto.lastPlayedBy,
        multiplier |-> dto.multiplier, played |-> dto.played,
        unheard |-> {}]
=============================================================================
