------------------------------ MODULE BotSeat -------------------------------
(***************************************************************************)
(* A bot (internal/bot/bot.go): what it remembers of the game, updated in  *)
(* the order of dispatch, and the goroutine that every turn of its own     *)
(* starts, which reads that memory later. The engine is arbitrary: the bot *)
(* checks its answer and falls back to the rules.                          *)
(*                                                                         *)
(* What only the engines read beyond that (the log of passes, the last     *)
(* bid, the play before the last) is left out.                             *)
(***************************************************************************)
EXTENDS GameEvents

\* BotClient after NewBotClient.
NewBot ==
  [game |-> 0, hand |-> NoCards, counts |-> [s \in Seat |-> 0],
   landlord |-> NoSeat, bottom |-> NoCards, lastPlay |-> NoCards,
   counter |-> Deck, playedByPos |-> [pos \in 0..2 |-> NoCards],
   attempted |-> {}]    \* turns of this game a goroutine has claimed

\* seatToDouZeroPos: the landlord, the seat after, the seat before.
Position(seat, landlord) == (seat + 3 - landlord) % 3

\* handleGameStart: everything of the last deal but the hand is forgotten.
BotGameStart(bot, meta) ==
  [NewBot EXCEPT !.game = meta.game, !.hand = bot.hand,
                 !.bottom = bot.bottom,
                 !.counts = [s \in Seat |-> HandSize]]

\* handleCardPlayed.
BotCardPlayed(bot, me, b) ==
  [bot EXCEPT
     !.counts[b.player] = b.cardsLeft,
     !.hand = IF b.player = me THEN Minus(@, b.cards) ELSE @,
     !.counter = Minus(@, b.cards),
     !.lastPlay = b.cards,
     !.playedByPos[Position(b.player, bot.landlord)] = Plus(@, b.cards)]

\* handleLandlord.
BotLandlord(bot, b) ==
  [bot EXCEPT !.landlord = b.player, !.bottom = b.bottom,
              !.counts[b.player] = @ + Size(b.bottom)]

\* SendMessage: what the bot in seat me takes in before the dispatch goes on.
BotSees(bot, me, e) ==
  CASE e.type = "GameStart"  -> BotGameStart(bot, e.meta)
    [] e.type = "DealCards"  -> [bot EXCEPT !.hand = e.body.cards]
    [] e.type = "Landlord"   -> BotLandlord(bot, e.body)
    [] e.type = "CardPlayed" -> BotCardPlayed(bot, me, e.body)
    [] e.type \in {"BidTurn", "BidResult", "PlayTurn", "PlayerPass",
                   "GameOver"} -> bot

\* The goroutine that SendMessage starts for a turn of seat me; the sleep of
\* a bid and of a play comes first.
Asked(me, e) ==
  IF e.type \in {"BidTurn", "PlayTurn"} /\ e.body.player = me
  THEN {[stage |-> e.type, meta |-> e.meta, ask |-> e.body]}
  ELSE {}

\* buildGameContext and buildNumCardsLeft: what the engine gets to see.
GameContext(bot, ask) ==
  [hand |-> bot.hand, mustPlay |-> ask.mustPlay,
   toBeat |-> bot.lastPlay,
   cardsLeft |-> [pos \in 0..2 |->
     bot.counts[(bot.landlord + pos) % 3]],
   playedByPos |-> bot.playedByPos, remaining |-> bot.counter]

\* ruleFallback.
RuleFallback(ctx) ==
  FindSmallestBeatingCards(ctx.hand, IF ctx.mustPlay THEN NoCards ELSE ctx.toBeat)

\* validatePlayDecision.
ValidDecision(ctx, cards) ==
  IF cards = NoCards THEN ~ctx.mustPlay
  ELSE /\ Contains(ctx.hand, cards)
       /\ ~IsEmpty(ParseHand(cards))
       /\ ctx.mustPlay \/ ctx.toBeat = NoCards \/ Beats(cards, ctx.toBeat)

\* validatedPlayDecision: an answer of the engine that is valid, or else the
\* fallback when that is.
Decisions(ctx) ==
  {cards \in SubHands(ctx.hand) \cup {NoCards, RuleFallback(ctx)} :
     ValidDecision(ctx, cards)}

\* IsCurrentPlayTurn.
IsCurrentPlayTurn(me, meta) ==
  /\ state = "Playing" /\ currentPlayer = me
  /\ gameID = meta.game /\ turnID = meta.turn
=============================================================================
