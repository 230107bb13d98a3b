--------------------------- MODULE DeliveryProofs ---------------------------
(***************************************************************************)
(* For every deck, deal, bound and seat, wherever the connection breaks    *)
(* and whatever was in the queue: the watermark of a browser never goes    *)
(* back, and once nothing is under way the browser shows the game; a bot   *)
(* that thinks about its turn knows the game, and nobody plays another one *)
(* than the session's.                                                     *)
(***************************************************************************)
EXTENDS Delivery, GameProofs, SequenceTheorems, FunctionTheorems

EventTypes ==
  {"GameStart", "DealCards", "BidTurn", "BidResult", "Landlord", "PlayTurn",
   "CardPlayed", "PlayerPass", "GameOver"}

\* The stamp of an event: of a game and a turn that the session has reached.
\* A game is started only while it is the session's game.
Stamped(e, game, turn) ==
  /\ DOMAIN e = {"type", "to", "meta", "body"} /\ e.type \in EventTypes
  /\ e.meta \in [game : Nat, version : Nat, turn : Nat]
  /\ e.meta.game <= game /\ e.meta.turn <= turn
  /\ e.type = "GameStart" => e.meta.game = game

AllStamped(events, game, turn) ==
  \E S : events \in Seq(S) /\ \A e \in S : Stamped(e, game, turn)

-----------------------------------------------------------------------------
(* Lists of events.                                                        *)

LEMMA EventStamped ==
  ASSUME NEW type \in EventTypes, NEW to, NEW body,
         NEW game \in Nat, NEW version \in Nat, NEW turn \in Nat,
         NEW g \in Nat, NEW t \in Nat, game <= g, turn <= t, type = "GameStart" => game = g
  PROVE  Stamped(Event(type, to, Meta(game, version, turn), body), g, t)
BY DEF Event, Meta, Stamped

LEMMA OneStamped ==
  ASSUME NEW e, NEW g, NEW t, Stamped(e, g, t)
  PROVE  AllStamped(<< e >>, g, t) /\ Len(<< e >>) = 1
<1> DEFINE list == << e >>
           all == {e}
<1>1. list \in Seq(all) /\ Len(list) = 1
  OBVIOUS
<1>2. \A x \in all : Stamped(x, g, t)
  OBVIOUS
<1> HIDE DEF list, all
<1>3. AllStamped(list, g, t)
  BY <1>1, <1>2, Zenon DEF AllStamped
<1> QED BY <1>1, <1>3 DEF list

LEMMA JoinedStamped ==
  ASSUME NEW s, NEW u, NEW g, NEW t, AllStamped(s, g, t), AllStamped(u, g, t)
  PROVE  /\ AllStamped(s \o u, g, t)
         /\ Len(s) \in Nat /\ Len(u) \in Nat /\ Len(s \o u) = Len(s) + Len(u)
<1>1. PICK S : s \in Seq(S) /\ \A e \in S : Stamped(e, g, t)
  BY DEF AllStamped
<1>2. PICK U : u \in Seq(U) /\ \A e \in U : Stamped(e, g, t)
  BY DEF AllStamped
<1>3. s \in Seq(S \cup U) /\ u \in Seq(S \cup U)
  BY <1>1, <1>2, SeqMonotonic, Zenon
<1>4. s \o u \in Seq(S \cup U) /\ Len(s \o u) = Len(s) + Len(u)
  BY <1>3, ConcatProperties, Zenon
<1>5. Len(s) \in Nat /\ Len(u) \in Nat
  BY <1>3, LenProperties, Zenon
<1> QED BY <1>1, <1>2, <1>4, <1>5 DEF AllStamped

LEMMA LastStamped ==
  ASSUME NEW s, NEW g, NEW t, AllStamped(s, g, t), Len(s) # 0
  PROVE  Stamped(s[Len(s)], g, t)
<1>1. PICK S : s \in Seq(S) /\ \A e \in S : Stamped(e, g, t)
  BY DEF AllStamped
<1>2. Len(s) \in Nat
  BY <1>1, LenProperties, Zenon
<1>3. Len(s) \in 1 .. Len(s)
  BY <1>2
<1> QED BY <1>1, <1>3, ElementOfSeq

LEMMA FirstStamped ==
  ASSUME NEW s, NEW g, NEW t, AllStamped(s, g, t), s # << >>
  PROVE  Stamped(Head(s), g, t) /\ AllStamped(Tail(s), g, t)
<1>1. PICK S : s \in Seq(S) /\ \A e \in S : Stamped(e, g, t)
  BY DEF AllStamped
<1> QED BY <1>1, HeadTailProperties, Zenon DEF AllStamped

-----------------------------------------------------------------------------
(* What commands queue.                                                    *)

LEMMA TurnEventsStamped ==
  ASSUME NEW v \in Nat, gameID' \in Nat, turnID' \in Nat
  PROVE  /\ AllStamped(BidTurnEvents(v), gameID', turnID') /\ Len(BidTurnEvents(v)) = 1
         /\ AllStamped(PlayTurnEvents(v), gameID', turnID') /\ Len(PlayTurnEvents(v)) = 1
<1>1. v + 1 \in Nat
  OBVIOUS
<1>2. ASSUME NEW type \in {"BidTurn", "PlayTurn"}, NEW body
      PROVE  Stamped(Event(type, NoSeat, After(v + 1), body), gameID', turnID')
  BY <1>1, EventStamped DEF After, EventTypes
<1> QED BY <1>2, OneStamped DEF BidTurnEvents, PlayTurnEvents

LEMMA DealEventsStamped ==
  ASSUME NEW v \in Nat, gameID' \in Nat, turnID' \in Nat, turnID \in Nat, turnID <= turnID'
  PROVE  /\ AllStamped(DealEvents(v), gameID', turnID')
         /\ Len(DealEvents(v)) = 4
<1>1. ASSUME NEW type \in {"GameStart", "DealCards"}, NEW to, NEW body, NEW n \in {1, 2}
      PROVE  Stamped(Event(type, to, Before(v + n), body), gameID', turnID')
 <2>1. v + n \in Nat
   OBVIOUS
 <2> QED BY <2>1, EventStamped DEF Before, EventTypes
<1> DEFINE dealt(s) == IF roomLandlord' = s THEN Minus(hands'[s], bottomCards') ELSE hands'[s]
           hand(s) == Event("DealCards", s, Before(v + 2),
                            [cards |-> dealt(s), bottom |-> NoCards])
           first == Event("GameStart", NoSeat, Before(v + 1), << >>)
           all == {first, hand(0), hand(1), hand(2)}
<1>2. DealEvents(v) = << first, hand(0), hand(1), hand(2) >>
  BY DEF DealEvents
<1>3. \A e \in all : Stamped(e, gameID', turnID')
  BY <1>1
<1> HIDE DEF first, hand
<1>4. DealEvents(v) \in Seq(all) /\ Len(DealEvents(v)) = 4
  BY <1>2
<1> HIDE DEF all
<1> QED BY <1>3, <1>4, Zenon DEF AllStamped

LEMMA LandlordEventsStamped ==
  ASSUME NEW v \in Nat, gameID' \in Nat, turnID' \in Nat, turnID \in Nat, turnID <= turnID'
  PROVE  /\ AllStamped(LandlordEvents(v), gameID', turnID')
         /\ Len(LandlordEvents(v)) = 3
<1>1. ASSUME NEW type \in {"Landlord", "DealCards"}, NEW to, NEW body, NEW n \in {1, 2}
      PROVE  Stamped(Event(type, to, Before(v + n), body), gameID', turnID')
 <2>1. v + n \in Nat
   OBVIOUS
 <2> QED BY <2>1, EventStamped DEF Before, EventTypes
<1> DEFINE said == Event("Landlord", NoSeat, Before(v + 1),
                     [player |-> roomLandlord', bottom |-> bottomCards',
                      multiplier |-> bidMultiplier'])
           hand == Event("DealCards", roomLandlord', Before(v + 2),
                     [cards |-> hands'[roomLandlord'], bottom |-> bottomCards'])
           all == {said, hand}
<1>2. LandlordEvents(v) = << said, hand >> \o PlayTurnEvents(v + 2)
  BY DEF LandlordEvents
<1>3. \A e \in all : Stamped(e, gameID', turnID')
  BY <1>1
<1> HIDE DEF said, hand
<1>4. << said, hand >> \in Seq(all) /\ Len(<< said, hand >>) = 2
  OBVIOUS
<1> HIDE DEF all
<1>5. AllStamped(<< said, hand >>, gameID', turnID')
  BY <1>3, <1>4, Zenon DEF AllStamped
<1>6. v + 2 \in Nat
  OBVIOUS
<1>7. AllStamped(PlayTurnEvents(v + 2), gameID', turnID') /\ Len(PlayTurnEvents(v + 2)) = 1
  BY <1>6, TurnEventsStamped
<1>8. AllStamped(<< said, hand >> \o PlayTurnEvents(v + 2), gameID', turnID')
      /\ Len(<< said, hand >> \o PlayTurnEvents(v + 2)) = 2 + 1
  BY <1>4, <1>5, <1>7, JoinedStamped
<1> QED BY <1>2, <1>8

LEMMA AskEventsStamped ==
  ASSUME NEW v \in Nat, gameID' \in Nat, turnID' \in Nat, turnID \in Nat, turnID <= turnID'
  PROVE  AllStamped(AskEvents(v), gameID', turnID') /\ Len(AskEvents(v)) \in {1, 3}
BY TurnEventsStamped, LandlordEventsStamped DEF AskEvents

\* The game goes on: neither its number nor its turn goes back.
Advanced ==
  /\ gameID \in Nat /\ turnID \in Nat /\ gameID' \in Nat /\ turnID' \in Nat
  /\ gameID <= gameID' /\ turnID <= turnID'

LEMMA StartEventsStamped ==
  ASSUME NEW v \in Nat, Advanced
  PROVE  LET events == DealEvents(v) \o AskEvents(v + 2)
         IN  AllStamped(events, gameID', turnID') /\ Len(events) # 0
<1>1. v + 2 \in Nat
  OBVIOUS
<1>2. /\ AllStamped(DealEvents(v), gameID', turnID') /\ Len(DealEvents(v)) = 4
      /\ AllStamped(AskEvents(v + 2), gameID', turnID') /\ Len(AskEvents(v + 2)) \in {1, 3}
  BY <1>1, DealEventsStamped, AskEventsStamped DEF Advanced
<1>3. /\ AllStamped(DealEvents(v) \o AskEvents(v + 2), gameID', turnID')
      /\ Len(DealEvents(v) \o AskEvents(v + 2)) = Len(DealEvents(v)) + Len(AskEvents(v + 2))
  BY <1>2, JoinedStamped
<1> QED BY <1>2, <1>3

LEMMA BidEventsStamped ==
  ASSUME Advanced, snapshotVersion \in Nat, NEW bid
  PROVE  AllStamped(BidEvents(bid), gameID', turnID') /\ Len(BidEvents(bid)) # 0
<1> DEFINE v == snapshotVersion
           said == Event("BidResult", NoSeat, Meta(gameID, v + 1, turnID),
                     [player |-> currentBidder, bid |-> bid,
                      isGrab |-> landlordCaller # NoSeat,
                      multiplier |-> IF gameID' = gameID THEN bidMultiplier'
                                     ELSE bidMultiplier])
           rest == IF gameID' = gameID THEN AskEvents(v + 1)
                   ELSE DealEvents(v + 1) \o AskEvents(v + 3)
<1>1. BidEvents(bid) = << said >> \o rest
  BY DEF BidEvents
<1>2. v + 1 \in Nat /\ v + 3 = (v + 1) + 2
  OBVIOUS
<1>3. Stamped(said, gameID', turnID')
  BY <1>2, EventStamped DEF Advanced, EventTypes
<1>4. AllStamped(rest, gameID', turnID') /\ Len(rest) # 0
 <2>1. AllStamped(AskEvents(v + 1), gameID', turnID') /\ Len(AskEvents(v + 1)) \in {1, 3}
   BY <1>2, AskEventsStamped DEF Advanced
 <2>2. /\ AllStamped(DealEvents(v + 1) \o AskEvents((v + 1) + 2), gameID', turnID')
       /\ Len(DealEvents(v + 1) \o AskEvents((v + 1) + 2)) # 0
   BY <1>2, StartEventsStamped
 <2>3. DealEvents(v + 1) \o AskEvents((v + 1) + 2) = DealEvents(v + 1) \o AskEvents(v + 3)
   BY <1>2
 <2>4. CASE gameID' = gameID
   BY <2>1, <2>4
 <2>5. CASE gameID' # gameID
   BY <2>2, <2>3, <2>5
 <2> QED BY <2>4, <2>5
<1> HIDE DEF said, rest
<1>5. AllStamped(<< said >>, gameID', turnID') /\ Len(<< said >>) = 1
  BY <1>3, OneStamped
<1>6. /\ AllStamped(<< said >> \o rest, gameID', turnID') /\ Len(rest) \in Nat
      /\ Len(<< said >> \o rest) = Len(<< said >>) + Len(rest)
  BY <1>4, <1>5, JoinedStamped
<1> QED BY <1>1, <1>5, <1>6

LEMMA MoveEventsStamped ==
  ASSUME Advanced, snapshotVersion \in Nat, NEW cards
  PROVE  /\ AllStamped(PlayEvents(cards), gameID', turnID') /\ Len(PlayEvents(cards)) # 0
         /\ AllStamped(PassEvents, gameID', turnID') /\ Len(PassEvents) # 0
<1> DEFINE v == snapshotVersion
           passed == Event("PlayerPass", NoSeat, Before(v + 1), [player |-> currentPlayer])
           rest == IF state' = "Ended" THEN << GameOver(v + 2) >> ELSE PlayTurnEvents(v + 1)
<1>1. v + 1 \in Nat /\ v + 2 \in Nat
  OBVIOUS
<1>2. /\ Stamped(CardPlayed(v + 1, cards), gameID', turnID')
      /\ Stamped(passed, gameID', turnID') /\ Stamped(GameOver(v + 2), gameID', turnID')
  BY <1>1, EventStamped DEF Advanced, EventTypes, CardPlayed, GameOver, Before
<1>3. PlayEvents(cards) = << CardPlayed(v + 1, cards) >> \o rest
  BY DEF PlayEvents
<1>4. PassEvents = << passed >> \o PlayTurnEvents(v + 1)
  BY DEF PassEvents
<1> HIDE DEF passed
<1>5. AllStamped(PlayTurnEvents(v + 1), gameID', turnID') /\ Len(PlayTurnEvents(v + 1)) = 1
  BY <1>1, TurnEventsStamped DEF Advanced
<1>6. AllStamped(rest, gameID', turnID') /\ Len(rest) = 1
  BY <1>2, <1>5, OneStamped
<1> HIDE DEF rest
<1>7. /\ AllStamped(<< CardPlayed(v + 1, cards) >>, gameID', turnID')
      /\ Len(<< CardPlayed(v + 1, cards) >>) = 1
      /\ AllStamped(<< passed >>, gameID', turnID') /\ Len(<< passed >>) = 1
  BY <1>2, OneStamped
<1>8. /\ AllStamped(<< CardPlayed(v + 1, cards) >> \o rest, gameID', turnID')
      /\ Len(<< CardPlayed(v + 1, cards) >> \o rest) = 1 + 1
  BY <1>6, <1>7, JoinedStamped
<1>9. /\ AllStamped(<< passed >> \o PlayTurnEvents(v + 1), gameID', turnID')
      /\ Len(<< passed >> \o PlayTurnEvents(v + 1)) = 1 + 1
  BY <1>5, <1>7, JoinedStamped
<1> QED BY <1>3, <1>4, <1>8, <1>9

-----------------------------------------------------------------------------
(* Commands.                                                               *)

LEMMA DealAdvances ==
  ASSUME gameID \in Nat, turnID \in Nat, NEW d, DealNewRound(d), turnID' = turnID + 1
  PROVE  Advanced
BY DEF DealNewRound, Advanced

LEMMA BidAdvances ==
  ASSUME gameID \in Nat, turnID \in Nat, NEW bid \in BOOLEAN, Bid(bid)
  PROVE  Advanced
<1>1. CASE Grab(bid)
  BY <1>1 DEF Grab, SetLandlord, AskToBid, Advanced
<1>2. CASE Call
  BY <1>2 DEF Call, AskToBid, Advanced
<1>3. CASE NoCall
 <2>1. CASE Redeal
   BY <2>1, DealAdvances DEF Redeal, StartBiddingRound, SetLandlord
 <2>2. CASE \E seat : AskToBid(seat)
   BY <2>2 DEF AskToBid, Advanced
 <2> QED BY <1>3, <2>1, <2>2 DEF NoCall
<1> QED BY <1>1, <1>2, <1>3 DEF Bid

LEMMA MovesAdvance ==
  ASSUME gameID \in Nat, turnID \in Nat, NEW cards,
         PlayCards(cards) \/ Pass \/ ResetAfterGame
  PROVE  Advanced
<1>1. CASE PlayCards(cards)
 <2>1. UNCHANGED gameID /\ (turnID' = turnID \/ turnID' = turnID + 1)
   BY <1>1 DEF PlayCards, EndGame, AskToPlay
 <2> QED BY <2>1 DEF Advanced
<1>2. CASE Pass
  BY <1>2 DEF Pass, AskToPlay, Advanced
<1>3. CASE ResetAfterGame
  BY <1>3 DEF ResetAfterGame, Advanced
<1> QED BY <1>1, <1>2, <1>3

LEMMA StartAdvances ==
  ASSUME gameID \in Nat, turnID \in Nat, Start
  PROVE  Advanced
BY DealAdvances DEF Start, StartBiddingRound

\* The queue and the stamps that order it.
QueueInv ==
  /\ gameID \in Nat /\ turnID \in Nat /\ snapshotVersion \in Nat
  /\ AllStamped(pendingDeliveries, gameID, turnID)

LEMMA QueueKept ==
  ASSUME QueueInv, Advanced, NEW events, Queue(events),
         AllStamped(events, gameID', turnID'), Len(events) # 0
  PROVE  QueueInv'
<1>1. events[Len(events)].meta.version \in Nat
  BY LastStamped DEF Stamped
<1>2. snapshotVersion' \in Nat
  BY <1>1 DEF Queue
<1>3. AllStamped(pendingDeliveries', gameID', turnID')
  BY DEF Queue
<1>4. AllStamped(pendingDeliveries, gameID, turnID)'
  BY <1>3 DEF AllStamped, Stamped
<1> QED BY <1>2, <1>4 DEF QueueInv, Advanced

LEMMA MoveKeepsQueue ==
  ASSUME QueueInv, NEW cards, SeatMoves(cards)
  PROVE  QueueInv' /\ Advanced
<1>1. CASE HandlePlay(cards)
 <2>1. Advanced
   BY <1>1, MovesAdvance DEF QueueInv, HandlePlay
 <2> QED BY <1>1, <2>1, MoveEventsStamped, QueueKept DEF QueueInv, HandlePlay
<1>2. CASE HandlePass
 <2>1. Advanced
   BY <1>2, MovesAdvance DEF QueueInv, HandlePass
 <2> QED BY <1>2, <2>1, MoveEventsStamped, QueueKept DEF QueueInv, HandlePass
<1> QED BY <1>1, <1>2 DEF SeatMoves

LEMMA BidKeepsQueue ==
  ASSUME QueueInv, NEW bid \in BOOLEAN, HandleBid(bid)
  PROVE  QueueInv' /\ Advanced
<1>1. Advanced
  BY BidAdvances DEF QueueInv, HandleBid
<1> QED BY <1>1, BidEventsStamped, QueueKept DEF QueueInv, HandleBid

LEMMA CommandKeepsQueue ==
  ASSUME QueueInv, GameCommand
  PROVE  QueueInv' /\ Advanced
<1>1. CASE StartGame
 <2>1. Advanced
   BY <1>1, StartAdvances DEF QueueInv, StartGame
 <2> QED BY <1>1, <2>1, StartEventsStamped, QueueKept DEF QueueInv, StartGame
<1>2. CASE Reopen
 <2>1. Advanced
   BY <1>2, MovesAdvance DEF QueueInv, Reopen
 <2>2. UNCHANGED << gameID, turnID, snapshotVersion, pendingDeliveries >>
   BY <1>2 DEF Reopen, ResetAfterGame, eventVars
 <2> QED BY <2>1, <2>2 DEF QueueInv, AllStamped, Stamped
<1> QED BY <1>1, <1>2, BidKeepsQueue, MoveKeepsQueue DEF GameCommand

-----------------------------------------------------------------------------
(* The browser.                                                            *)

Watermarks == {"game", "version", "turn", "seen"}

\* A picture that has its watermark, which the session has reached.
MarkedUpTo(v, game, turn) ==
  /\ Watermarks \subseteq DOMAIN v
  /\ v.game \in Nat /\ v.version \in Nat /\ v.turn \in Nat
  /\ v.game <= game /\ v.turn <= turn

\* What the watermark may do.
Forward(v, w) ==
  /\ w.game >= v.game
  /\ w.game = v.game => w.version >= v.version /\ w.turn >= v.turn

SameWatermark(v, w) ==
  /\ Watermarks \subseteq DOMAIN w
  /\ w.game = v.game /\ w.version = v.version /\ w.turn = v.turn

LEMMA ReducesKeepsWatermark ==
  ASSUME NEW v, Watermarks \subseteq DOMAIN v, NEW me, NEW b,
         NEW type \in EventTypes \ {"GameStart"}
  PROVE  SameWatermark(v, WebReduces(v, me, type, b))
<1> USE DEF SameWatermark, Watermarks
<1>1. CASE type = "DealCards"
  BY <1>1 DEF WebReduces
<1>2. CASE type = "BidTurn"
  BY <1>2 DEF WebReduces
<1>3. CASE type = "BidResult"
  BY <1>3 DEF WebReduces
<1>4. CASE type = "Landlord"
  BY <1>4 DEF WebReduces
<1>5. CASE type = "PlayTurn"
  BY <1>5 DEF WebReduces
<1>6. CASE type = "CardPlayed"
  BY <1>6 DEF WebReduces
<1>7. CASE type = "PlayerPass"
  BY <1>7 DEF WebReduces
<1>8. CASE type = "GameOver"
  BY <1>8 DEF WebReduces
<1> QED BY <1>1, <1>2, <1>3, <1>4, <1>5, <1>6, <1>7, <1>8 DEF EventTypes

LEMMA SeesForward ==
  ASSUME NEW v, NEW g \in Nat, NEW t \in Nat, MarkedUpTo(v, g, t), NEW me,
         NEW e, Stamped(e, g, t)
  PROVE  MarkedUpTo(WebSees(v, me, e), g, t) /\ Forward(v, WebSees(v, me, e))
<1>1. CASE WebSees(v, me, e) = v
  BY <1>1 DEF MarkedUpTo, Forward
<1>2. CASE e.type = "GameStart" /\ AcceptsGameStart(v, e.meta)
 <2> DEFINE w == WebGameStart(v, e.meta, e.body)
 <2>1. /\ Watermarks \subseteq DOMAIN w
       /\ w.game = e.meta.game /\ w.version = e.meta.version /\ w.turn = e.meta.turn
   BY DEF WebGameStart, Marked, NoWebGame, Watermarks
 <2>2. e.meta.game > v.game
   BY <1>2 DEF AcceptsGameStart, MarkedUpTo, Stamped
 <2> HIDE DEF w
 <2>3. MarkedUpTo(w, g, t) /\ Forward(v, w)
   BY <2>1, <2>2 DEF MarkedUpTo, Forward, Stamped
 <2> QED BY <1>2, <2>3 DEF WebSees, w
<1>3. CASE e.type # "GameStart" /\ AcceptsEvent(v, e.meta)
 <2> DEFINE u == Marked(v, e.meta)
            w == WebReduces(u, me, e.type, e.body)
 <2>1. /\ Watermarks \subseteq DOMAIN u
       /\ u.game = e.meta.game /\ u.version = e.meta.version /\ u.turn = e.meta.turn
   BY DEF MarkedUpTo, Marked, Watermarks
 <2>2. /\ e.meta.game >= v.game
       /\ e.meta.version > v.version /\ e.meta.turn >= v.turn
   BY <1>3 DEF AcceptsEvent, MarkedUpTo, Stamped
 <2> HIDE DEF u
 <2>3. SameWatermark(u, w)
   BY <1>3, <2>1, ReducesKeepsWatermark DEF Stamped
 <2> HIDE DEF w
 <2>4. MarkedUpTo(w, g, t) /\ Forward(v, w)
   BY <2>1, <2>2, <2>3 DEF MarkedUpTo, Forward, SameWatermark, Stamped
 <2> QED BY <1>3, <2>4 DEF WebSees, u, w
<1> QED BY <1>1, <1>2, <1>3 DEF WebSees

LEMMA BuiltStamped ==
  ASSUME NEW e, NEW g, NEW t, Stamped(e, g, t)
  PROVE  Stamped(Built(e), g, t)
BY DEF Built, Stamped

LEMMA RestoresForward ==
  ASSUME NEW v, QueueInv, MarkedUpTo(v, gameID, turnID), NEW me
  PROVE  /\ MarkedUpTo(WebRestores(v, GameStateDTO(me)), gameID, turnID)
         /\ Forward(v, WebRestores(v, GameStateDTO(me)))
<1> DEFINE dto == GameStateDTO(me)
           w == WebRestores(v, dto)
<1>1. dto.game = gameID /\ dto.version = snapshotVersion /\ dto.turn = turnID
  BY DEF GameStateDTO, Watermark
<1> HIDE DEF dto
<1>2. CASE ~ShouldRestoreSnapshot(v, dto)
 <2>1. w = v
   BY <1>2 DEF WebRestores
 <2> HIDE DEF w
 <2> QED BY <2>1 DEF MarkedUpTo, Forward, w, dto
<1>3. CASE ShouldRestoreSnapshot(v, dto)
 <2>1. /\ Watermarks \subseteq DOMAIN w
       /\ w.game = dto.game /\ w.version = dto.version /\ w.turn = dto.turn
   BY <1>3 DEF WebRestores, Watermarks
 <2>2. dto.game = v.game => dto.version > v.version
   BY <1>3 DEF ShouldRestoreSnapshot
 <2> HIDE DEF w
 <2>3. MarkedUpTo(w, gameID, turnID) /\ Forward(v, w)
   BY <1>1, <2>1, <2>2 DEF MarkedUpTo, Forward, QueueInv
 <2> QED BY <2>3 DEF w, dto
<1> QED BY <1>2, <1>3

-----------------------------------------------------------------------------
(* Every step.                                                             *)

WebInv == device = "web" => MarkedUpTo(view, gameID, turnID)

\* What a step does to the picture of a browser.
Goes == device' = device /\ (device = "web" => Forward(view, view'))

LEMMA StillMarked ==
  ASSUME NEW v, MarkedUpTo(v, gameID, turnID), Advanced
  PROVE  MarkedUpTo(v, gameID', turnID') /\ Forward(v, v)
BY DEF MarkedUpTo, Forward, Advanced

\* The picture is left alone while the game goes on.
LEMMA ViewKept ==
  ASSUME WebInv, Advanced, UNCHANGED << device, view >>
  PROVE  WebInv' /\ Goes
BY StillMarked DEF WebInv, Goes, MarkedUpTo

\* The picture is replaced while the game stays as it is.
LEMMA ViewReplaced ==
  ASSUME UNCHANGED << device, gameID, turnID >>,
         device = "web" => MarkedUpTo(view', gameID, turnID) /\ Forward(view, view')
  PROVE  WebInv' /\ Goes
BY DEF WebInv, Goes, MarkedUpTo

LEMMA ReceiveForward ==
  ASSUME QueueInv, WebInv, NEW e, Stamped(e, gameID, turnID), Receive(e)
  PROVE  device = "web" => MarkedUpTo(view', gameID, turnID) /\ Forward(view, view')
<1>1. device = "web" => view' = WebSees(view, Me, e)
  BY DEF Receive, Sees
<1> QED BY <1>1, SeesForward DEF QueueInv, WebInv

LEMMA QueueShrinks ==
  ASSUME QueueInv, pendingDeliveries # << >>, Done,
         UNCHANGED << gameID, turnID, snapshotVersion >>
  PROVE  QueueInv'
<1>1. AllStamped(pendingDeliveries', gameID', turnID')
  BY FirstStamped DEF QueueInv, Done
<1>2. AllStamped(pendingDeliveries, gameID, turnID)'
  BY <1>1 DEF AllStamped, Stamped
<1> QED BY <1>2 DEF QueueInv

LEMMA DispatchStep ==
  ASSUME QueueInv, WebInv,
         \/ DispatchBroadcast
         \/ DispatchElsewhere
         \/ SendIfCurrent /\ pendingDeliveries # << >>
  PROVE  QueueInv' /\ WebInv' /\ Goes
<1>1. UNCHANGED << gameID, turnID, snapshotVersion, device >> /\ Done /\ pendingDeliveries # << >>
  BY DEF DispatchBroadcast, DispatchElsewhere, SendIfCurrent, gameVars, linkVars
<1>2. Stamped(Head(pendingDeliveries), gameID, turnID)
  BY <1>1, FirstStamped DEF QueueInv
<1>3. \/ UNCHANGED view
      \/ Receive(Head(pendingDeliveries)) \/ Receive(Built(Head(pendingDeliveries)))
  BY DEF DispatchBroadcast, DispatchElsewhere, SendIfCurrent
<1>4. Advanced
  BY <1>1 DEF QueueInv, Advanced
<1>5. CASE UNCHANGED view
  BY <1>1, <1>4, <1>5, QueueShrinks, ViewKept
<1>6. CASE Receive(Head(pendingDeliveries)) \/ Receive(Built(Head(pendingDeliveries)))
  BY <1>1, <1>2, <1>6, BuiltStamped, ReceiveForward, QueueShrinks, ViewReplaced
<1> QED BY <1>3, <1>5, <1>6

-----------------------------------------------------------------------------
(* A looked-up recipient waits for the first event of the queue, and only  *)
(* a bot thinks.                                                           *)

RecipientInv ==
  recipient # 0 => pendingDeliveries # << >> /\ Head(pendingDeliveries).to = Me

ThoughtsInv == device # "bot" => thoughts = {}

Inv == QueueInv /\ WebInv /\ RecipientInv /\ ThoughtsInv

LEMMA CommandFindsNothing ==
  ASSUME \/ GameCommand
         \/ \E cards : SeatMoves(cards)
         \/ \E bid \in BOOLEAN : HandleBid(bid)
  PROVE  pendingDeliveries = << >>
BY DEF GameCommand, StartGame, HandleBid, HandlePlay, HandlePass, Reopen, SeatMoves, Queue

LEMMA InitInv == DeliveryInit => Inv
<1> SUFFICES ASSUME DeliveryInit PROVE Inv
  OBVIOUS
<1>1. gameID = 0 /\ turnID = 0 /\ snapshotVersion = 0 /\ pendingDeliveries = << >>
  BY DEF DeliveryInit, Init
<1>2. << >> \in Seq({})
  OBVIOUS
<1>3. AllStamped(<< >>, 0, 0)
 <2> DEFINE none == << >>
            nothing == {}
 <2>1. none \in Seq(nothing) /\ \A e \in nothing : Stamped(e, 0, 0)
   BY <1>2
 <2> HIDE DEF none, nothing
 <2>2. AllStamped(none, 0, 0)
   BY <2>1, Zenon DEF AllStamped
 <2> QED BY <2>2 DEF none
<1>6. QueueInv
  BY <1>1, <1>3 DEF QueueInv
<1>4. WebInv
 <2> SUFFICES ASSUME device = "web" PROVE MarkedUpTo(view, gameID, turnID)
   BY DEF WebInv
 <2>1. view = NoWebGame
   BY DEF DeliveryInit
 <2> QED BY <1>1, <2>1 DEF MarkedUpTo, NoWebGame, Watermarks
<1>5. RecipientInv /\ ThoughtsInv
  BY DEF DeliveryInit, RecipientInv, ThoughtsInv
<1> QED BY <1>4, <1>5, <1>6 DEF Inv

LEMMA PlayOnStep ==
  ASSUME Inv, PlayOn
  PROVE  Inv' /\ Goes
<1>1. QueueInv' /\ Advanced
  BY CommandKeepsQueue DEF Inv, PlayOn
<1>2. WebInv' /\ Goes
  BY <1>1, ViewKept DEF Inv, PlayOn
<1>3. recipient' = 0
  BY CommandFindsNothing DEF Inv, PlayOn, RecipientInv
<1>4. RecipientInv' /\ ThoughtsInv'
  BY <1>3 DEF Inv, PlayOn, RecipientInv, ThoughtsInv
<1> QED BY <1>1, <1>2, <1>4 DEF Inv

LEMMA DeliverStep ==
  ASSUME Inv, DispatchBroadcast \/ DispatchElsewhere \/ SendIfCurrent
  PROVE  Inv' /\ Goes
<1>1. SendIfCurrent => pendingDeliveries # << >>
  BY DEF Inv, RecipientInv, SendIfCurrent
<1>2. QueueInv' /\ WebInv' /\ Goes
 <2>1. QueueInv /\ WebInv
   BY DEF Inv
 <2>2. \/ DispatchBroadcast
       \/ DispatchElsewhere
       \/ SendIfCurrent /\ pendingDeliveries # << >>
   BY <1>1
 <2> QED BY <2>1, <2>2, DispatchStep
<1>3. recipient' = 0
  BY MeAssumption DEF Inv, RecipientInv, DispatchBroadcast, DispatchElsewhere,
     SendIfCurrent, linkVars, Seat, NoSeat
<1>4. device # "bot" => thoughts' = thoughts /\ device' = device
  BY <1>2 DEF DispatchBroadcast, DispatchElsewhere, SendIfCurrent, Receive, Goes
<1>5. RecipientInv' /\ ThoughtsInv'
  BY <1>2, <1>3, <1>4 DEF Inv, RecipientInv, ThoughtsInv, Goes
<1> QED BY <1>2, <1>5 DEF Inv

\* Steps that leave the game and the queue alone.
LEMMA LinkStep ==
  ASSUME Inv, LookUpRecipient \/ Break \/ Reconnect
  PROVE  Inv' /\ Goes
<1>1. UNCHANGED << gameID, turnID, pendingDeliveries, device, thoughts >>
      /\ snapshotVersion' \in Nat
 <2>1. CASE LookUpRecipient
   BY <2>1 DEF LookUpRecipient, gameVars, eventVars, Inv, QueueInv
 <2>2. CASE Break
   BY <2>2 DEF Break, gameVars, Inv, QueueInv
 <2>3. CASE Reconnect
   BY <2>3 DEF Reconnect, gameVars, Inv, QueueInv
 <2> QED BY <2>1, <2>2, <2>3
<1>2. AllStamped(pendingDeliveries, gameID, turnID)'
  BY <1>1 DEF Inv, QueueInv, AllStamped, Stamped
<1>3. QueueInv'
  BY <1>1, <1>2 DEF Inv, QueueInv
<1>4. device = "web" => MarkedUpTo(view', gameID, turnID) /\ Forward(view, view')
 <2>1. CASE Reconnect
   BY <2>1, RestoresForward DEF Reconnect, Inv, WebInv
 <2>2. CASE LookUpRecipient \/ Break
   BY <2>2, StillMarked DEF LookUpRecipient, Break, Inv, WebInv, QueueInv,
      MarkedUpTo, Forward
 <2> QED BY <2>1, <2>2
<1>5. WebInv' /\ Goes
  BY <1>1, <1>4, ViewReplaced
<1>6. RecipientInv' /\ ThoughtsInv'
  BY <1>1 DEF LookUpRecipient, Break, Reconnect, Inv, RecipientInv, ThoughtsInv
<1> QED BY <1>3, <1>5, <1>6 DEF Inv

\* Steps of the bot: there is no browser then.
LEMMA ThoughtStep ==
  ASSUME Inv, NEW t \in thoughts,
         ClaimPlayTurn(t) \/ BuildContext(t) \/ SubmitPlay(t) \/ SubmitBid(t)
  PROVE  Inv' /\ Goes
<1>1. device = "bot"
  BY DEF Inv, ThoughtsInv
<1>2. device' = device
  BY DEF ClaimPlayTurn, BuildContext, SubmitPlay, SubmitBid, linkVars
<1>3. WebInv' /\ Goes /\ ThoughtsInv'
  BY <1>1, <1>2 DEF WebInv, Goes, ThoughtsInv
<1>4. CASE UNCHANGED << gameVars, eventVars >>
 <2>1. UNCHANGED << gameID, turnID, snapshotVersion, pendingDeliveries, recipient >>
   BY <1>4 DEF gameVars, eventVars, ClaimPlayTurn, BuildContext, SubmitPlay,
      SubmitBid, linkVars
 <2>2. QueueInv' /\ RecipientInv'
   BY <2>1 DEF Inv, QueueInv, RecipientInv, AllStamped, Stamped
 <2> QED BY <1>3, <2>2 DEF Inv
<1>5. CASE \/ \E cards : SeatMoves(cards)
           \/ \E bid \in BOOLEAN : HandleBid(bid)
 <2>1. QueueInv'
   BY <1>5, MoveKeepsQueue, BidKeepsQueue DEF Inv
 <2>2. recipient' = 0
   BY <1>5, CommandFindsNothing DEF Inv, RecipientInv, ClaimPlayTurn,
      BuildContext, SubmitPlay, SubmitBid, linkVars
 <2> QED BY <1>3, <2>1, <2>2 DEF Inv, RecipientInv
<1>6. (\E cards : SeatMoves(cards)) \/ (\E bid \in BOOLEAN : HandleBid(bid))
      \/ UNCHANGED << gameVars, eventVars >>
  BY Zenon DEF ClaimPlayTurn, BuildContext, SubmitPlay, SubmitBid
<1> QED BY <1>4, <1>5, <1>6

LEMMA StutterStep ==
  ASSUME Inv, UNCHANGED vars
  PROVE  Inv' /\ Goes
<1>1. UNCHANGED << gameID, turnID, snapshotVersion, pendingDeliveries, recipient,
                   device, view, thoughts >>
  BY DEF vars, gameVars, eventVars, linkVars
<1>2. QueueInv' /\ RecipientInv' /\ ThoughtsInv'
  BY <1>1 DEF Inv, QueueInv, RecipientInv, ThoughtsInv, AllStamped, Stamped
<1>3. Advanced
  BY <1>1 DEF Inv, QueueInv, Advanced
<1> QED BY <1>1, <1>2, <1>3, ViewKept DEF Inv

LEMMA EveryStep == Inv /\ [DeliveryNext]_vars => Inv' /\ Goes
<1> SUFFICES ASSUME Inv, [DeliveryNext]_vars PROVE Inv' /\ Goes
  OBVIOUS
<1> QED BY PlayOnStep, DeliverStep, LinkStep, ThoughtStep, StutterStep, Zenon
        DEF DeliveryNext

-----------------------------------------------------------------------------

\* The watermark by which a browser tells new events and snapshots from old ones
\* never moves back within a game and never to a game before it (gameSlice.ts),
\* whatever the queue holds when the connection breaks and comes back.
THEOREM WatermarkIsMonotonic == DeliverySpec => WatermarkNeverGoesBack
<1>1. DeliveryInit => Inv
  BY InitInv
<1>2. Inv /\ [DeliveryNext]_vars => Inv'
  BY EveryStep
<1>3. Inv /\ [DeliveryNext]_vars =>
        [device = "web" =>
           /\ view'.game >= view.game
           /\ view'.game = view.game => /\ view'.version >= view.version
                                        /\ view'.turn >= view.turn]_vars
  BY EveryStep DEF Goes, Forward
<1> QED BY <1>1, <1>2, <1>3, PTL DEF DeliverySpec, WatermarkNeverGoesBack

-----------------------------------------------------------------------------
(* What a client makes of the events that are still to come.               *)

\* What device makes of one event, mark being the room's landlord.
Told(dev, mark, v, e) ==
  LET b == IF e.type # "GameStart" THEN e
           ELSE [e EXCEPT !.body = [landlord |-> IF mark = NoSeat THEN {} ELSE {mark}]]
      known == IF e.to = NoSeat THEN b ELSE e
  IN  IF e.to \notin {NoSeat, Me} THEN v
      ELSE CASE dev = "terminal" -> TerminalSees(v, Me, known)
             [] dev = "web"      -> WebSees(v, Me, known)
             [] dev = "bot"      -> BotSees(v, Me, known)

\* The picture v becomes w once all of events are told.
Leads(dev, mark, v, events, w) ==
  \E pics : /\ pics[0] = v /\ pics[Len(events)] = w
            /\ \A i \in 1..Len(events) : pics[i] = Told(dev, mark, pics[i-1], events[i])

IsList(s) == \E S : s \in Seq(S)

LEMMA NothingLeads ==
  ASSUME NEW dev, NEW mark, NEW v, NEW w
  PROVE  Leads(dev, mark, v, << >>, w) <=> w = v
<1>1. Len(<< >>) = 0 /\ 1..0 = {}
  OBVIOUS
<1>2. ASSUME Leads(dev, mark, v, << >>, w) PROVE w = v
  BY <1>1, <1>2, Zenon DEF Leads
<1>3. Leads(dev, mark, v, << >>, v)
 <2> DEFINE pics == [i \in {0} |-> v]
 <2>1. pics[0] = v
   OBVIOUS
 <2> HIDE DEF pics
 <2> QED BY <1>1, <2>1, Zenon DEF Leads
<1> QED BY <1>2, <1>3

LEMMA FirstLeads ==
  ASSUME NEW dev, NEW mark, NEW v, NEW s, NEW w, IsList(s), s # << >>,
         Leads(dev, mark, v, s, w)
  PROVE  Leads(dev, mark, Told(dev, mark, v, Head(s)), Tail(s), w)
<1>1. PICK S : s \in Seq(S)
  BY DEF IsList
<1>2. PICK pics : /\ pics[0] = v /\ pics[Len(s)] = w
                  /\ \A i \in 1..Len(s) : pics[i] = Told(dev, mark, pics[i-1], s[i])
  BY Zenon DEF Leads
<1>3. Len(s) \in Nat \ {0} /\ s[1] = Head(s)
  BY <1>1
<1>4. Len(Tail(s)) = Len(s) - 1 /\ \A i \in 1..Len(Tail(s)) : Tail(s)[i] = s[i+1]
  BY <1>1, HeadTailProperties
<1> DEFINE n == Len(s)
           rest == [i \in 0..(n - 1) |-> pics[i+1]]
<1> HIDE DEF n
<1>5. n \in Nat \ {0}
  BY <1>3 DEF n
<1>6. rest[0] = pics[1] /\ rest[n - 1] = pics[n]
  BY <1>5
<1>7. ASSUME NEW i \in 1..(n - 1)
      PROVE  rest[i] = Told(dev, mark, rest[i-1], s[i+1])
 <2>1. i \in 0..(n-1) /\ i - 1 \in 0..(n-1) /\ i + 1 \in 1..n /\ (i + 1) - 1 = i /\ (i - 1) + 1 = i
   BY <1>5
 <2>2. rest[i] = pics[i+1] /\ rest[i-1] = pics[i]
   BY <2>1
 <2> QED BY <1>2, <2>1, <2>2 DEF n
<1>8. 1 \in 1..n /\ 1 - 1 = 0
  BY <1>5
<1>9. rest[0] = Told(dev, mark, v, Head(s)) /\ rest[n - 1] = w
  BY <1>2, <1>3, <1>6, <1>8 DEF n
<1> HIDE DEF rest
<1>10. /\ rest[0] = Told(dev, mark, v, Head(s)) /\ rest[Len(Tail(s))] = w
       /\ \A i \in 1..Len(Tail(s)) : rest[i] = Told(dev, mark, rest[i-1], Tail(s)[i])
  BY <1>4, <1>7, <1>9 DEF n
<1> QED BY <1>10, Zenon DEF Leads

\* One event after others.
LEMMA LastLeads ==
  ASSUME NEW dev, NEW mark, NEW v, NEW s, NEW w, NEW e, IsList(s),
         Leads(dev, mark, v, s, w)
  PROVE  Leads(dev, mark, v, Append(s, e), Told(dev, mark, w, e)) /\ IsList(Append(s, e))
<1>1. PICK S : s \in Seq(S)
  BY DEF IsList
<1>2. PICK pics : /\ pics[0] = v /\ pics[Len(s)] = w
                  /\ \A i \in 1..Len(s) : pics[i] = Told(dev, mark, pics[i-1], s[i])
  BY Zenon DEF Leads
<1> DEFINE n == Len(s)
           all == Append(s, e)
           x == Told(dev, mark, w, e)
           more == [i \in 0..(n + 1) |-> IF i = n + 1 THEN x ELSE pics[i]]
<1>3. s \in Seq(S \cup {e}) /\ n \in Nat
  BY <1>1, SeqMonotonic, LenProperties
<1>4. /\ all \in Seq(S \cup {e}) /\ Len(all) = n + 1 /\ all[n + 1] = e
      /\ \A i \in 1..n : all[i] = s[i]
  BY <1>3
<1> HIDE DEF n, all, x
<1>5. more[0] = pics[0] /\ more[n + 1] = x /\ more[n] = pics[n]
  BY <1>3
<1>6. ASSUME NEW i \in 1..(n + 1)
      PROVE  more[i] = Told(dev, mark, more[i-1], all[i])
 <2>1. CASE i = n + 1
  <3>1. i - 1 = n
    BY <1>3, <2>1
  <3> QED BY <1>2, <1>4, <1>5, <2>1, <3>1 DEF n, x
 <2>2. CASE i # n + 1
  <3>1. i \in 1..n /\ i \in 0..(n + 1) /\ i - 1 \in 0..(n + 1) /\ i - 1 # n + 1
    BY <1>3, <2>2
  <3>2. more[i] = pics[i] /\ more[i-1] = pics[i-1]
    BY <2>2, <3>1
  <3> QED BY <1>2, <1>4, <3>1, <3>2 DEF n
 <2> QED BY <2>1, <2>2
<1> HIDE DEF more
<1>7. Leads(dev, mark, v, all, x)
  BY <1>2, <1>4, <1>5, <1>6, Zenon DEF Leads
<1> QED BY <1>4, <1>7 DEF all, x, IsList

LEMMA EmptyIsList == IsList(<< >>)
<1>1. << >> \in Seq({})
  OBVIOUS
<1> QED BY <1>1, Zenon DEF IsList

\* A picture that takes no more events.
LEMMA NoneLead ==
  ASSUME NEW dev, NEW mark, NEW v, NEW s,
         \A i \in 1..Len(s) : Told(dev, mark, v, s[i]) = v, Len(s) \in Nat
  PROVE  Leads(dev, mark, v, s, v)
<1> DEFINE pics == [i \in 0..Len(s) |-> v]
<1>1. \A i \in 0..Len(s) : pics[i] = v
  OBVIOUS
<1>2. \A i \in 1..Len(s) : i \in 0..Len(s) /\ i - 1 \in 0..Len(s)
  OBVIOUS
<1>3. 0 \in 0..Len(s) /\ Len(s) \in 0..Len(s)
  OBVIOUS
<1> HIDE DEF pics
<1>4. /\ pics[0] = v /\ pics[Len(s)] = v
      /\ \A i \in 1..Len(s) : pics[i] = Told(dev, mark, pics[i-1], s[i])
  BY <1>1, <1>2, <1>3
<1> QED BY <1>4, Zenon DEF Leads

LEMMA LeastOne ==
  ASSUME NEW T \in SUBSET Nat, T # {}
  PROVE  \E x \in T : \A y \in T : x <= y
<1> DEFINE R == OpToRel(<, Nat)
<1>1. IsWellFoundedOn(R, Nat)
  BY NatLessThanWellFounded
<1>2. \A x, y \in Nat : << x, y >> \in R <=> x < y
  BY DEF OpToRel
<1> HIDE DEF R
<1>3. PICK x \in T : \A y \in T : ~(<< y, x >> \in R)
  BY <1>1, WFMin, Zenon
<1>4. ASSUME NEW y \in T PROVE x <= y
 <2>1. x \in Nat /\ y \in Nat /\ ~(y < x)
   BY <1>2, <1>3
 <2> QED BY <2>1
<1> QED BY <1>4

\* A picture that takes no more events stays as it is.
LEMMA LeadsNowhere ==
  ASSUME NEW dev, NEW mark, NEW v, NEW s, NEW w,
         \A i \in 1..Len(s) : Told(dev, mark, v, s[i]) = v, Len(s) \in Nat,
         Leads(dev, mark, v, s, w)
  PROVE  w = v
<1>1. PICK pics : /\ pics[0] = v /\ pics[Len(s)] = w
                  /\ \A i \in 1..Len(s) : pics[i] = Told(dev, mark, pics[i-1], s[i])
  BY Zenon DEF Leads
<1>2. ASSUME NEW k \in 0..Len(s), pics[k] # v PROVE FALSE
 <2> DEFINE wrong == {i \in 0..Len(s) : pics[i] # v}
 <2>1. wrong \subseteq Nat /\ wrong # {}
   BY <1>2
 <2>2. PICK n \in wrong : \A i \in wrong : n <= i
   BY <2>1, LeastOne
 <2>3. n # 0 /\ n \in 1..Len(s) /\ n - 1 \in 0..Len(s) /\ ~ (n <= n - 1)
   BY <1>1, <2>2
 <2>4. pics[n - 1] = v
   BY <2>2, <2>3
 <2> QED BY <1>1, <2>2, <2>3, <2>4
<1> QED BY <1>1, <1>2

-----------------------------------------------------------------------------
(* What the browser makes of each event.                                   *)

WebFields ==
  {"phase", "game", "version", "turn", "seen", "hand", "bottom", "counts",
   "landlord", "currentTurn", "isGrab", "mustPlay", "lastPlayed",
   "lastPlayedBy", "multiplier", "played", "unheard"}

Framed(v) == WebFields \subseteq DOMAIN v /\ Seat \subseteq DOMAIN v.counts

\* The watermark of w is that of an event seen after v.
MarkedAs(v, w, m) ==
  /\ w.game = m.game /\ w.version = m.version /\ w.turn = m.turn
  /\ w.seen = v.seen \cup {m.game}

\* Cards and table as before.
SameCards(v, w) ==
  /\ w.hand = v.hand /\ w.counts = v.counts /\ w.unheard = v.unheard
  /\ w.played = v.played /\ w.landlord = v.landlord /\ w.bottom = v.bottom
SameTable(v, w) == w.lastPlayed = v.lastPlayed /\ w.lastPlayedBy = v.lastPlayedBy
SameTurn(v, w) ==
  w.phase = v.phase /\ w.currentTurn = v.currentTurn /\ w.isGrab = v.isGrab
  /\ w.mustPlay = v.mustPlay

LEMMA WebMarks ==
  ASSUME NEW v, Framed(v), NEW m
  PROVE  LET w == Marked(v, m) IN
         /\ Framed(w) /\ MarkedAs(v, w, m)
         /\ SameCards(v, w) /\ SameTable(v, w) /\ SameTurn(v, w) /\ w.multiplier = v.multiplier
BY DEF Marked, Framed, WebFields, MarkedAs, SameCards, SameTable, SameTurn

\* The same for what is reduced; u has the watermark already.
SameMark(v, w) ==
  w.game = v.game /\ w.version = v.version /\ w.turn = v.turn /\ w.seen = v.seen

LEMMA ReducesBidTurn ==
  ASSUME NEW v, Framed(v), NEW b
  PROVE  LET w == WebReduces(v, Me, "BidTurn", b) IN
         /\ Framed(w) /\ SameMark(v, w) /\ SameCards(v, w) /\ SameTable(v, w)
         /\ w.phase = "Bidding" /\ w.currentTurn = b.player /\ w.isGrab = b.isGrab
         /\ w.multiplier = b.multiplier
BY DEF WebReduces, Framed, WebFields, SameMark, SameCards, SameTable

LEMMA ReducesBidResult ==
  ASSUME NEW v, Framed(v), NEW b
  PROVE  LET w == WebReduces(v, Me, "BidResult", b) IN
         /\ Framed(w) /\ SameMark(v, w) /\ SameCards(v, w) /\ SameTable(v, w) /\ SameTurn(v, w)
         /\ w.multiplier = b.multiplier
BY DEF WebReduces, Framed, WebFields, SameMark, SameCards, SameTable, SameTurn

LEMMA ReducesPlayTurn ==
  ASSUME NEW v, Framed(v), NEW b
  PROVE  LET w == WebReduces(v, Me, "PlayTurn", b) IN
         /\ Framed(w) /\ SameMark(v, w) /\ SameCards(v, w) /\ SameTable(v, w)
         /\ w.phase = "Playing" /\ w.currentTurn = b.player /\ w.mustPlay = b.mustPlay
         /\ w.multiplier = v.multiplier
BY DEF WebReduces, Framed, WebFields, SameMark, SameCards, SameTable

LEMMA ReducesPass ==
  ASSUME NEW v, NEW b
  PROVE  WebReduces(v, Me, "PlayerPass", b) = v
BY DEF WebReduces

LEMMA ReducesGameOver ==
  ASSUME NEW v, Framed(v), NEW b
  PROVE  LET w == WebReduces(v, Me, "GameOver", b) IN
         /\ Framed(w) /\ SameMark(v, w) /\ SameCards(v, w) /\ SameTable(v, w)
         /\ w.phase = "Ended" /\ w.multiplier = b.multiplier
BY DEF WebReduces, Framed, WebFields, SameMark, SameCards, SameTable

LEMMA ReducesDeal ==
  ASSUME NEW v, Framed(v), NEW b
  PROVE  LET w == WebReduces(v, Me, "DealCards", b) IN
         /\ Framed(w) /\ SameMark(v, w) /\ SameTable(v, w) /\ SameTurn(v, w)
         /\ w.hand = b.cards /\ w.bottom = b.bottom /\ w.counts[Me] = Size(b.cards)
         /\ \A s \in Seat \ {Me} : w.counts[s] = v.counts[s]
         /\ w.unheard = v.unheard \ {Me} /\ w.played = v.played /\ w.landlord = v.landlord
         /\ w.multiplier = v.multiplier
BY MeAssumption DEF WebReduces, Framed, WebFields, SameMark, SameTable, SameTurn

\* The news of the landlord.
HeardLandlord(v, w, b) ==
  /\ w.multiplier = b.multiplier
  /\ b.player # Me => w.hand = v.hand
  /\ w.bottom = b.bottom /\ w.counts[Me] = Size(w.hand)
  /\ \A s \in Seat \ {Me} : w.counts[s] = v.counts[s]
  /\ w.unheard = (v.unheard \cup {b.player}) \ {Me}
  /\ w.played = v.played /\ w.landlord = {b.player}

LEMMA ReducesLandlord ==
  ASSUME NEW v, Framed(v), NEW b
  PROVE  /\ Framed(WebReduces(v, Me, "Landlord", b))
         /\ SameMark(v, WebReduces(v, Me, "Landlord", b))
         /\ HeardLandlord(v, WebReduces(v, Me, "Landlord", b), b)
<1> DEFINE hand == IF b.player = Me THEN Plus(v.hand, b.bottom) ELSE v.hand
           counts == [v.counts EXCEPT ![Me] = Size(hand)]
           heard == (v.unheard \cup {b.player}) \ {Me}
           w == WebReduces(v, Me, "Landlord", b)
<1> HIDE DEF hand
<1>1. w = [v EXCEPT !.landlord = {b.player}, !.bottom = b.bottom,
                    !.hand = hand, !.counts = counts,
                    !.unheard = heard, !.multiplier = b.multiplier]
  BY DEF WebReduces, hand, Framed, WebFields
<1>2. /\ Seat \subseteq DOMAIN counts /\ counts[Me] = Size(hand)
      /\ \A s \in Seat \ {Me} : counts[s] = v.counts[s]
  BY MeAssumption DEF Framed
<1> HIDE DEF counts, heard, w
<1>3. /\ w.counts = counts /\ WebFields \subseteq DOMAIN w
      /\ SameMark(v, w) /\ SameTable(v, w) /\ SameTurn(v, w)
      /\ w.hand = hand /\ w.bottom = b.bottom /\ w.unheard = heard /\ w.played = v.played
      /\ w.landlord = {b.player} /\ w.multiplier = b.multiplier
  BY <1>1 DEF Framed, WebFields, SameMark, SameTable, SameTurn
<1>4. /\ Framed(w) /\ w.counts[Me] = Size(w.hand)
      /\ \A s \in Seat \ {Me} : w.counts[s] = v.counts[s]
  BY <1>2, <1>3 DEF Framed
<1>5. HeardLandlord(v, w, b)
  BY <1>3, <1>4 DEF HeardLandlord, hand, heard
<1> QED BY <1>3, <1>4, <1>5 DEF w

LEMMA ReducesCardPlayed ==
  ASSUME NEW v, Framed(v), NEW b, b.player \in Seat
  PROVE  LET w == WebReduces(v, Me, "CardPlayed", b) IN
         /\ Framed(w) /\ SameMark(v, w) /\ SameTurn(v, w)
         /\ w.lastPlayed = b.cards /\ w.lastPlayedBy = b.player
         /\ w.hand = (IF b.player = Me THEN Minus(v.hand, b.cards) ELSE v.hand)
         /\ w.counts[b.player] = b.cardsLeft
         /\ \A s \in Seat \ {b.player} : w.counts[s] = v.counts[s]
         /\ w.unheard = v.unheard \ {b.player} /\ w.landlord = v.landlord /\ w.bottom = v.bottom
         /\ w.played = [v.played EXCEPT ![b.player] = Plus(@, b.cards)]
         /\ w.multiplier = v.multiplier
<1> DEFINE hand == IF b.player = Me THEN Minus(v.hand, b.cards) ELSE v.hand
           played == [v.played EXCEPT ![b.player] = Plus(@, b.cards)]
           counts == [v.counts EXCEPT ![b.player] = b.cardsLeft]
           heard == v.unheard \ {b.player}
           w == WebReduces(v, Me, "CardPlayed", b)
<1>1. w = [v EXCEPT !.lastPlayed = b.cards, !.lastPlayedBy = b.player,
                    !.hand = hand, !.counts = counts,
                    !.unheard = heard, !.played = played]
  BY DEF WebReduces, Framed, WebFields
<1>2. /\ Seat \subseteq DOMAIN counts /\ counts[b.player] = b.cardsLeft
      /\ \A s \in Seat \ {b.player} : counts[s] = v.counts[s]
  BY DEF Framed
<1> HIDE DEF hand, played, counts, heard, w
<1>3. /\ w.counts = counts /\ WebFields \subseteq DOMAIN w
      /\ SameMark(v, w) /\ SameTurn(v, w)
      /\ w.lastPlayed = b.cards /\ w.lastPlayedBy = b.player
      /\ w.hand = hand /\ w.bottom = v.bottom /\ w.unheard = heard /\ w.played = played
      /\ w.landlord = v.landlord /\ w.multiplier = v.multiplier
  BY <1>1 DEF Framed, WebFields, SameMark, SameTurn
<1>4. /\ Framed(w) /\ w.counts[b.player] = b.cardsLeft
      /\ \A s \in Seat \ {b.player} : w.counts[s] = v.counts[s]
  BY <1>2, <1>3 DEF Framed
<1> QED BY <1>3, <1>4 DEF w, hand, heard, played

LEMMA ReducesGameStart ==
  ASSUME NEW v, NEW m, NEW b
  PROVE  LET w == WebGameStart(v, m, b) IN
         /\ Framed(w) /\ MarkedAs(v, w, m)
         /\ w.landlord = b.landlord /\ w.bottom = NoCards /\ w.unheard = Seat
         /\ w.played = [s \in Seat |-> NoCards] /\ w.isGrab = FALSE
         /\ w.lastPlayed = NoCards /\ w.lastPlayedBy = NoSeat /\ w.multiplier = 1
BY DEF WebGameStart, NoWebGame, Marked, Framed, WebFields, MarkedAs

-----------------------------------------------------------------------------
(* Lists of events one after the other.                                    *)

LEMMA OneLeads ==
  ASSUME NEW dev, NEW mark, NEW v, NEW e
  PROVE  Leads(dev, mark, v, << e >>, Told(dev, mark, v, e)) /\ IsList(<< e >>)
<1>1. Append(<< >>, e) = << e >>
  OBVIOUS
<1>2. Leads(dev, mark, v, << >>, v)
  BY NothingLeads
<1>3. Leads(dev, mark, v, Append(<< >>, e), Told(dev, mark, v, e)) /\ IsList(Append(<< >>, e))
  BY <1>2, EmptyIsList, LastLeads
<1> QED BY <1>1, <1>3

LEMMA BothLead ==
  ASSUME NEW dev, NEW mark, NEW v, NEW s, NEW w, NEW r, NEW x, IsList(s), IsList(r),
         Leads(dev, mark, v, s, w), Leads(dev, mark, w, r, x)
  PROVE  Leads(dev, mark, v, s \o r, x) /\ IsList(s \o r)
<1>1. PICK S : s \in Seq(S)
  BY DEF IsList
<1>2. PICK R : r \in Seq(R)
  BY DEF IsList
<1>3. s \in Seq(S \cup R) /\ r \in Seq(S \cup R)
  BY <1>1, <1>2, SeqMonotonic
<1> DEFINE n == Len(s)
           k == Len(r)
           all == s \o r
<1>4. n \in Nat /\ k \in Nat
  BY <1>3, LenProperties
<1>5. /\ all \in Seq(S \cup R) /\ Len(all) = n + k
      /\ \A i \in 1..(n + k) : all[i] = IF i <= n THEN s[i] ELSE r[i - n]
  BY <1>3, ConcatProperties
<1>6. PICK before : /\ before[0] = v /\ before[n] = w
                    /\ \A i \in 1..n : before[i] = Told(dev, mark, before[i-1], s[i])
  BY Zenon DEF Leads
<1>7. PICK after : /\ after[0] = w /\ after[k] = x
                   /\ \A i \in 1..k : after[i] = Told(dev, mark, after[i-1], r[i])
  BY Zenon DEF Leads
<1> HIDE DEF n, k, all
<1> DEFINE pics == [i \in 0..(n + k) |-> IF i <= n THEN before[i] ELSE after[i - n]]
<1>8. pics[0] = v
  BY <1>4, <1>6
<1>9. pics[n + k] = x
 <2>1. CASE k = 0
   BY <1>4, <1>6, <1>7, <2>1
 <2>2. CASE k # 0
  <3>1. n + k \in 0..(n + k) /\ ~(n + k <= n) /\ (n + k) - n = k
    BY <1>4, <2>2
  <3> QED BY <1>7, <3>1
 <2> QED BY <2>1, <2>2
<1>10. ASSUME NEW i \in 1..(n + k)
       PROVE  pics[i] = Told(dev, mark, pics[i-1], all[i])
 <2>0. i \in 0..(n + k) /\ i - 1 \in 0..(n + k)
   BY <1>4
 <2>1. CASE i <= n
  <3>1. i \in 1..n /\ i - 1 <= n
    BY <1>4, <2>1
  <3>2. pics[i] = before[i] /\ pics[i-1] = before[i-1] /\ all[i] = s[i]
    BY <1>5, <2>0, <2>1, <3>1
  <3> QED BY <1>6, <3>1, <3>2
 <2>2. CASE i = n + 1
  <3>1. i - 1 = n /\ i - n = 1 /\ 1 \in 1..k /\ ~(i <= n) /\ i - 1 <= n
    BY <1>4, <2>2
  <3>2. pics[i] = after[1] /\ pics[i-1] = before[n] /\ all[i] = r[1]
    BY <1>5, <2>0, <3>1
  <3>3. after[1] = Told(dev, mark, after[0], r[1])
   <4>1. 1 - 1 = 0
     OBVIOUS
   <4> QED BY <1>7, <3>1, <4>1
  <3> QED BY <1>6, <1>7, <3>2, <3>3
 <2>3. CASE i > n + 1
  <3>1. i - n \in 1..k /\ ~(i <= n) /\ ~(i - 1 <= n) /\ (i - 1) - n = (i - n) - 1
    BY <1>4, <2>3
  <3>2. pics[i] = after[i - n] /\ pics[i-1] = after[(i - n) - 1] /\ all[i] = r[i - n]
    BY <1>5, <2>0, <3>1
  <3> QED BY <1>7, <3>1, <3>2
 <2> QED BY <1>4, <2>1, <2>2, <2>3
<1> HIDE DEF pics
<1>11. Leads(dev, mark, v, all, x)
  BY <1>5, <1>8, <1>9, <1>10, Zenon DEF Leads
<1> QED BY <1>5, <1>11 DEF IsList, all

\* Lists written out are functions on their positions.
LEMMA AppendIs ==
  ASSUME NEW A, NEW s \in Seq(A), NEW e \in A, NEW r \in Seq(A), Len(r) = Len(s) + 1,
         \A i \in 1..Len(s) : r[i] = s[i], r[Len(r)] = e
  PROVE  Append(s, e) = r
<1> DEFINE t == Append(s, e)
<1>1. t \in Seq(A) /\ Len(t) = Len(r) /\ \A i \in 1..Len(t) : t[i] = r[i]
  OBVIOUS
<1> HIDE DEF t
<1>2. t = r
  BY <1>1, SeqEqual
<1> QED BY <1>2 DEF t

LEMMA ListOfTwo ==
  ASSUME NEW a, NEW b
  PROVE  Append(<< a >>, b) = << a, b >>
<1> DEFINE s == << a >>
           r == << a, b >>
           A == {a, b}
<1>1. /\ s \in Seq(A) /\ Len(s) = 1 /\ r \in Seq(A) /\ Len(r) = 2 /\ b \in A
      /\ r[1] = s[1] /\ r[2] = b
  OBVIOUS
<1> HIDE DEF s, r, A
<1>2. Len(r) = Len(s) + 1 /\ r[Len(r)] = b /\ \A i \in 1..Len(s) : r[i] = s[i]
  BY <1>1
<1>3. Append(s, b) = r
  BY <1>1, <1>2, AppendIs
<1> QED BY <1>3 DEF s, r

LEMMA ListOfThree ==
  ASSUME NEW a, NEW b, NEW c
  PROVE  Append(<< a, b >>, c) = << a, b, c >>
<1> DEFINE s == << a, b >>
           r == << a, b, c >>
           A == {a, b, c}
<1>1. /\ s \in Seq(A) /\ Len(s) = 2 /\ r \in Seq(A) /\ Len(r) = 3 /\ c \in A
      /\ r[1] = s[1] /\ r[2] = s[2] /\ r[3] = c
  OBVIOUS
<1> HIDE DEF s, r, A
<1>2. Len(r) = Len(s) + 1 /\ r[Len(r)] = c /\ \A i \in 1..Len(s) : r[i] = s[i]
  BY <1>1
<1>3. Append(s, c) = r
  BY <1>1, <1>2, AppendIs
<1> QED BY <1>3 DEF s, r

LEMMA ListOfFour ==
  ASSUME NEW a, NEW b, NEW c, NEW d
  PROVE  Append(<< a, b, c >>, d) = << a, b, c, d >>
<1> DEFINE s == << a, b, c >>
           r == << a, b, c, d >>
           A == {a, b, c, d}
<1>1. /\ s \in Seq(A) /\ Len(s) = 3 /\ r \in Seq(A) /\ Len(r) = 4 /\ d \in A
      /\ r[1] = s[1] /\ r[2] = s[2] /\ r[3] = s[3] /\ r[4] = d
  OBVIOUS
<1> HIDE DEF s, r, A
<1>2. Len(r) = Len(s) + 1 /\ r[Len(r)] = d /\ \A i \in 1..Len(s) : r[i] = s[i]
  BY <1>1
<1>3. Append(s, d) = r
  BY <1>1, <1>2, AppendIs
<1> QED BY <1>3 DEF s, r

LEMMA TwoLead ==
  ASSUME NEW dev, NEW mark, NEW v, NEW a, NEW b
  PROVE  /\ Leads(dev, mark, v, << a, b >>, Told(dev, mark, Told(dev, mark, v, a), b))
         /\ IsList(<< a, b >>)
<1>1. /\ Leads(dev, mark, v, Append(<< a >>, b), Told(dev, mark, Told(dev, mark, v, a), b))
      /\ IsList(Append(<< a >>, b))
  BY OneLeads, LastLeads
<1> QED BY <1>1, ListOfTwo

LEMMA ThreeLead ==
  ASSUME NEW dev, NEW mark, NEW v, NEW a, NEW b, NEW c, NEW w, NEW x, NEW y,
         w = Told(dev, mark, v, a), x = Told(dev, mark, w, b), y = Told(dev, mark, x, c)
  PROVE  Leads(dev, mark, v, << a, b, c >>, y) /\ IsList(<< a, b, c >>)
<1>1. Leads(dev, mark, v, << a, b >>, x) /\ IsList(<< a, b >>)
  BY TwoLead
<1> DEFINE s == << a, b >>
<1>2. Append(s, c) = << a, b, c >>
  BY ListOfThree
<1> HIDE DEF s
<1>3. Leads(dev, mark, v, Append(s, c), y) /\ IsList(Append(s, c))
  BY <1>1, LastLeads DEF s
<1> QED BY <1>2, <1>3

LEMMA FourLead ==
  ASSUME NEW dev, NEW mark, NEW v, NEW a, NEW b, NEW c, NEW d, NEW w, NEW x, NEW y, NEW z,
         w = Told(dev, mark, v, a), x = Told(dev, mark, w, b),
         y = Told(dev, mark, x, c), z = Told(dev, mark, y, d)
  PROVE  Leads(dev, mark, v, << a, b, c, d >>, z) /\ IsList(<< a, b, c, d >>)
<1>1. Leads(dev, mark, v, << a, b, c >>, y) /\ IsList(<< a, b, c >>)
  BY ThreeLead
<1> DEFINE s == << a, b, c >>
<1>2. Append(s, d) = << a, b, c, d >>
  BY ListOfFour
<1> HIDE DEF s
<1>3. Leads(dev, mark, v, Append(s, d), z) /\ IsList(Append(s, d))
  BY <1>1, LastLeads DEF s
<1> QED BY <1>2, <1>3

\* An event for another seat tells nothing.
LEMMA ToldNothing ==
  ASSUME NEW dev, NEW mark, NEW v, NEW e, e.to \notin {NoSeat, Me}
  PROVE  Told(dev, mark, v, e) = v
BY DEF Told

-----------------------------------------------------------------------------
(* What the browser shows when it has been told everything.                *)

\* The picture v shows the state of the game that t describes.
CardsAre(v, t) ==
  /\ v.hand = t.hand /\ v.played = t.played /\ v.landlord = t.landlord
  /\ \A s \in Seat \ v.unheard : v.counts[s] = t.counts[s]

WebShows(v, t) ==
  /\ v.phase = t.phase /\ v.game = t.game /\ CardsAre(v, t)
  /\ t.phase = "Bidding" => v.currentTurn = t.bidder /\ v.isGrab = t.grab
  /\ t.phase = "Playing" =>
       /\ v.currentTurn = t.player /\ v.bottom = t.bottom /\ v.mustPlay = t.must
       /\ t.must \/ (v.lastPlayed = t.last /\ v.lastPlayedBy = t.by)
  /\ t.bombs = 0 \/ t.phase = "Ended" => v.multiplier = t.multiplier

\* The picture v is of game g and no later than version n and turn m.
At(v, g, n, m) ==
  /\ Framed(v) /\ v.game = g
  /\ v.version \in Nat /\ v.version <= n /\ v.turn \in Nat /\ v.turn <= m

\* The watermark is taken over first.
Took(v, u, g, k, j) ==
  /\ At(u, g, k, j) /\ u.seen = v.seen \cup {g}
  /\ SameCards(v, u) /\ SameTable(v, u) /\ SameTurn(v, u) /\ u.multiplier = v.multiplier

\* An event for Me of a certain type and stamp.
Comes(e, type, g, k, j) ==
  /\ DOMAIN e = {"type", "to", "meta", "body"} /\ e.type = type /\ e.to \in {NoSeat, Me}
  /\ e.meta.game = g /\ e.meta.version = k /\ e.meta.turn = j

\* Its stamp is later than the picture's.
Later(n, m, k, j) ==
  n \in Nat /\ m \in Nat /\ k \in Nat /\ j \in Nat /\ n < k /\ m <= j

LEMMA WebTakes ==
  ASSUME NEW v, NEW mark, NEW e, NEW type \in EventTypes \ {"GameStart"},
         NEW g, NEW n, NEW m, NEW k, NEW j, Later(n, m, k, j), At(v, g, n, m), Comes(e, type, g, k, j)
  PROVE  \E u : /\ Took(v, u, g, k, j)
                /\ Told("web", mark, v, e) = WebReduces(u, Me, type, e.body)
<1> DEFINE u == Marked(v, e.meta)
<1>1. AcceptsEvent(v, e.meta)
  BY DEF AcceptsEvent, At, Comes, Later
<1>2. Told("web", mark, v, e) = WebSees(v, Me, e)
  BY DEF Told, Comes
<1>3. WebSees(v, Me, e) = WebReduces(u, Me, type, e.body)
  BY <1>1 DEF WebSees, Comes
<1>4. /\ Framed(u) /\ MarkedAs(v, u, e.meta)
      /\ SameCards(v, u) /\ SameTable(v, u) /\ SameTurn(v, u) /\ u.multiplier = v.multiplier
  BY WebMarks DEF At
<1> HIDE DEF u
<1>5. Took(v, u, g, k, j)
  BY <1>4 DEF At, MarkedAs, Took, Comes, Later
<1> QED BY <1>2, <1>3, <1>5

\* The bidder is asked.
LEMMA WebAsksBid ==
  ASSUME NEW v, NEW mark, NEW e, NEW g, NEW n, NEW m, NEW k, NEW j, Later(n, m, k, j),
         At(v, g, n, m), Comes(e, "BidTurn", g, k, j),
         NEW t, CardsAre(v, t), t.phase = "Bidding", t.game = g,
         e.body.player = t.bidder, e.body.isGrab = t.grab, e.body.multiplier = t.multiplier
  PROVE  WebShows(Told("web", mark, v, e), t) /\ At(Told("web", mark, v, e), g, k, j)
<1> DEFINE w == Told("web", mark, v, e)
<1>0. "BidTurn" \in EventTypes \ {"GameStart"}
  BY DEF EventTypes
<1>1. PICK u : /\ Took(v, u, g, k, j)
               /\ Told("web", mark, v, e)
                    = WebReduces(u, Me, "BidTurn", e.body)
  BY <1>0, WebTakes
<1>2. Took(v, u, g, k, j) /\ w = WebReduces(u, Me, "BidTurn", e.body)
  BY <1>1
<1> HIDE DEF w
<1>20. Framed(u)
  BY <1>2 DEF At, Took
<1> DEFINE b == e.body
<1> HIDE DEF b
<1>21. w = WebReduces(u, Me, "BidTurn", b)
  BY <1>2 DEF b
<1>22. /\ Framed(w) /\ SameMark(u, w) /\ SameCards(u, w)
      /\ w.phase = "Bidding" /\ w.currentTurn = b.player /\ w.isGrab = b.isGrab
      /\ w.multiplier = b.multiplier
  BY <1>20, <1>21, ReducesBidTurn
<1>3. /\ Framed(w) /\ SameMark(u, w) /\ SameCards(u, w)
      /\ w.phase = "Bidding" /\ w.currentTurn = e.body.player /\ w.isGrab = e.body.isGrab
      /\ w.multiplier = e.body.multiplier
  BY <1>22 DEF b
<1>4. At(w, g, k, j)
  BY <1>2, <1>3 DEF At, SameMark, Took
<1>5. CardsAre(w, t)
  BY <1>2, <1>3 DEF CardsAre, SameCards, Took
<1>6. WebShows(w, t)
  BY <1>3, <1>4, <1>5 DEF WebShows, At
<1> QED BY <1>4, <1>6 DEF w

\* The table is shown, before the player is asked.
TableIs(v, t) ==
  /\ v.bottom = t.bottom
  /\ t.must \/ (v.lastPlayed = t.last /\ v.lastPlayedBy = t.by)
  /\ t.bombs = 0 => v.multiplier = t.multiplier

\* The player is asked.
LEMMA WebAsksPlay ==
  ASSUME NEW v, NEW mark, NEW e, NEW g, NEW n, NEW m, NEW k, NEW j, Later(n, m, k, j),
         At(v, g, n, m), Comes(e, "PlayTurn", g, k, j),
         NEW t, CardsAre(v, t), t.phase = "Playing", t.game = g,
         e.body.player = t.player, e.body.mustPlay = t.must, TableIs(v, t)
  PROVE  WebShows(Told("web", mark, v, e), t) /\ At(Told("web", mark, v, e), g, k, j)
<1> DEFINE w == Told("web", mark, v, e)
<1>0. "PlayTurn" \in EventTypes \ {"GameStart"}
  BY DEF EventTypes
<1>1. PICK u : /\ Took(v, u, g, k, j)
               /\ Told("web", mark, v, e)
                    = WebReduces(u, Me, "PlayTurn", e.body)
  BY <1>0, WebTakes
<1>2. Took(v, u, g, k, j) /\ w = WebReduces(u, Me, "PlayTurn", e.body)
  BY <1>1
<1> HIDE DEF w
<1>20. Framed(u)
  BY <1>2 DEF At, Took
<1> DEFINE b == e.body
<1> HIDE DEF b
<1>21. w = WebReduces(u, Me, "PlayTurn", b)
  BY <1>2 DEF b
<1>22. /\ Framed(w) /\ SameMark(u, w) /\ SameCards(u, w) /\ SameTable(u, w)
      /\ w.phase = "Playing" /\ w.currentTurn = b.player /\ w.mustPlay = b.mustPlay
      /\ w.multiplier = u.multiplier
  BY <1>20, <1>21, ReducesPlayTurn
<1>3. /\ Framed(w) /\ SameMark(u, w) /\ SameCards(u, w) /\ SameTable(u, w)
      /\ w.phase = "Playing" /\ w.currentTurn = e.body.player /\ w.mustPlay = e.body.mustPlay
      /\ w.multiplier = u.multiplier
  BY <1>22 DEF b
<1>4. At(w, g, k, j)
  BY <1>2, <1>3 DEF At, SameMark, Took
<1>5. CardsAre(w, t) /\ w.bottom = t.bottom
  BY <1>2, <1>3 DEF CardsAre, SameCards, Took, TableIs
<1>6. w.lastPlayed = v.lastPlayed /\ w.lastPlayedBy = v.lastPlayedBy
  BY <1>2, <1>3 DEF SameTable, Took
<1>7. WebShows(w, t)
  BY <1>2, <1>3, <1>4, <1>5, <1>6 DEF WebShows, At, Took, TableIs
<1> QED BY <1>4, <1>7 DEF w

\* The game is over.
LEMMA WebIsOver ==
  ASSUME NEW v, NEW mark, NEW e, NEW g, NEW n, NEW m, NEW k, NEW j, Later(n, m, k, j),
         At(v, g, n, m), Comes(e, "GameOver", g, k, j),
         NEW t, CardsAre(v, t), t.phase = "Ended", t.game = g,
         e.body.multiplier = t.multiplier
  PROVE  WebShows(Told("web", mark, v, e), t) /\ At(Told("web", mark, v, e), g, k, j)
<1> DEFINE w == Told("web", mark, v, e)
<1>0. "GameOver" \in EventTypes \ {"GameStart"}
  BY DEF EventTypes
<1>1. PICK u : /\ Took(v, u, g, k, j)
               /\ Told("web", mark, v, e)
                    = WebReduces(u, Me, "GameOver", e.body)
  BY <1>0, WebTakes
<1>2. Took(v, u, g, k, j) /\ w = WebReduces(u, Me, "GameOver", e.body)
  BY <1>1
<1> HIDE DEF w
<1>3. /\ Framed(w) /\ SameMark(u, w) /\ SameCards(u, w)
      /\ w.phase = "Ended" /\ w.multiplier = e.body.multiplier
  BY <1>2, ReducesGameOver DEF At, Took
<1>4. At(w, g, k, j)
  BY <1>2, <1>3 DEF At, SameMark, Took
<1>5. CardsAre(w, t)
  BY <1>2, <1>3 DEF CardsAre, SameCards, Took
<1>6. WebShows(w, t)
  BY <1>3, <1>4, <1>5 DEF WebShows, At
<1> QED BY <1>4, <1>6 DEF w

\* The result of a bid.
HasSeen(v, w, g) == w.seen = v.seen \cup {g}

LEMMA WebHearsBid ==
  ASSUME NEW v, NEW mark, NEW e, NEW g, NEW n, NEW m, NEW k, NEW j, Later(n, m, k, j),
         At(v, g, n, m), Comes(e, "BidResult", g, k, j)
  PROVE  /\ SameCards(v, Told("web", mark, v, e)) /\ At(Told("web", mark, v, e), g, k, j)
         /\ HasSeen(v, Told("web", mark, v, e), g)
<1> DEFINE w == Told("web", mark, v, e)
<1>0. "BidResult" \in EventTypes \ {"GameStart"}
  BY DEF EventTypes
<1>1. PICK u : /\ Took(v, u, g, k, j)
               /\ Told("web", mark, v, e)
                    = WebReduces(u, Me, "BidResult", e.body)
  BY <1>0, WebTakes
<1>2. Took(v, u, g, k, j) /\ w = WebReduces(u, Me, "BidResult", e.body)
  BY <1>1
<1> HIDE DEF w
<1>3. Framed(w) /\ SameMark(u, w) /\ SameCards(u, w)
  BY <1>2, ReducesBidResult DEF At, Took
<1>4. At(w, g, k, j) /\ HasSeen(v, w, g) /\ SameCards(v, w)
  BY <1>2, <1>3 DEF At, SameMark, SameCards, Took, HasSeen
<1> QED BY <1>4 DEF w

\* A pass.
LEMMA WebHearsPass ==
  ASSUME NEW v, NEW mark, NEW e, NEW g, NEW n, NEW m, NEW k, NEW j, Later(n, m, k, j),
         At(v, g, n, m), Comes(e, "PlayerPass", g, k, j)
  PROVE  /\ At(Told("web", mark, v, e), g, k, j)
         /\ SameCards(v, Told("web", mark, v, e)) /\ SameTable(v, Told("web", mark, v, e))
         /\ Told("web", mark, v, e).multiplier = v.multiplier
<1>0. "PlayerPass" \in EventTypes \ {"GameStart"}
  BY DEF EventTypes
<1>1. PICK u : /\ Took(v, u, g, k, j)
               /\ Told("web", mark, v, e)
                    = WebReduces(u, Me, "PlayerPass", e.body)
  BY <1>0, WebTakes
<1> QED BY <1>1, ReducesPass DEF Took

\* Cards are played: b leads from the state t to the state u.
Plays(t, u, b) ==
  /\ b.player \in Seat
  /\ u.hand = (IF b.player = Me THEN Minus(t.hand, b.cards) ELSE t.hand)
  /\ u.played = [t.played EXCEPT ![b.player] = Plus(@, b.cards)] /\ u.landlord = t.landlord
  /\ b.cardsLeft = u.counts[b.player]
  /\ \A s \in Seat \ {b.player} : u.counts[s] = t.counts[s]

LEMMA WebHearsPlay ==
  ASSUME NEW v, NEW mark, NEW e, NEW g, NEW n, NEW m, NEW k, NEW j, Later(n, m, k, j),
         At(v, g, n, m), Comes(e, "CardPlayed", g, k, j),
         NEW t, CardsAre(v, t), NEW u, Plays(t, u, e.body)
  PROVE  /\ At(Told("web", mark, v, e), g, k, j) /\ CardsAre(Told("web", mark, v, e), u)
         /\ Told("web", mark, v, e).lastPlayed = e.body.cards
         /\ Told("web", mark, v, e).lastPlayedBy = e.body.player
         /\ Told("web", mark, v, e).bottom = v.bottom
         /\ Told("web", mark, v, e).multiplier = v.multiplier
<1>00. Plays(t, u, e.body)
  OBVIOUS
<1>01. e.body.player \in Seat
  BY DEF Plays
<1> DEFINE w == Told("web", mark, v, e)
<1>0. "CardPlayed" \in EventTypes \ {"GameStart"}
  BY DEF EventTypes
<1>1. PICK x : /\ Took(v, x, g, k, j)
               /\ Told("web", mark, v, e)
                    = WebReduces(x, Me, "CardPlayed", e.body)
  BY <1>0, WebTakes
<1>2. Took(v, x, g, k, j) /\ w = WebReduces(x, Me, "CardPlayed", e.body)
  BY <1>1
<1> HIDE DEF w
<1>3. /\ Framed(w) /\ SameMark(x, w)
      /\ w.lastPlayed = e.body.cards /\ w.lastPlayedBy = e.body.player
      /\ w.hand = (IF e.body.player = Me THEN Minus(x.hand, e.body.cards) ELSE x.hand)
      /\ w.counts[e.body.player] = e.body.cardsLeft
      /\ \A s \in Seat \ {e.body.player} : w.counts[s] = x.counts[s]
      /\ w.unheard = x.unheard \ {e.body.player} /\ w.landlord = x.landlord /\ w.bottom = x.bottom
      /\ w.played = [x.played EXCEPT ![e.body.player] = Plus(@, e.body.cards)]
      /\ w.multiplier = x.multiplier
  BY <1>01, <1>2, ReducesCardPlayed DEF At, Took
<1>4. At(w, g, k, j)
  BY <1>2, <1>3 DEF At, SameMark, Took
<1>5. /\ x.hand = t.hand /\ x.counts = v.counts /\ x.unheard = v.unheard /\ x.played = t.played
      /\ x.landlord = t.landlord /\ x.bottom = v.bottom
  BY <1>2 DEF SameCards, CardsAre, Took
<1>6. w.hand = u.hand
  BY <1>00, <1>3, <1>5 DEF Plays
<1>7. w.played = u.played
  BY <1>00, <1>3, <1>5 DEF Plays
<1>8. ASSUME NEW s \in Seat \ w.unheard PROVE w.counts[s] = u.counts[s]
 <2>1. CASE s = e.body.player
   BY <1>00, <1>3, <2>1 DEF Plays
 <2>2. CASE s # e.body.player
   BY <1>00, <1>3, <1>5, <2>2 DEF CardsAre, Plays
 <2> QED BY <2>1, <2>2
<1>9. CardsAre(w, u)
  BY <1>00, <1>3, <1>5, <1>6, <1>7, <1>8 DEF CardsAre, Plays
<1> QED BY <1>2, <1>3, <1>4, <1>5, <1>9 DEF w, Took

-----------------------------------------------------------------------------
(* The deal and the landlord, who get several events.                      *)

Marks(mark) == IF mark = NoSeat THEN {} ELSE {mark}

\* w is the picture after GameStart, a dealt hand, or the news of the landlord.
Begun(w, mark) ==
  /\ w.landlord = Marks(mark) /\ w.bottom = NoCards
  /\ w.unheard = Seat /\ w.played = [s \in Seat |-> NoCards]

GotHand(v, w, b) ==
  /\ SameTable(v, w) /\ w.multiplier = v.multiplier
  /\ w.hand = b.cards /\ w.bottom = b.bottom
  /\ w.counts[Me] = Size(b.cards)
  /\ \A s \in Seat \ {Me} : w.counts[s] = v.counts[s]
  /\ w.unheard = v.unheard \ {Me} /\ w.played = v.played /\ w.landlord = v.landlord

\* The first event of a deal begins a new picture.
LEMMA WebBegins ==
  ASSUME NEW v, NEW mark, NEW e, NEW g, NEW k, NEW j, k \in Nat, j \in Nat,
         Comes(e, "GameStart", g, k, j), e.to = NoSeat, v.game # g, g \notin v.seen
  PROVE  /\ At(Told("web", mark, v, e), g, k, j)
         /\ Begun(Told("web", mark, v, e), mark)
         /\ Told("web", mark, v, e).seen = v.seen \cup {g}
<1> DEFINE b == [landlord |-> Marks(mark)]
           f == [e EXCEPT !.body = b]
           w == WebGameStart(v, e.meta, b)
<1>1. Told("web", mark, v, e) = WebSees(v, Me, f)
  BY DEF Told, Comes, Marks
<1>2. f.type = "GameStart" /\ f.meta = e.meta /\ f.body = b
  BY DEF Comes
<1>3. b.landlord = Marks(mark)
  OBVIOUS
<1> HIDE DEF f, b
<1>4. WebSees(v, Me, f) = w
  BY <1>2 DEF WebSees, AcceptsGameStart, Comes
<1>5. /\ Framed(w) /\ MarkedAs(v, w, e.meta)
      /\ w.landlord = b.landlord /\ w.bottom = NoCards /\ w.unheard = Seat
      /\ w.played = [s \in Seat |-> NoCards]
 <2> DEFINE m == e.meta
 <2> HIDE DEF m, w
 <2>1. w = WebGameStart(v, m, b)
   BY DEF w, m
 <2>2. Framed(w) /\ MarkedAs(v, w, m)
     /\ w.landlord = b.landlord /\ w.bottom = NoCards /\ w.unheard = Seat
     /\ w.played = [s \in Seat |-> NoCards]
   BY <2>1 DEF WebGameStart, NoWebGame, Marked, Framed, WebFields, MarkedAs
 <2> QED BY <2>2 DEF m
<1> HIDE DEF w
<1>6. At(w, g, k, j) /\ w.seen = v.seen \cup {g}
  BY <1>5 DEF At, MarkedAs, Comes
<1>7. Begun(w, mark)
  BY <1>3, <1>5 DEF Begun
<1> QED BY <1>1, <1>4, <1>6, <1>7

\* A dealt hand.
LEMMA WebGetsHand ==
  ASSUME NEW v, NEW mark, NEW e, NEW g, NEW n, NEW m, NEW k, NEW j, Later(n, m, k, j),
         At(v, g, n, m), Comes(e, "DealCards", g, k, j)
  PROVE  /\ At(Told("web", mark, v, e), g, k, j)
         /\ GotHand(v, Told("web", mark, v, e), e.body)
<1> DEFINE w == Told("web", mark, v, e)
           b == e.body
<1>0. "DealCards" \in EventTypes \ {"GameStart"}
  BY DEF EventTypes
<1>1. PICK u : Took(v, u, g, k, j) /\ Told("web", mark, v, e) = WebReduces(u, Me, "DealCards", e.body)
  BY <1>0, WebTakes
<1>2. Took(v, u, g, k, j) /\ w = WebReduces(u, Me, "DealCards", b)
  BY <1>1
<1> HIDE DEF w, b
<1>3. Framed(u)
  BY <1>2 DEF At, Took
<1>4. /\ Framed(w) /\ SameMark(u, w) /\ SameTable(u, w)
      /\ w.hand = b.cards /\ w.bottom = b.bottom /\ w.counts[Me] = Size(b.cards)
      /\ \A s \in Seat \ {Me} : w.counts[s] = u.counts[s]
      /\ w.unheard = u.unheard \ {Me} /\ w.played = u.played /\ w.landlord = u.landlord
      /\ w.multiplier = u.multiplier
  BY <1>2, <1>3, ReducesDeal
<1>5. At(w, g, k, j)
  BY <1>2, <1>4 DEF At, SameMark, Took
<1>6. /\ u.counts = v.counts /\ u.unheard = v.unheard /\ u.played = v.played
      /\ u.landlord = v.landlord /\ u.multiplier = v.multiplier /\ SameTable(v, w)
  BY <1>2, <1>4 DEF Took, SameCards, SameTable
<1>7. GotHand(v, w, b)
  BY <1>4, <1>6 DEF GotHand
<1> QED BY <1>5, <1>7 DEF w, b

\* The landlord is told.
LEMMA WebHearsLandlord ==
  ASSUME NEW v, NEW mark, NEW e, NEW g, NEW n, NEW m, NEW k, NEW j, Later(n, m, k, j),
         At(v, g, n, m), Comes(e, "Landlord", g, k, j)
  PROVE  /\ At(Told("web", mark, v, e), g, k, j)
         /\ HeardLandlord(v, Told("web", mark, v, e), e.body)
<1> DEFINE w == Told("web", mark, v, e)
           b == e.body
<1>0. "Landlord" \in EventTypes \ {"GameStart"}
  BY DEF EventTypes
<1>1. PICK u : Took(v, u, g, k, j) /\ Told("web", mark, v, e) = WebReduces(u, Me, "Landlord", e.body)
  BY <1>0, WebTakes
<1>2. Took(v, u, g, k, j) /\ w = WebReduces(u, Me, "Landlord", b)
  BY <1>1
<1> HIDE DEF w, b
<1>3. Framed(u)
  BY <1>2 DEF At, Took
<1>4. Framed(w) /\ SameMark(u, w) /\ HeardLandlord(u, w, b)
  BY <1>2, <1>3, ReducesLandlord
<1>5. At(w, g, k, j)
  BY <1>2, <1>4 DEF At, SameMark, Took
<1>6. u.counts = v.counts /\ u.unheard = v.unheard /\ u.played = v.played /\ u.hand = v.hand
  BY <1>2 DEF Took, SameCards
<1>7. HeardLandlord(v, w, b)
  BY <1>4, <1>6, Zenon DEF HeardLandlord
<1> QED BY <1>5, <1>7 DEF w, b

-----------------------------------------------------------------------------

\* A whole deal: of the three hands one is for Me.
DealtBy(v, mark, start, h, g, l, j) ==
  \E w : /\ Leads("web", mark, v, << start, h[0], h[1], h[2] >>, w) /\ At(w, g, l, j)
         /\ w.hand = h[Me].body.cards /\ w.counts[Me] = Size(h[Me].body.cards)
         /\ w.unheard = Seat \ {Me} /\ w.landlord = Marks(mark)
         /\ w.played = [s \in Seat |-> NoCards]

LEMMA WebDeals ==
  ASSUME NEW v, NEW mark, NEW start, NEW h, NEW g, NEW k, NEW l, NEW j, k \in Nat, l \in Nat,
         j \in Nat, k < l, Comes(start, "GameStart", g, k, j), start.to = NoSeat,
         v.game # g, g \notin v.seen,
         \A s \in Seat : h[s].to = s, Comes(h[Me], "DealCards", g, l, j)
  PROVE  DealtBy(v, mark, start, h, g, l, j)
<1> DEFINE u == Told("web", mark, v, start)
           w == Told("web", mark, u, h[Me])
           e == h[Me]
<1>1. At(u, g, k, j) /\ Begun(u, mark)
  BY WebBegins
<1>2. Later(k, j, l, j)
  BY DEF Later
<1> HIDE DEF u, e
<1>20. Comes(e, "DealCards", g, l, j)
  BY DEF e
<1>21. At(w, g, l, j) /\ GotHand(u, w, e.body)
  BY <1>1, <1>2, <1>20, WebGetsHand DEF e
<1>3. /\ At(w, g, l, j) /\ w.hand = h[Me].body.cards /\ w.counts[Me] = Size(h[Me].body.cards)
      /\ w.unheard = Seat \ {Me} /\ w.landlord = Marks(mark)
      /\ w.played = [s \in Seat |-> NoCards]
  BY <1>1, <1>21 DEF GotHand, Begun, e
<1> HIDE DEF w
<1>4. \A s \in Seat \ {Me} : h[s].to \notin {NoSeat, Me}
  BY DEF Seat, NoSeat
<1>5. \A x : \A s \in Seat \ {Me} : Told("web", mark, x, h[s]) = x
  BY <1>4, ToldNothing
<1>6. Leads("web", mark, v, << start, h[0], h[1], h[2] >>, w)
 <2>1. Me \in {0, 1, 2} /\ Seat = {0, 1, 2}
   BY MeAssumption DEF Seat
 <2>2. CASE Me = 0
  <3>1. w = Told("web", mark, w, h[1]) /\ w = Told("web", mark, w, h[2])
    BY <1>5, <2>1, <2>2
  <3>2. u = Told("web", mark, v, start) /\ w = Told("web", mark, u, h[0])
    BY <2>2 DEF u, w
  <3> QED BY <3>1, <3>2, FourLead
 <2>3. CASE Me = 1
  <3>1. u = Told("web", mark, u, h[0]) /\ w = Told("web", mark, w, h[2])
    BY <1>5, <2>1, <2>3
  <3>2. u = Told("web", mark, v, start) /\ w = Told("web", mark, u, h[1])
    BY <2>3 DEF u, w
  <3> QED BY <3>1, <3>2, FourLead
 <2>4. CASE Me = 2
  <3>1. u = Told("web", mark, u, h[0]) /\ u = Told("web", mark, u, h[1])
    BY <1>5, <2>1, <2>4
  <3>2. u = Told("web", mark, v, start) /\ w = Told("web", mark, u, h[2])
    BY <2>4 DEF u, w
  <3> QED BY <3>1, <3>2, FourLead
 <2> QED BY <2>1, <2>2, <2>3, <2>4
<1> QED BY <1>3, <1>6, Zenon DEF DealtBy

\* A landlord: the room hears of it, the landlord gets the hand with the bottom,
\* and the first turn begins.
LEMMA WebSeesLandlord ==
  ASSUME NEW v, NEW mark, NEW said, NEW hand, NEW ask,
         NEW g, NEW n, NEW m, NEW k, NEW l, NEW i, NEW j, NEW o, At(v, g, n, m),
         Later(n, m, k, j), Later(k, j, l, j), Later(l, j, i, o), Later(k, j, i, o),
         Comes(said, "Landlord", g, k, j), Comes(ask, "PlayTurn", g, i, o),
         hand.to \in Seat, hand.to = Me => Comes(hand, "DealCards", g, l, j), NEW t,
         t.phase = "Playing", t.game = g, t.must, t.player \in Seat,
         said.body.player = t.player, said.body.bottom = t.bottom, said.body.multiplier = t.multiplier,
         hand.to = t.player, hand.body.cards = t.hand \/ t.player # Me, hand.body.bottom = t.bottom,
         ask.body.player = t.player, ask.body.mustPlay = t.must,
         t.landlord = {t.player}, v.played = t.played, t.player # Me => v.hand = t.hand,
         t.counts[Me] = Size(t.hand),
         \A s \in Seat \ (v.unheard \cup {t.player, Me}) : v.counts[s] = t.counts[s]
  PROVE  \E w : Leads("web", mark, v, << said, hand >> \o << ask >>, w) /\ WebShows(w, t)
<1> DEFINE u == Told("web", mark, v, said)
           x == Told("web", mark, u, hand)
           w == Told("web", mark, x, ask)
<1>0. At(u, g, k, j) /\ HeardLandlord(v, u, said.body)
  BY WebHearsLandlord
<1>1. /\ At(u, g, k, j) /\ u.multiplier = t.multiplier
      /\ t.player # Me => u.hand = v.hand
      /\ u.bottom = t.bottom /\ u.counts[Me] = Size(u.hand)
      /\ \A s \in Seat \ {Me} : u.counts[s] = v.counts[s]
      /\ u.unheard = (v.unheard \cup {t.player}) \ {Me}
      /\ u.played = v.played /\ u.landlord = {t.player}
  BY <1>0 DEF HeardLandlord
<1> HIDE DEF u
<1>2. \E p \in {k, l} : At(x, g, p, j) /\ Later(p, j, i, o)
      /\ x.multiplier = t.multiplier /\ x.bottom = t.bottom /\ CardsAre(x, t)
 <2>1. CASE t.player = Me
  <3>1. Comes(hand, "DealCards", g, l, j) /\ hand.body.cards = t.hand
    BY <2>1
  <3>20. At(x, g, l, j) /\ GotHand(u, x, hand.body)
    BY <1>1, <3>1, WebGetsHand
  <3>2. /\ At(x, g, l, j) /\ x.multiplier = u.multiplier
        /\ x.hand = t.hand /\ x.bottom = t.bottom
        /\ x.counts[Me] = Size(t.hand)
        /\ \A s \in Seat \ {Me} : x.counts[s] = u.counts[s]
        /\ x.unheard = u.unheard \ {Me} /\ x.played = u.played /\ x.landlord = u.landlord
    BY <1>1, <3>1, <3>20 DEF GotHand
  <3> HIDE DEF x
  <3>3. CardsAre(x, t)
    BY <1>1, <2>1, <3>2 DEF CardsAre
  <3> QED BY <1>1, <3>2, <3>3
 <2>2. CASE t.player # Me
  <3>1. x = u
    BY <2>2, ToldNothing DEF Seat, NoSeat
  <3> HIDE DEF x
  <3>2. CardsAre(u, t)
    BY <1>1, <2>2 DEF CardsAre
  <3> QED BY <1>1, <3>1, <3>2
 <2> QED BY <2>1, <2>2
<1> HIDE DEF x
<1>3. PICK p \in {k, l} : /\ At(x, g, p, j) /\ Later(p, j, i, o)
                          /\ x.multiplier = t.multiplier /\ x.bottom = t.bottom /\ CardsAre(x, t)
  BY <1>2
<1>40. TableIs(x, t)
  BY <1>3 DEF TableIs
<1>4. WebShows(w, t)
  BY <1>3, <1>40, WebAsksPlay
<1> HIDE DEF w
<1>5. Leads("web", mark, v, << said, hand >>, x) /\ IsList(<< said, hand >>)
  BY TwoLead DEF u, x
<1>6. Leads("web", mark, x, << ask >>, w) /\ IsList(<< ask >>)
  BY OneLeads DEF w
<1>7. Leads("web", mark, v, << said, hand >> \o << ask >>, w)
  BY <1>5, <1>6, BothLead
<1> QED BY <1>4, <1>7

-----------------------------------------------------------------------------
(* What the session's state says, and what a command makes of it.          *)

\* What a browser that has been told everything shows.
Truth ==
  [phase |-> state, game |-> gameID, hand |-> hands[Me], played |-> playedCards,
   landlord |-> LandlordSeat, counts |-> [s \in Seat |-> Size(hands[s])],
   bidder |-> currentBidder, grab |-> landlordCaller # NoSeat,
   player |-> currentPlayer, bottom |-> bottomCards, must |-> MustPlay,
   last |-> lastPlayedHand, by |-> lastPlayerIdx, bombs |-> bombCount,
   multiplier |-> CurrentMultiplier]

LEMMA TruthNow ==
  /\ Truth.phase = state /\ Truth.game = gameID /\ Truth.hand = hands[Me]
  /\ Truth.played = playedCards /\ Truth.landlord = LandlordSeat
  /\ \A s \in Seat : Truth.counts[s] = Size(hands[s])
  /\ Truth.bidder = currentBidder /\ Truth.grab = (landlordCaller # NoSeat)
  /\ Truth.player = currentPlayer /\ Truth.bottom = bottomCards
  /\ Truth.must = MustPlay /\ Truth.last = lastPlayedHand /\ Truth.by = lastPlayerIdx
  /\ Truth.bombs = bombCount /\ Truth.multiplier = CurrentMultiplier
BY DEF Truth

LEMMA TruthNext ==
  /\ Truth'.phase = state' /\ Truth'.game = gameID' /\ Truth'.hand = hands'[Me]
  /\ Truth'.played = playedCards' /\ Truth'.landlord = LandlordSeat'
  /\ \A s \in Seat : Truth'.counts[s] = Size(hands'[s])
  /\ Truth'.bidder = currentBidder' /\ Truth'.grab = (landlordCaller' # NoSeat)
  /\ Truth'.player = currentPlayer' /\ Truth'.bottom = bottomCards'
  /\ Truth'.must = MustPlay' /\ Truth'.last = lastPlayedHand' /\ Truth'.by = lastPlayerIdx'
  /\ Truth'.bombs = bombCount' /\ Truth'.multiplier = CurrentMultiplier'
BY MeAssumption DEF Truth

\* The part of the game's invariant that a picture of it rests on.
GameShape ==
  /\ state \in {"Init", "Bidding", "Playing", "Ended"}
  /\ isLandlord \in [Seat -> BOOLEAN] /\ DOMAIN hands = Seat /\ DOMAIN playedCards = Seat
  /\ currentBidder \in Seat /\ currentPlayer \in Seat /\ bombCount \in Nat /\ bidMultiplier \in Nat
  /\ landlordCaller # NoSeat => landlordCandidate \in Seat
  /\ state \in {"Init", "Bidding"} =>
       isLandlord = [s \in Seat |-> FALSE] /\ roomLandlord = NoSeat /\ bombCount = 0

LEMMA InitShape == Init => GameShape
BY DEF Init, GameShape, Seat, NoSeat

LEMMA Next3InSeat == \A s \in Seat : Next3(s) \in Seat
BY DEF Next3, Seat

\* A seat is made landlord, the table is clear.
Crowned ==
  /\ state' = "Playing" /\ roomLandlord' \in Seat /\ LandlordSeat' = {roomLandlord'}
  /\ currentPlayer' = roomLandlord' /\ lastPlayerIdx' = roomLandlord' /\ bombCount' = 0

Fresh == playedCards' = [s \in Seat |-> NoCards] /\ bombCount' = 0

LEMMA CrownedBy ==
  ASSUME NEW idx \in Seat, NEW dealt, DOMAIN dealt = Seat, NEW bottom,
         NEW flags, flags = [s \in Seat |-> FALSE],
         SetLandlord(idx, dealt, bottom, flags), bombCount' = 0
  PROVE  /\ Crowned /\ isLandlord' \in [Seat -> BOOLEAN] /\ DOMAIN hands' = Seat
         /\ roomLandlord' = idx /\ turnID' = turnID + 1
         /\ \A s \in Seat \ {roomLandlord'} : hands'[s] = dealt[s]
<1>1. flags \in [Seat -> BOOLEAN] /\ \A s \in Seat : flags[s] = FALSE
  OBVIOUS
<1>2. /\ isLandlord' = [flags EXCEPT ![idx] = TRUE]
      /\ hands' = [dealt EXCEPT ![idx] = WithBottom(@, bottom)]
      /\ roomLandlord' = idx /\ turnID' = turnID + 1
      /\ state' = "Playing" /\ currentPlayer' = idx /\ lastPlayerIdx' = idx
  BY DEF SetLandlord
<1>3. isLandlord' \in [Seat -> BOOLEAN] /\ \A s \in Seat : isLandlord'[s] = (s = idx)
  BY <1>1, <1>2
<1>4. DOMAIN hands' = Seat /\ \A s \in Seat \ {idx} : hands'[s] = dealt[s]
  BY <1>2
<1>5. LandlordSeat' = {idx}
  BY <1>3 DEF LandlordSeat
<1> QED BY <1>2, <1>3, <1>4, <1>5 DEF Crowned

LEMMA StartsBidding ==
  ASSUME StartBiddingRound, GameShape
  PROVE  /\ GameShape' /\ Fresh /\ state' = "Bidding" /\ gameID' = gameID + 1
         /\ turnID' = turnID + 1 /\ LandlordSeat' = {} /\ roomLandlord' = NoSeat
         /\ landlordCaller' = NoSeat
<1>1. PICK d \in Deals, first \in RandomSeats :
        /\ DealNewRound(d) /\ hands' = d
        /\ isLandlord' = [s \in Seat |-> FALSE] /\ roomLandlord' = NoSeat
        /\ state' = "Bidding" /\ currentBidder' = first /\ turnID' = turnID + 1
        /\ UNCHANGED currentPlayer
  BY DEF StartBiddingRound
<1>2. d \in [Seat -> CardSet] /\ first \in Seat
  BY DealsAssumption, RandomSeatsAssumption
<1>3. /\ gameID' = gameID + 1 /\ playedCards' = [s \in Seat |-> NoCards]
      /\ bombCount' = 0 /\ bidMultiplier' = 1 /\ landlordCaller' = NoSeat
  BY <1>1 DEF DealNewRound
<1>4. LandlordSeat' = {}
  BY <1>1 DEF LandlordSeat
<1>5. GameShape'
  BY <1>1, <1>2, <1>3 DEF GameShape
<1> QED BY <1>1, <1>3, <1>4, <1>5 DEF Fresh

\* What a bid may come to.
BidGoesOn ==
  /\ gameID' = gameID /\ state' = "Bidding"
  /\ UNCHANGED << hands, playedCards, isLandlord, bottomCards, roomLandlord, bombCount >>

BidCrowns ==
  /\ gameID' = gameID /\ Crowned /\ UNCHANGED << playedCards, bottomCards >>
  /\ \A s \in Seat \ {roomLandlord'} : hands'[s] = hands[s]

BidRedeals ==
  gameID' = gameID + 1 /\ Fresh /\ state' = "Bidding" /\ LandlordSeat' = {}
  /\ roomLandlord' = NoSeat

BidForces == gameID' = gameID + 1 /\ Fresh /\ Crowned

LEMMA Redeals ==
  ASSUME Redeal, GameShape, state = "Bidding"
  PROVE  GameShape' /\ turnID' = turnID + 1 /\ (BidRedeals \/ BidForces)
<1>1. CASE StartBiddingRound
  BY <1>1, StartsBidding DEF BidRedeals
<1>2. CASE \E d \in Deals, idx \in RandomSeats :
             /\ DealNewRound(d)
             /\ SetLandlord(idx, d, Bottom(d), [s \in Seat |-> FALSE])
             /\ UNCHANGED currentBidder
 <2>1. PICK d \in Deals, idx \in RandomSeats :
            /\ DealNewRound(d)
            /\ SetLandlord(idx, d, Bottom(d), [s \in Seat |-> FALSE])
            /\ UNCHANGED currentBidder
   BY <1>2
 <2>2. d \in [Seat -> CardSet] /\ idx \in Seat
   BY DealsAssumption, RandomSeatsAssumption
 <2>3. /\ gameID' = gameID + 1 /\ playedCards' = [s \in Seat |-> NoCards]
       /\ bombCount' = 0 /\ bidMultiplier' = 1 /\ landlordCaller' = NoSeat
   BY <2>1 DEF DealNewRound
 <2>4. /\ Crowned /\ isLandlord' \in [Seat -> BOOLEAN] /\ DOMAIN hands' = Seat
       /\ turnID' = turnID + 1
   BY <2>1, <2>2, <2>3, CrownedBy
 <2>5. GameShape'
   BY <2>1, <2>3, <2>4 DEF GameShape, Crowned
 <2> QED BY <2>3, <2>4, <2>5 DEF BidForces, Fresh
<1> QED BY <1>1, <1>2 DEF Redeal

LEMMA BidComesTo ==
  ASSUME NEW bid \in BOOLEAN, Bid(bid), GameShape
  PROVE  /\ state = "Bidding" /\ GameShape' /\ turnID' = turnID + 1
         /\ BidGoesOn \/ BidCrowns \/ BidRedeals \/ BidForces
<1>0. state = "Bidding"
  BY DEF Bid
<1>1. ASSUME NEW seat \in Seat, AskToBid(seat), bidMultiplier' \in Nat,
             landlordCaller' # NoSeat => landlordCandidate' \in Seat
      PROVE  GameShape' /\ turnID' = turnID + 1 /\ BidGoesOn
 <2>1. /\ UNCHANGED << state, gameID, hands, bottomCards, isLandlord, playedCards, roomLandlord,
                       currentPlayer, bombCount >>
       /\ currentBidder' = seat /\ turnID' = turnID + 1
   BY <1>1 DEF AskToBid, cardVars, playVars, tallyVars
 <2> QED BY <1>0, <1>1, <2>1 DEF GameShape, BidGoesOn
<1>2. CASE Call
 <2>1. NextGrabber(currentBidder, currentBidder) \in Seat
   BY Next3InSeat DEF GameShape, NextGrabber
 <2>2. /\ AskToBid(NextGrabber(currentBidder, currentBidder)) /\ bidMultiplier' \in Nat
       /\ landlordCandidate' \in Seat
   BY <1>2 DEF Call, GameShape
 <2> DEFINE seat == NextGrabber(currentBidder, currentBidder)
 <2>3. seat \in Seat /\ AskToBid(seat)
   BY <2>1, <2>2
 <2> HIDE DEF seat
 <2>4. GameShape' /\ turnID' = turnID + 1 /\ BidGoesOn
   BY <1>1, <2>2, <2>3
 <2> QED BY <1>0, <2>4
<1>3. CASE NoCall
 <2>1. CASE Redeal
   BY <1>0, <2>1, Redeals
 <2>2. CASE ~Redeal
  <3>1. /\ AskToBid(Next3(currentBidder))
        /\ UNCHANGED << landlordCaller, landlordCandidate, bidMultiplier >>
    BY <1>3, <2>2 DEF NoCall
  <3>2. Next3(currentBidder) \in Seat
    BY Next3InSeat DEF GameShape
  <3>3. /\ bidMultiplier' \in Nat
        /\ landlordCaller' # NoSeat => landlordCandidate' \in Seat
    BY <3>1 DEF GameShape
  <3> DEFINE seat == Next3(currentBidder)
  <3>4. seat \in Seat /\ AskToBid(seat)
    BY <3>1, <3>2
  <3> HIDE DEF seat
  <3>5. GameShape' /\ turnID' = turnID + 1 /\ BidGoesOn
    BY <1>1, <3>3, <3>4
  <3> QED BY <1>0, <3>5
 <2> QED BY <2>1, <2>2
<1>4. CASE Grab(bid) /\ landlordCaller # NoSeat
 <2> DEFINE c == StandingCandidate(bid)
            passes == IF bid THEN 0 ELSE bidPasses + 1
 <2>1. c \in Seat
   BY <1>4 DEF GameShape, StandingCandidate
 <2>2. /\ landlordCandidate' = c /\ UNCHANGED landlordCaller
       /\ bidMultiplier' = IF bid THEN 2 * bidMultiplier ELSE bidMultiplier
       /\ IF AuctionOver(passes, grabActions + 1)
          THEN /\ SetLandlord(c, hands, bottomCards, isLandlord)
               /\ UNCHANGED << gameID, redealCount, currentBidder, bottomCards,
                               playedCards, lastPlayedHand, consecutivePasses, tallyVars >>
          ELSE AskToBid(NextGrabber(currentBidder, c))
   BY <1>4 DEF Grab
 <2>3. bidMultiplier' \in Nat
   BY <2>2 DEF GameShape
 <2>4. CASE AuctionOver(passes, grabActions + 1)
  <3>1. /\ SetLandlord(c, hands, bottomCards, isLandlord)
        /\ UNCHANGED << gameID, currentBidder, bottomCards, playedCards, bombCount >>
    BY <2>2, <2>4 DEF tallyVars
  <3>2. isLandlord = [s \in Seat |-> FALSE] /\ DOMAIN hands = Seat /\ bombCount' = 0
    BY <1>0, <3>1 DEF GameShape
  <3>3. /\ Crowned /\ isLandlord' \in [Seat -> BOOLEAN] /\ DOMAIN hands' = Seat
        /\ turnID' = turnID + 1
        /\ \A s \in Seat \ {roomLandlord'} : hands'[s] = hands[s]
    BY <2>1, <3>1, <3>2, CrownedBy
  <3>4. GameShape'
    BY <2>1, <2>2, <2>3, <3>1, <3>2, <3>3 DEF GameShape, Crowned
  <3> QED BY <1>0, <3>1, <3>3, <3>4 DEF BidCrowns
 <2>5. CASE ~AuctionOver(passes, grabActions + 1)
  <3>1. NextGrabber(currentBidder, c) \in Seat
    BY Next3InSeat DEF GameShape, NextGrabber
  <3> QED BY <1>0, <1>1, <2>1, <2>2, <2>3, <2>5, <3>1
 <2> QED BY <2>4, <2>5
<1> QED BY <1>0, <1>2, <1>3, <1>4 DEF Bid

\* What a play or a pass comes to.
LEMMA PlayComesTo ==
  ASSUME NEW cards, PlayCards(cards), GameShape, turnID \in Nat
  PROVE  /\ GameShape' /\ state = "Playing" /\ gameID' = gameID
         /\ currentPlayer \in Seat /\ LandlordSeat' = LandlordSeat
         /\ lastPlayedHand' = cards /\ lastPlayerIdx' = currentPlayer
         /\ hands'[currentPlayer] = Minus(hands[currentPlayer], cards)
         /\ \A s \in Seat \ {currentPlayer} : hands'[s] = hands[s]
         /\ playedCards' = [playedCards EXCEPT ![currentPlayer] = Plus(@, cards)]
         /\ UNCHANGED << bottomCards, bidMultiplier, roomLandlord >>
         /\ bombCount' = 0 => bombCount = 0
         /\ \/ state' = "Ended" /\ turnID' = turnID
            \/ state' = "Playing" /\ turnID' = turnID + 1
<1>1. /\ state = "Playing" /\ lastPlayedHand' = cards /\ lastPlayerIdx' = currentPlayer
      /\ hands' = [hands EXCEPT ![currentPlayer] = Minus(hands[currentPlayer], cards)]
      /\ playedCards' = [playedCards EXCEPT ![currentPlayer] = Plus(@, cards)]
      /\ gameID' = gameID
      /\ UNCHANGED << bidVars, bottomCards, isLandlord, roomLandlord >>
      /\ bombCount' = bombCount \/ bombCount' = bombCount + 1
  BY DEF PlayCards, GameShape
<1>2. currentPlayer \in Seat /\ bombCount \in Nat /\ DOMAIN hands = Seat /\ DOMAIN playedCards = Seat
  BY DEF GameShape
<1>3. \/ state' = "Ended" /\ UNCHANGED << turnID, currentPlayer >>
      \/ state' = "Playing" /\ currentPlayer' = Next3(currentPlayer) /\ turnID' = turnID + 1
  BY <1>1 DEF PlayCards, EndGame, AskToPlay
<1>4. currentPlayer' \in Seat
  BY <1>2, <1>3, Next3InSeat
<1>5. LandlordSeat' = LandlordSeat
  BY <1>1 DEF LandlordSeat
<1>6. GameShape'
  BY <1>1, <1>2, <1>3, <1>4 DEF GameShape, bidVars
<1> QED BY <1>1, <1>2, <1>3, <1>5, <1>6 DEF bidVars

LEMMA PassComesTo ==
  ASSUME Pass, GameShape, turnID \in Nat
  PROVE  /\ GameShape' /\ state = "Playing" /\ state' = "Playing" /\ gameID' = gameID
         /\ turnID' = turnID + 1 /\ LandlordSeat' = LandlordSeat /\ ~MustPlay
         /\ UNCHANGED << hands, playedCards, bottomCards, bidMultiplier, bombCount, roomLandlord >>
         /\ MustPlay' \/ UNCHANGED << lastPlayedHand, lastPlayerIdx >>
<1>1. /\ state = "Playing" /\ ~MustPlay /\ currentPlayer' = Next3(currentPlayer)
      /\ turnID' = turnID + 1
      /\ UNCHANGED << state, gameID, bidVars, cardVars, tallyVars, roomLandlord >>
      /\ lastPlayedHand' = NoCards \/ UNCHANGED << lastPlayedHand, lastPlayerIdx >>
  BY DEF Pass, AskToPlay
<1>2. GameShape'
  BY <1>1, Next3InSeat DEF GameShape, bidVars, cardVars, tallyVars
<1>3. LandlordSeat' = LandlordSeat
  BY <1>1 DEF LandlordSeat, cardVars
<1>4. lastPlayedHand' = NoCards => MustPlay'
  BY DEF MustPlay
<1> QED BY <1>1, <1>2, <1>3, <1>4 DEF bidVars, cardVars, tallyVars

LEMMA ReopenKeepsShape ==
  ASSUME ResetAfterGame, GameShape
  PROVE  GameShape' /\ Truth' = Truth
<1>1. UNCHANGED << state, gameID, bidVars, cardVars, playVars, tallyVars >> /\ state = "Ended"
  BY DEF ResetAfterGame
<1> QED BY <1>1 DEF GameShape, Truth, bidVars, cardVars, playVars, tallyVars,
            LandlordSeat, MustPlay, CurrentMultiplier

LEMMA StartComesTo ==
  ASSUME Start, GameShape
  PROVE  /\ GameShape' /\ Fresh /\ state' = "Bidding" /\ gameID' = gameID + 1
         /\ turnID' = turnID + 1 /\ LandlordSeat' = {} /\ roomLandlord' = NoSeat
BY StartsBidding DEF Start

-----------------------------------------------------------------------------
(* What a browser makes of the events of a command.                        *)

\* Once told all of events, the picture v shows the state after the command.
TellsTruth(v, events) ==
  \E w : Leads("web", roomLandlord', v, events, w) /\ WebShows(w, Truth')

Counting == gameID' \in Nat /\ turnID \in Nat /\ turnID' \in Nat /\ turnID <= turnID'

LEMMA ThenTellsTruth ==
  ASSUME NEW v, NEW w, NEW s, NEW r, IsList(s), IsList(r),
         Leads("web", roomLandlord', v, s, w), TellsTruth(w, r)
  PROVE  TellsTruth(v, s \o r)
<1>1. PICK x : Leads("web", roomLandlord', w, r, x) /\ WebShows(x, Truth')
  BY DEF TellsTruth
<1>2. Leads("web", roomLandlord', v, s \o r, x)
  BY <1>1, BothLead
<1> QED BY <1>1, <1>2 DEF TellsTruth

LEMMA OneTellsTruth ==
  ASSUME NEW v, NEW e, WebShows(Told("web", roomLandlord', v, e), Truth')
  PROVE  TellsTruth(v, << e >>)
<1> DEFINE w == Told("web", roomLandlord', v, e)
<1>1. Leads("web", roomLandlord', v, << e >>, w)
  BY OneLeads
<1> HIDE DEF w
<1> QED BY <1>1 DEF TellsTruth, w

LEMMA StampedIsList ==
  ASSUME NEW s, NEW g, NEW t, AllStamped(s, g, t)
  PROVE  IsList(s)
BY DEF AllStamped, IsList

LEMMA OneIsList == ASSUME NEW e PROVE IsList(<< e >>)
BY OneLeads

LEMMA NoBombs ==
  ASSUME bidMultiplier' \in Nat, bombCount' = 0, state' # "Ended"
  PROVE  CurrentMultiplier' = bidMultiplier'
<1>1. 2 ^ 0 = 1
  BY SMT
<1> DEFINE power == 2 ^ 0
           m == bidMultiplier'
<1>2. CurrentMultiplier' = m * power
  BY DEF CurrentMultiplier
<1>3. power = 1 /\ m \in Nat
  BY <1>1
<1> HIDE DEF power, m
<1>4. m * power = m
  BY <1>3
<1> QED BY <1>2, <1>4 DEF m

\* The stamps.
LEMMA EventComes ==
  ASSUME NEW type, NEW to, to \in {NoSeat, Me}, NEW g, NEW k, NEW j, NEW b
  PROVE  /\ Comes(Event(type, to, Meta(g, k, j), b), type, g, k, j)
         /\ Event(type, to, Meta(g, k, j), b).body = b
         /\ Event(type, to, Meta(g, k, j), b).to = to
BY DEF Comes, Event, Meta

LEMMA AsksBidder ==
  ASSUME NEW v, NEW n \in Nat, At(v, gameID', n, turnID'), CardsAre(v, Truth'), Counting,
         state' = "Bidding", bombCount' = 0, bidMultiplier' \in Nat
  PROVE  TellsTruth(v, BidTurnEvents(n))
<1> DEFINE t == Truth'
           b == [player |-> currentBidder', isGrab |-> landlordCaller' # NoSeat,
                 multiplier |-> bidMultiplier']
           e == Event("BidTurn", NoSeat, After(n + 1), b)
<1>1. /\ t.phase = "Bidding" /\ t.game = gameID' /\ t.multiplier = bidMultiplier'
      /\ t.bidder = currentBidder' /\ t.grab = (landlordCaller' # NoSeat) /\ CardsAre(v, t)
  BY TruthNext, NoBombs
<1>2. Comes(e, "BidTurn", gameID', n + 1, turnID') /\ e.body = b
  BY EventComes DEF After
<1>3. BidTurnEvents(n) = << e >>
  BY DEF BidTurnEvents
<1>4. /\ b.player = currentBidder' /\ b.isGrab = (landlordCaller' # NoSeat)
      /\ b.multiplier = bidMultiplier'
  OBVIOUS
<1> HIDE DEF t, e, b
<1> DEFINE g == gameID'
           k == n + 1
           j == turnID'
           mark == roomLandlord'
<1>5. Later(n, j, k, j)
  BY DEF Later, Counting
<1>6. At(v, g, n, j) /\ Comes(e, "BidTurn", g, k, j) /\ t.game = g
  BY <1>1, <1>2
<1> HIDE DEF g, k, j, mark
<1>7. /\ e.body.player = t.bidder /\ e.body.isGrab = t.grab /\ e.body.multiplier = t.multiplier
  BY <1>1, <1>2, <1>4
<1>8. WebShows(Told("web", mark, v, e), t)
  BY <1>1, <1>5, <1>6, <1>7, WebAsksBid
<1> QED BY <1>3, <1>8, OneTellsTruth DEF t, mark

LEMMA AsksPlayer ==
  ASSUME NEW v, NEW n \in Nat, At(v, gameID', n, turnID'), CardsAre(v, Truth'), Counting,
         state' = "Playing", v.bottom = bottomCards',
         MustPlay' \/ (v.lastPlayed = lastPlayedHand' /\ v.lastPlayedBy = lastPlayerIdx'),
         bombCount' = 0 => v.multiplier = CurrentMultiplier'
  PROVE  TellsTruth(v, PlayTurnEvents(n))
<1> DEFINE t == Truth'
           b == [player |-> currentPlayer', mustPlay |-> MustPlay']
           e == Event("PlayTurn", NoSeat, After(n + 1), b)
<1>1. /\ t.phase = "Playing" /\ t.game = gameID' /\ t.multiplier = CurrentMultiplier'
      /\ t.player = currentPlayer' /\ t.must = MustPlay' /\ CardsAre(v, t)
      /\ TableIs(v, t)
  BY TruthNext DEF TableIs
<1>2. Comes(e, "PlayTurn", gameID', n + 1, turnID') /\ e.body = b
  BY EventComes DEF After
<1>3. PlayTurnEvents(n) = << e >>
  BY DEF PlayTurnEvents
<1>4. b.player = currentPlayer' /\ b.mustPlay = MustPlay'
  OBVIOUS
<1> HIDE DEF t, e, b
<1> DEFINE g == gameID'
           k == n + 1
           j == turnID'
           mark == roomLandlord'
<1>5. Later(n, j, k, j)
  BY DEF Later, Counting
<1>6. At(v, g, n, j) /\ Comes(e, "PlayTurn", g, k, j) /\ t.game = g
  BY <1>1, <1>2
<1> HIDE DEF g, k, j, mark
<1>7. e.body.player = t.player /\ e.body.mustPlay = t.must
  BY <1>1, <1>2, <1>4
<1>8. WebShows(Told("web", mark, v, e), t)
  BY <1>1, <1>5, <1>6, <1>7, WebAsksPlay
<1> QED BY <1>3, <1>8, OneTellsTruth DEF t, mark

LEMMA TellsLandlord ==
  ASSUME NEW v, NEW n \in Nat, At(v, gameID', n, turnID), Crowned, Counting,
         bidMultiplier' \in Nat, v.played = playedCards',
         roomLandlord' # Me => v.hand = hands'[Me],
         \A s \in Seat \ (v.unheard \cup {roomLandlord', Me}) : v.counts[s] = Size(hands'[s])
  PROVE  TellsTruth(v, LandlordEvents(n))
<1> DEFINE t == Truth'
           p == roomLandlord'
           b == [player |-> roomLandlord', bottom |-> bottomCards', multiplier |-> bidMultiplier']
           c == [cards |-> hands'[roomLandlord'], bottom |-> bottomCards']
           d == [player |-> currentPlayer', mustPlay |-> MustPlay']
           said == Event("Landlord", NoSeat, Before(n + 1), b)
           hand == Event("DealCards", p, Before(n + 2), c)
           ask == Event("PlayTurn", NoSeat, After((n + 2) + 1), d)
<1>1. LandlordEvents(n) = << said, hand >> \o << ask >>
  BY DEF LandlordEvents, PlayTurnEvents
<1>2. MustPlay' /\ CurrentMultiplier' = bidMultiplier'
  BY NoBombs DEF Crowned, MustPlay
<1>3. /\ t.phase = "Playing" /\ t.game = gameID' /\ t.must /\ t.player = p
      /\ t.bottom = bottomCards' /\ t.multiplier = bidMultiplier' /\ t.landlord = {p}
      /\ t.played = playedCards' /\ t.hand = hands'[Me]
      /\ \A s \in Seat : t.counts[s] = Size(hands'[s])
  BY <1>2, TruthNext DEF Crowned
<1>4. /\ Comes(said, "Landlord", gameID', n + 1, turnID) /\ said.body = b
      /\ Comes(ask, "PlayTurn", gameID', (n + 2) + 1, turnID') /\ ask.body = d
  BY EventComes DEF Before, After
<1>5. hand.to = p /\ hand.body = c
  BY DEF Event
<1>6. p = Me => Comes(hand, "DealCards", gameID', n + 2, turnID)
  BY EventComes DEF Before
<1>7. p \in Seat /\ currentPlayer' = p
  BY DEF Crowned
<1>8. /\ b.player = p /\ b.bottom = bottomCards' /\ b.multiplier = bidMultiplier'
      /\ c.cards = hands'[p] /\ c.bottom = bottomCards' /\ d.player = p /\ d.mustPlay
  BY <1>2, <1>7
<1>9. p # Me => v.hand = hands'[Me]
  OBVIOUS
<1>91. \A s \in Seat \ (v.unheard \cup {p, Me}) : v.counts[s] = Size(hands'[s])
  OBVIOUS
<1>92. d.mustPlay = t.must
  BY <1>2, TruthNext
<1> HIDE DEF t, p, said, hand, ask, b, c, d
<1> DEFINE g == gameID'
           mark == roomLandlord'
           i == (n + 2) + 1
           j == turnID
           o == turnID'
           k == n + 1
           l == n + 2
<1>10. At(v, g, n, j) /\ Comes(said, "Landlord", g, k, j) /\ Comes(ask, "PlayTurn", g, i, o)
       /\ (p = Me => Comes(hand, "DealCards", g, l, j)) /\ t.game = g
  BY <1>3, <1>4, <1>6
<1>11. Later(n, j, k, j) /\ Later(k, j, l, j) /\ Later(l, j, i, o) /\ Later(k, j, i, o)
  BY DEF Later, Counting
<1> HIDE DEF g, mark, i, j, o, k, l
<1>12. /\ hand.to \in Seat /\ t.player \in Seat
       /\ (hand.to = Me => Comes(hand, "DealCards", g, l, j))
       /\ said.body.player = t.player /\ said.body.bottom = t.bottom
       /\ said.body.multiplier = t.multiplier /\ hand.to = t.player
       /\ hand.body.cards = t.hand \/ t.player # Me
       /\ hand.body.bottom = t.bottom /\ ask.body.player = t.player /\ ask.body.mustPlay = t.must
  BY <1>3, <1>4, <1>5, <1>7, <1>8, <1>10, <1>92
<1>13. /\ t.landlord = {t.player} /\ v.played = t.played /\ (t.player # Me => v.hand = t.hand)
       /\ t.counts[Me] = Size(t.hand)
  BY <1>3, <1>9, MeAssumption
<1>14. \A s \in Seat \ (v.unheard \cup {t.player, Me}) : v.counts[s] = t.counts[s]
  BY <1>3, <1>91
<1>15. \E w : Leads("web", mark, v, << said, hand >> \o << ask >>, w) /\ WebShows(w, t)
  BY <1>3, <1>10, <1>11, <1>12, <1>13, <1>14, WebSeesLandlord
<1> QED BY <1>1, <1>15 DEF TellsTruth, t, mark

\* A deal, before anybody is asked.
LEMMA TellsDeal ==
  ASSUME NEW v, NEW n \in Nat, Counting, v.game # gameID', gameID' \notin v.seen,
         roomLandlord' \in Seat \cup {NoSeat}
  PROVE  \E w : /\ Leads("web", roomLandlord', v, DealEvents(n), w)
                /\ At(w, gameID', n + 2, turnID)
                /\ roomLandlord' # Me => w.hand = hands'[Me] /\ w.counts[Me] = Size(hands'[Me])
                /\ w.unheard = Seat \ {Me} /\ w.landlord = Marks(roomLandlord')
                /\ w.played = [s \in Seat |-> NoCards]
<1> DEFINE dealt(s) == IF roomLandlord' = s THEN Minus(hands'[s], bottomCards') ELSE hands'[s]
           hand(s) == Event("DealCards", s, Before(n + 2),
                            [cards |-> dealt(s), bottom |-> NoCards])
           start == Event("GameStart", NoSeat, Before(n + 1), << >>)
           h == [s \in Seat |-> hand(s)]
<1>1. DealEvents(n) = << start, hand(0), hand(1), hand(2) >>
  BY DEF DealEvents
<1>2. h[0] = hand(0) /\ h[1] = hand(1) /\ h[2] = hand(2)
  BY DEF Seat
<1>3. \A s \in Seat : h[s].to = s
  BY DEF Event
<1>4. /\ Comes(hand(Me), "DealCards", gameID', n + 2, turnID)
      /\ hand(Me).body = [cards |-> dealt(Me), bottom |-> NoCards]
  BY EventComes DEF Before
<1>5. Comes(start, "GameStart", gameID', n + 1, turnID) /\ start.to = NoSeat
  BY EventComes DEF Before
<1>6. roomLandlord' # Me => dealt(Me) = hands'[Me]
  OBVIOUS
<1>7. h[Me] = hand(Me)
  BY MeAssumption
<1>8. Comes(h[Me], "DealCards", gameID', n + 2, turnID) /\ h[Me].body.cards = dealt(Me)
  BY <1>4, <1>7
<1>9. DealEvents(n) = << start, h[0], h[1], h[2] >>
  BY <1>1, <1>2
<1> HIDE DEF start, hand, h, dealt
<1> DEFINE g == gameID'
           k == n + 1
           l == n + 2
           j == turnID
           mark == roomLandlord'
<1>10. k \in Nat /\ l \in Nat /\ k < l /\ j \in Nat
  BY DEF Counting
<1>11. Comes(h[Me], "DealCards", g, l, j) /\ Comes(start, "GameStart", g, k, j)
       /\ v.game # g /\ g \notin v.seen
  BY <1>5, <1>8
<1> HIDE DEF g, k, l, j, mark
<1>12. DealtBy(v, mark, start, h, g, l, j)
  BY <1>3, <1>5, <1>10, <1>11, WebDeals
<1>13. PICK w : /\ Leads("web", mark, v, << start, h[0], h[1], h[2] >>, w) /\ At(w, g, l, j)
              /\ w.hand = h[Me].body.cards /\ w.counts[Me] = Size(h[Me].body.cards)
              /\ w.unheard = Seat \ {Me} /\ w.landlord = Marks(mark)
              /\ w.played = [s \in Seat |-> NoCards]
  BY <1>12, Zenon DEF DealtBy
<1>14. roomLandlord' # Me => w.hand = hands'[Me] /\ w.counts[Me] = Size(hands'[Me])
  BY <1>6, <1>8, <1>13
<1> QED BY <1>9, <1>13, <1>14 DEF mark, g, l, j

-----------------------------------------------------------------------------
(* The events of each command tell a browser the state after it.           *)

LEMMA AtLater ==
  ASSUME NEW v, NEW g, NEW n \in Nat, NEW m \in Nat, NEW k \in Nat, NEW j \in Nat,
         At(v, g, n, m), n <= k, m <= j
  PROVE  At(v, g, k, j)
BY DEF At

LEMMA EventsAreLists ==
  ASSUME NEW n \in Nat, Counting
  PROVE  /\ IsList(DealEvents(n)) /\ IsList(AskEvents(n)) /\ IsList(PlayTurnEvents(n))
         /\ IsList(BidTurnEvents(n)) /\ IsList(LandlordEvents(n))
<1>1. gameID' \in Nat /\ turnID' \in Nat /\ turnID \in Nat /\ turnID <= turnID'
  BY DEF Counting
<1> QED BY <1>1, DealEventsStamped, AskEventsStamped, TurnEventsStamped, LandlordEventsStamped,
           StampedIsList

LEMMA DealThenAsk ==
  ASSUME NEW v, NEW n \in Nat, Counting, Fresh, GameShape', v.game # gameID', gameID' \notin v.seen,
         \/ state' = "Bidding" /\ LandlordSeat' = {} /\ roomLandlord' = NoSeat
         \/ Crowned
  PROVE  TellsTruth(v, DealEvents(n) \o AskEvents(n + 2))
<1>1. roomLandlord' \in Seat \cup {NoSeat} /\ bidMultiplier' \in Nat
  BY DEF Crowned, GameShape
<1>2. PICK w : /\ Leads("web", roomLandlord', v, DealEvents(n), w)
               /\ At(w, gameID', n + 2, turnID)
               /\ roomLandlord' # Me => w.hand = hands'[Me] /\ w.counts[Me] = Size(hands'[Me])
               /\ w.unheard = Seat \ {Me} /\ w.landlord = Marks(roomLandlord')
               /\ w.played = [s \in Seat |-> NoCards]
  BY <1>1, TellsDeal
<1>3. turnID \in Nat /\ turnID' \in Nat /\ turnID <= turnID' /\ n + 2 \in Nat
  BY DEF Counting
<1> DEFINE k == n + 2
<1>4. k \in Nat /\ At(w, gameID', k, turnID)
  BY <1>2, <1>3
<1> HIDE DEF k
<1>5. TellsTruth(w, AskEvents(k))
 <2>1. CASE state' = "Bidding" /\ LandlordSeat' = {} /\ roomLandlord' = NoSeat
  <3>1. roomLandlord' # Me
    BY <2>1, MeAssumption DEF Seat, NoSeat
  <3> DEFINE t == Truth'
  <3>2. /\ t.hand = hands'[Me] /\ t.played = playedCards' /\ t.landlord = {}
        /\ t.counts[Me] = Size(hands'[Me])
    BY <2>1, TruthNext, MeAssumption
  <3> HIDE DEF t
  <3>3. Marks(NoSeat) = {}
    BY DEF Marks
  <3>4. CardsAre(w, t)
    BY <1>2, <2>1, <3>1, <3>2, <3>3 DEF CardsAre, Fresh
  <3>5. At(w, gameID', k, turnID')
   <4> DEFINE g == gameID'
              m == turnID
              j == turnID'
   <4>1. m \in Nat /\ j \in Nat /\ m <= j /\ At(w, g, k, m) /\ k <= k
     BY <1>3, <1>4
   <4> HIDE DEF g, m, j
   <4>2. At(w, g, k, j)
     BY <1>4, <4>1, AtLater
   <4> QED BY <4>2 DEF g, j
  <3>6. TellsTruth(w, BidTurnEvents(k))
    BY <1>1, <1>4, <2>1, <3>4, <3>5, AsksBidder DEF t, Fresh
  <3> QED BY <2>1, <3>6 DEF AskEvents
 <2>2. CASE Crowned
  <3>1. w.played = playedCards' /\ (roomLandlord' # Me => w.hand = hands'[Me])
    BY <1>2 DEF Fresh
  <3>2. Seat \ (w.unheard \cup {roomLandlord', Me}) = {}
    BY <1>2
  <3>3. \A s \in Seat \ (w.unheard \cup {roomLandlord', Me}) : w.counts[s] = Size(hands'[s])
    BY <3>2
  <3>4. TellsTruth(w, LandlordEvents(k))
    BY <1>1, <1>4, <2>2, <3>1, <3>3, TellsLandlord
  <3> QED BY <2>2, <3>4 DEF AskEvents, Crowned
 <2> QED BY <2>1, <2>2
<1>6. IsList(DealEvents(n)) /\ IsList(AskEvents(k))
  BY <1>4, EventsAreLists
<1>7. TellsTruth(v, DealEvents(n) \o AskEvents(k))
  BY <1>2, <1>5, <1>6, ThenTellsTruth
<1> QED BY <1>7 DEF k

\* A picture that shows the state before the command.
Shown(v) ==
  /\ At(v, gameID, snapshotVersion, turnID) /\ snapshotVersion \in Nat /\ turnID \in Nat
  /\ gameID \in Nat /\ v.seen \subseteq 0..gameID
  /\ WebShows(v, Truth)

LEMMA BidTells ==
  ASSUME NEW bid \in BOOLEAN, Bid(bid), GameShape, NEW v, Shown(v)
  PROVE  TellsTruth(v, BidEvents(bid))
<1> DEFINE n == snapshotVersion
           b == [player |-> currentBidder, bid |-> bid,
                      isGrab |-> landlordCaller # NoSeat,
                      multiplier |-> IF gameID' = gameID THEN bidMultiplier'
                                     ELSE bidMultiplier]
           said == Event("BidResult", NoSeat, Meta(gameID, n + 1, turnID), b)
           u == Told("web", roomLandlord', v, said)
           rest == IF gameID' = gameID THEN AskEvents(n + 1)
                   ELSE DealEvents(n + 1) \o AskEvents(n + 3)
<1>1. /\ state = "Bidding" /\ GameShape' /\ turnID' = turnID + 1
      /\ BidGoesOn \/ BidCrowns \/ BidRedeals \/ BidForces
  BY BidComesTo
<1>2. BidEvents(bid) = << said >> \o rest
  BY DEF BidEvents
<1>3. n \in Nat /\ turnID \in Nat /\ gameID \in Nat /\ n + 1 \in Nat
  BY DEF Shown
<1>4. Counting /\ bidMultiplier' \in Nat
  BY <1>1, <1>3 DEF Counting, BidGoesOn, BidCrowns, BidRedeals, BidForces, GameShape
<1>5. Comes(said, "BidResult", gameID, n + 1, turnID)
  BY EventComes
<1> HIDE DEF b, said
<1>6. At(u, gameID, n + 1, turnID) /\ SameCards(v, u) /\ u.seen = v.seen \cup {gameID}
 <2> DEFINE k == n + 1
            m == turnID
            g == gameID
            mark == roomLandlord'
 <2>1. Later(n, m, k, m) /\ At(v, g, n, m) /\ Comes(said, "BidResult", g, k, m)
   BY <1>3, <1>5 DEF Later, Shown
 <2> HIDE DEF n, k, m, g, mark
 <2>2. /\ SameCards(v, Told("web", mark, v, said)) /\ At(Told("web", mark, v, said), g, k, m)
       /\ HasSeen(v, Told("web", mark, v, said), g)
   BY <2>1, WebHearsBid
 <2> QED BY <2>2 DEF n, k, m, g, mark, HasSeen
<1> HIDE DEF u
<1> DEFINE k == n + 1
<1>7. k \in Nat /\ At(u, gameID, k, turnID) /\ At(u, gameID, k, turnID')
 <2>1. k \in Nat /\ turnID \in Nat /\ turnID + 1 \in Nat /\ k <= k /\ turnID <= turnID + 1
   BY <1>3
 <2>2. At(u, gameID, k, turnID)
   BY <1>6
 <2> HIDE DEF k
 <2>3. At(u, gameID, k, turnID + 1)
   BY <2>1, <2>2, AtLater
 <2> QED BY <1>1, <2>1, <2>2, <2>3
<1>8. n + 3 = k + 2
  BY <1>3
<1>9. rest = IF gameID' = gameID THEN AskEvents(k) ELSE DealEvents(k) \o AskEvents(k + 2)
  BY <1>8
<1> HIDE DEF n, k, rest
<1>10. /\ u.hand = hands[Me] /\ u.played = playedCards /\ u.landlord = LandlordSeat
       /\ \A s \in Seat \ u.unheard : u.counts[s] = Size(hands[s])
 <2>1. CardsAre(v, Truth)
   BY DEF Shown, WebShows
 <2> QED BY <1>6, <2>1, TruthNow DEF CardsAre, SameCards
<1>11. u.game # gameID + 1 /\ gameID + 1 \notin u.seen
  BY <1>3, <1>6 DEF At, Shown
<1>12. TellsTruth(u, rest)
 <2>1. CASE BidGoesOn
  <3> DEFINE t == Truth'
  <3>1. LandlordSeat' = LandlordSeat
    BY <2>1 DEF BidGoesOn, LandlordSeat
  <3>2. /\ t.hand = hands[Me] /\ t.played = playedCards /\ t.landlord = LandlordSeat
        /\ \A s \in Seat : t.counts[s] = Size(hands[s])
    BY <2>1, <3>1, TruthNext DEF BidGoesOn
  <3> HIDE DEF t
  <3>3. CardsAre(u, t)
    BY <1>10, <3>2 DEF CardsAre
  <3>4. /\ bombCount' = 0 /\ state' = "Bidding" /\ gameID' = gameID
    BY <1>1, <2>1 DEF BidGoesOn, GameShape
  <3>5. TellsTruth(u, BidTurnEvents(k))
    BY <1>4, <1>7, <3>3, <3>4, AsksBidder DEF t
  <3> QED BY <1>9, <3>4, <3>5 DEF AskEvents
 <2>2. CASE BidCrowns
  <3>1. /\ gameID' = gameID /\ Crowned /\ u.played = playedCards'
        /\ roomLandlord' # Me => u.hand = hands'[Me]
        /\ \A s \in Seat \ (u.unheard \cup {roomLandlord', Me}) : u.counts[s] = Size(hands'[s])
    BY <1>10, <2>2, MeAssumption DEF BidCrowns
  <3>2. TellsTruth(u, LandlordEvents(k))
    BY <1>4, <1>7, <3>1, TellsLandlord
  <3> QED BY <1>9, <3>1, <3>2 DEF AskEvents, Crowned
 <2>3. CASE BidRedeals \/ BidForces
  <3>1. /\ gameID' = gameID + 1 /\ gameID' # gameID /\ Fresh
        /\ \/ state' = "Bidding" /\ LandlordSeat' = {} /\ roomLandlord' = NoSeat
           \/ Crowned
    BY <1>3, <2>3 DEF BidRedeals, BidForces
  <3>2. u.game # gameID' /\ gameID' \notin u.seen
    BY <1>11, <3>1
  <3>3. TellsTruth(u, DealEvents(k) \o AskEvents(k + 2))
    BY <1>1, <1>4, <1>7, <3>1, <3>2, DealThenAsk
  <3> QED BY <1>9, <3>1, <3>3
 <2> QED BY <1>1, <2>1, <2>2, <2>3
<1>13. IsList(rest)
 <2>1. IsList(AskEvents(k))
   BY <1>4, <1>7, EventsAreLists
 <2>2. AllStamped(DealEvents(k) \o AskEvents(k + 2), gameID', turnID')
  <3>1. gameID' \in Nat /\ turnID' \in Nat /\ turnID \in Nat /\ turnID <= turnID'
    BY <1>4 DEF Counting
  <3>2. k + 2 \in Nat
    BY <1>7
  <3>3. /\ AllStamped(DealEvents(k), gameID', turnID')
        /\ AllStamped(AskEvents(k + 2), gameID', turnID')
    BY <1>7, <3>1, <3>2, DealEventsStamped, AskEventsStamped
  <3> QED BY <3>3, JoinedStamped
 <2> QED BY <1>9, <2>1, <2>2, StampedIsList
<1>14. Leads("web", roomLandlord', v, << said >>, u) /\ IsList(<< said >>)
  BY OneLeads DEF u
<1> QED BY <1>2, <1>12, <1>13, <1>14, ThenTellsTruth

LEMMA StartTells ==
  ASSUME Start, GameShape, NEW v, v.game # gameID + 1, gameID + 1 \notin v.seen,
         gameID \in Nat, turnID \in Nat, snapshotVersion \in Nat
  PROVE  TellsTruth(v, DealEvents(snapshotVersion) \o AskEvents(snapshotVersion + 2))
<1>1. /\ GameShape' /\ Fresh /\ state' = "Bidding" /\ gameID' = gameID + 1
      /\ turnID' = turnID + 1 /\ LandlordSeat' = {} /\ roomLandlord' = NoSeat
  BY StartComesTo
<1>2. Counting
  BY <1>1 DEF Counting
<1> QED BY <1>1, <1>2, DealThenAsk

LEMMA PassTells ==
  ASSUME Pass, GameShape, NEW v, Shown(v)
  PROVE  TellsTruth(v, PassEvents)
<1> DEFINE n == snapshotVersion
           k == n + 1
           b == [player |-> currentPlayer]
           said == Event("PlayerPass", NoSeat, Meta(gameID', k, turnID), b)
           u == Told("web", roomLandlord', v, said)
<1>0. n \in Nat /\ k \in Nat /\ turnID \in Nat /\ gameID \in Nat
  BY DEF Shown
<1>1. /\ GameShape' /\ state = "Playing" /\ state' = "Playing" /\ gameID' = gameID
      /\ turnID' = turnID + 1 /\ LandlordSeat' = LandlordSeat /\ ~MustPlay
      /\ UNCHANGED << hands, playedCards, bottomCards, bidMultiplier, bombCount, roomLandlord >>
      /\ MustPlay' \/ UNCHANGED << lastPlayedHand, lastPlayerIdx >>
  BY <1>0, PassComesTo
<1>2. Counting
  BY <1>0, <1>1 DEF Counting
<1>3. PassEvents = << said >> \o PlayTurnEvents(k)
  BY DEF PassEvents, Before
<1>5. Comes(said, "PlayerPass", gameID, k, turnID)
  BY <1>1, EventComes
<1> HIDE DEF b, said
<1>6. /\ At(u, gameID, k, turnID)
      /\ SameCards(v, u) /\ SameTable(v, u) /\ u.multiplier = v.multiplier
 <2> DEFINE m == turnID
            g == gameID
            mark == roomLandlord'
 <2>1. Later(n, m, k, m) /\ At(v, g, n, m) /\ Comes(said, "PlayerPass", g, k, m)
   BY <1>0, <1>5 DEF Later, Shown
 <2> HIDE DEF n, k, m, g, mark
 <2>2. /\ At(Told("web", mark, v, said), g, k, m) /\ SameCards(v, Told("web", mark, v, said))
       /\ SameTable(v, Told("web", mark, v, said))
       /\ Told("web", mark, v, said).multiplier = v.multiplier
   BY <2>1, WebHearsPass
 <2> QED BY <2>2 DEF n, k, m, g, mark
<1> HIDE DEF u
<1>7. At(u, gameID, k, turnID')
 <2>1. k \in Nat /\ turnID \in Nat /\ turnID + 1 \in Nat /\ k <= k /\ turnID <= turnID + 1
   BY <1>0
 <2> HIDE DEF k
 <2>2. At(u, gameID, k, turnID + 1)
   BY <1>6, <2>1, AtLater
 <2> QED BY <1>1, <2>2
<1> HIDE DEF n, k
<1>8. /\ v.hand = hands[Me] /\ v.played = playedCards /\ v.landlord = LandlordSeat
      /\ \A s \in Seat \ v.unheard : v.counts[s] = Size(hands[s])
      /\ v.bottom = bottomCards
      /\ v.lastPlayed = lastPlayedHand /\ v.lastPlayedBy = lastPlayerIdx
      /\ bombCount = 0 => v.multiplier = CurrentMultiplier
  BY <1>1, TruthNow DEF Shown, WebShows, CardsAre
<1> DEFINE t == Truth'
<1>9. /\ t.hand = hands[Me] /\ t.played = playedCards /\ t.landlord = LandlordSeat
      /\ \A s \in Seat : t.counts[s] = Size(hands[s])
  BY <1>1, TruthNext
<1> HIDE DEF t
<1>10. CardsAre(u, t)
  BY <1>6, <1>8, <1>9 DEF CardsAre, SameCards
<1>11. CurrentMultiplier' = CurrentMultiplier
  BY <1>1 DEF CurrentMultiplier
<1>12. /\ u.bottom = bottomCards' /\ (bombCount' = 0 => u.multiplier = CurrentMultiplier')
       /\ MustPlay' \/ (u.lastPlayed = lastPlayedHand' /\ u.lastPlayedBy = lastPlayerIdx')
  BY <1>1, <1>6, <1>8, <1>11 DEF SameCards, SameTable
<1>13. TellsTruth(u, PlayTurnEvents(k))
  BY <1>0, <1>1, <1>2, <1>7, <1>10, <1>12, AsksPlayer DEF t
<1>14. Leads("web", roomLandlord', v, << said >>, u) /\ IsList(<< said >>)
  BY OneLeads DEF u
<1>15. IsList(PlayTurnEvents(k))
  BY <1>0, <1>2, EventsAreLists
<1> QED BY <1>3, <1>13, <1>14, <1>15, ThenTellsTruth

LEMMA PlayTells ==
  ASSUME NEW cards, PlayCards(cards), GameShape, NEW v, Shown(v)
  PROVE  TellsTruth(v, PlayEvents(cards))
<1> DEFINE n == snapshotVersion
           k == n + 1
           said == CardPlayed(k, cards)
           b == said.body
           u == Told("web", roomLandlord', v, said)
           rest == IF state' = "Ended" THEN << GameOver(n + 2) >> ELSE PlayTurnEvents(k)
<1>0. n \in Nat /\ k \in Nat /\ turnID \in Nat /\ gameID \in Nat
  BY DEF Shown
<1>1. /\ GameShape' /\ state = "Playing" /\ gameID' = gameID
      /\ currentPlayer \in Seat /\ LandlordSeat' = LandlordSeat
      /\ lastPlayedHand' = cards /\ lastPlayerIdx' = currentPlayer
      /\ hands'[currentPlayer] = Minus(hands[currentPlayer], cards)
      /\ \A s \in Seat \ {currentPlayer} : hands'[s] = hands[s]
      /\ playedCards' = [playedCards EXCEPT ![currentPlayer] = Plus(@, cards)]
      /\ UNCHANGED << bottomCards, bidMultiplier, roomLandlord >>
      /\ bombCount' = 0 => bombCount = 0
      /\ \/ state' = "Ended" /\ turnID' = turnID
         \/ state' = "Playing" /\ turnID' = turnID + 1
  BY <1>0, PlayComesTo
<1>2. Counting
  BY <1>0, <1>1 DEF Counting
<1>3. PlayEvents(cards) = << said >> \o rest
  BY DEF PlayEvents
<1>4. /\ b.player = currentPlayer /\ b.cards = cards /\ b.cardsLeft = Size(hands'[currentPlayer])
      /\ Comes(said, "CardPlayed", gameID, k, turnID)
  BY <1>1, EventComes DEF CardPlayed, Before, Event
<1> HIDE DEF said
<1> DEFINE t == Truth
           x == Truth'
<1>5. /\ t.hand = hands[Me] /\ t.played = playedCards /\ t.landlord = LandlordSeat
      /\ t.bottom = bottomCards /\ t.bombs = bombCount /\ t.multiplier = CurrentMultiplier
      /\ t.phase = "Playing"
      /\ \A s \in Seat : t.counts[s] = Size(hands[s])
  BY <1>1, TruthNow
<1>6. /\ x.hand = hands'[Me] /\ x.played = playedCards' /\ x.landlord = LandlordSeat'
      /\ x.phase = state' /\ x.game = gameID'
      /\ \A s \in Seat : x.counts[s] = Size(hands'[s])
  BY TruthNext
<1>7. WebShows(v, t) /\ At(v, gameID, n, turnID)
  BY DEF Shown
<1> HIDE DEF t, x, b
<1>8. Plays(t, x, b)
 <2>1. x.hand = (IF b.player = Me THEN Minus(t.hand, b.cards) ELSE t.hand)
   BY <1>1, <1>4, <1>5, <1>6, MeAssumption
 <2>2. /\ x.played = [t.played EXCEPT ![b.player] = Plus(@, b.cards)] /\ x.landlord = t.landlord
       /\ b.cardsLeft = x.counts[b.player] /\ b.player \in Seat
   BY <1>1, <1>4, <1>5, <1>6
 <2>3. \A s \in Seat \ {b.player} : x.counts[s] = t.counts[s]
   BY <1>1, <1>4, <1>5, <1>6
 <2> QED BY <2>1, <2>2, <2>3 DEF Plays
<1>9. CardsAre(v, t) /\ v.bottom = bottomCards /\ (bombCount = 0 => v.multiplier = CurrentMultiplier)
  BY <1>5, <1>7 DEF WebShows
<1>10. /\ At(u, gameID, k, turnID) /\ CardsAre(u, x)
       /\ u.lastPlayed = cards /\ u.lastPlayedBy = currentPlayer
       /\ u.bottom = v.bottom /\ u.multiplier = v.multiplier
 <2> DEFINE m == turnID
            g == gameID
            mark == roomLandlord'
 <2>1. Later(n, m, k, m) /\ At(v, g, n, m) /\ Comes(said, "CardPlayed", g, k, m)
   BY <1>0, <1>4, <1>7 DEF Later
 <2> HIDE DEF n, k, m, g, mark
 <2>2. /\ At(Told("web", mark, v, said), g, k, m) /\ CardsAre(Told("web", mark, v, said), x)
       /\ Told("web", mark, v, said).lastPlayed = said.body.cards
       /\ Told("web", mark, v, said).lastPlayedBy = said.body.player
       /\ Told("web", mark, v, said).bottom = v.bottom
       /\ Told("web", mark, v, said).multiplier = v.multiplier
  <3>1. Plays(t, x, said.body) /\ CardsAre(v, t)
    BY <1>8, <1>9 DEF b
  <3>2. At(Told("web", mark, v, said), g, k, m) /\ CardsAre(Told("web", mark, v, said), x)
    BY <2>1, <3>1, WebHearsPlay
  <3> QED BY <2>1, <3>1, <3>2, WebHearsPlay
 <2> QED BY <1>4, <2>2 DEF n, k, m, g, mark, b
<1> HIDE DEF u
<1>11. IsList(rest) /\ TellsTruth(u, rest)
 <2>1. CASE state' = "Ended"
  <3> DEFINE e == GameOver(n + 2)
             mark == roomLandlord'
             g == gameID'
             l == n + 2
             m == turnID
  <3>1. e.body.multiplier = settlement'.multiplier /\ Comes(e, "GameOver", g, l, m)
    BY EventComes DEF GameOver, Before, Event
  <3>2. x.multiplier = settlement'.multiplier
    BY <2>1, TruthNext DEF CurrentMultiplier, x
  <3>3. Later(k, m, l, m) /\ At(u, g, k, m)
    BY <1>0, <1>1, <1>10 DEF Later
  <3>4. x.phase = "Ended" /\ x.game = g
    BY <1>6, <2>1
  <3> HIDE DEF e, mark, g, l, m, k, n
  <3>5. WebShows(Told("web", mark, u, e), x)
    BY <1>10, <3>1, <3>2, <3>3, <3>4, WebIsOver
  <3>6. rest = << e >>
    BY <2>1 DEF e
  <3> HIDE DEF rest
  <3> QED BY <3>5, <3>6, OneTellsTruth, OneIsList DEF x, mark
 <2>2. CASE state' = "Playing"
  <3>1. At(u, gameID, k, turnID')
   <4>1. k \in Nat /\ turnID \in Nat /\ turnID + 1 \in Nat /\ k <= k /\ turnID <= turnID + 1
     BY <1>0
   <4> HIDE DEF k
   <4>2. At(u, gameID, k, turnID + 1)
     BY <1>10, <4>1, AtLater
   <4> QED BY <1>1, <2>2, <4>2
  <3>2. bombCount' = 0 => CurrentMultiplier' = CurrentMultiplier
    BY <1>1, <2>2 DEF CurrentMultiplier
  <3>3. /\ u.bottom = bottomCards' /\ (bombCount' = 0 => u.multiplier = CurrentMultiplier')
        /\ u.lastPlayed = lastPlayedHand' /\ u.lastPlayedBy = lastPlayerIdx'
    BY <1>1, <1>9, <1>10, <3>2
  <3> HIDE DEF k, n
  <3>4. TellsTruth(u, PlayTurnEvents(k))
    BY <1>0, <1>1, <1>2, <1>10, <2>2, <3>1, <3>3, AsksPlayer DEF x
  <3>5. IsList(PlayTurnEvents(k))
    BY <1>0, <1>2, EventsAreLists
  <3> QED BY <2>2, <3>4, <3>5
 <2> QED BY <1>1, <2>1, <2>2
<1> HIDE DEF rest
<1>12. Leads("web", roomLandlord', v, << said >>, u) /\ IsList(<< said >>)
  BY OneLeads DEF u
<1> QED BY <1>3, <1>11, <1>12, ThenTellsTruth

-----------------------------------------------------------------------------
(* The stamps of a command's events: none is later than the last.          *)

\* Events with versions up to k, the last one with k; only GameStart is built
\* at dispatch, and it goes to the whole room.
Ends(events, k) ==
  /\ IsList(events) /\ Len(events) \in Nat /\ Len(events) # 0
  /\ events[Len(events)].meta.version = k
  /\ \A i \in 1..Len(events) : /\ events[i].meta.version <= k
                               /\ events[i].type = "GameStart" => events[i].to = NoSeat

LEMMA OneEnds ==
  ASSUME NEW e, NEW k \in Nat, e.meta.version = k, e.type = "GameStart" => e.to = NoSeat
  PROVE  Ends(<< e >>, k)
<1> DEFINE s == << e >>
<1>1. Len(s) = 1 /\ s[1] = e /\ IsList(s)
  BY OneIsList
<1> HIDE DEF s
<1>2. Ends(s, k)
  BY <1>1 DEF Ends
<1> QED BY <1>2 DEF s

LEMMA BothEnd ==
  ASSUME NEW s, NEW r, NEW k \in Nat, NEW l \in Nat, k <= l, Ends(s, k), Ends(r, l),
         \A i \in 1..Len(s) : s[i].meta.version \in Nat
  PROVE  Ends(s \o r, l)
<1>1. PICK S : s \in Seq(S)
  BY DEF IsList, Ends
<1>2. PICK R : r \in Seq(R)
  BY DEF IsList, Ends
<1>3. s \in Seq(S \cup R) /\ r \in Seq(S \cup R)
  BY <1>1, <1>2, SeqMonotonic
<1> DEFINE n == Len(s)
           m == Len(r)
           all == s \o r
<1>4. n \in Nat \ {0} /\ m \in Nat \ {0}
  BY DEF Ends
<1>5. /\ all \in Seq(S \cup R) /\ Len(all) = n + m
      /\ \A i \in 1..(n + m) : all[i] = IF i <= n THEN s[i] ELSE r[i - n]
  BY <1>3, ConcatProperties
<1> HIDE DEF n, m, all
<1>6. ASSUME NEW i \in 1..(n + m)
      PROVE  /\ all[i].meta.version <= l
             /\ all[i].type = "GameStart" => all[i].to = NoSeat
 <2>1. CASE i <= n
  <3>1. i \in 1..n /\ all[i] = s[i]
    BY <1>4, <1>5, <2>1
  <3>2. s[i].meta.version <= k /\ s[i].meta.version \in Nat
    BY <3>1 DEF Ends, n
  <3>3. s[i].type = "GameStart" => s[i].to = NoSeat
    BY <3>1 DEF Ends, n
  <3> QED BY <3>1, <3>2, <3>3
 <2>2. CASE ~(i <= n)
  <3>1. i - n \in 1..m /\ all[i] = r[i - n]
    BY <1>4, <1>5, <2>2
  <3> QED BY <3>1 DEF Ends, m
 <2> QED BY <2>1, <2>2
<1>7. all[n + m] = r[m]
 <2>1. n + m \in 1..(n + m) /\ ~(n + m <= n) /\ (n + m) - n = m
   BY <1>4
 <2> QED BY <1>5, <2>1
<1>8. Ends(all, l)
 <2>1. IsList(all) /\ Len(all) = n + m /\ n + m \in Nat /\ n + m # 0
   BY <1>4, <1>5 DEF IsList
 <2>2. r[m].meta.version = l
   BY DEF Ends, m
 <2> QED BY <1>6, <1>7, <2>1, <2>2 DEF Ends
<1> QED BY <1>8 DEF all

LEMMA StampedVersions ==
  ASSUME NEW s, NEW g, NEW t, AllStamped(s, g, t)
  PROVE  \A i \in 1..Len(s) : Stamped(s[i], g, t) /\ s[i].meta.version \in Nat
<1>1. PICK S : s \in Seq(S) /\ \A e \in S : Stamped(e, g, t)
  BY DEF AllStamped
<1>2. \A i \in 1..Len(s) : s[i] \in S
  BY <1>1, ElementOfSeq
<1> QED BY <1>1, <1>2 DEF Stamped

LEMMA TurnEventsEnd ==
  ASSUME NEW n \in Nat
  PROVE  Ends(BidTurnEvents(n), n + 1) /\ Ends(PlayTurnEvents(n), n + 1)
<1>1. ASSUME NEW type \in {"BidTurn", "PlayTurn"}, NEW b
      PROVE  Ends(<< Event(type, NoSeat, After(n + 1), b) >>, n + 1)
 <2> DEFINE e == Event(type, NoSeat, After(n + 1), b)
            k == n + 1
 <2>1. e.meta.version = k /\ k \in Nat /\ e.to = NoSeat
   BY DEF Event, After, Meta
 <2> HIDE DEF e, k
 <2>2. Ends(<< e >>, k)
   BY <2>1, OneEnds
 <2> QED BY <2>2 DEF e, k
<1> QED BY <1>1 DEF BidTurnEvents, PlayTurnEvents

LEMMA DealEventsEnd ==
  ASSUME NEW n \in Nat, Counting
  PROVE  Ends(DealEvents(n), n + 2)
<1> DEFINE dealt(s) == IF roomLandlord' = s THEN Minus(hands'[s], bottomCards') ELSE hands'[s]
           hand(s) == Event("DealCards", s, Before(n + 2),
                            [cards |-> dealt(s), bottom |-> NoCards])
           start == Event("GameStart", NoSeat, Before(n + 1), << >>)
           a == hand(0)
           b == hand(1)
           c == hand(2)
           k == n + 2
<1>1. /\ start.meta.version <= k /\ start.to = NoSeat /\ k \in Nat
      /\ a.meta.version = k /\ a.type = "DealCards"
      /\ b.meta.version = k /\ b.type = "DealCards"
      /\ c.meta.version = k /\ c.type = "DealCards"
  BY DEF Event, Before, Meta
<1>2. DealEvents(n) = << start, a, b, c >>
  BY DEF DealEvents
<1>3. IsList(DealEvents(n))
  BY EventsAreLists
<1> HIDE DEF start, a, b, c, k
<1> DEFINE s == << start, a, b, c >>
<1>4. Len(s) = 4 /\ s[1] = start /\ s[2] = a /\ s[3] = b /\ s[4] = c
  OBVIOUS
<1> HIDE DEF s
<1>5. ASSUME NEW i \in 1..4
      PROVE  s[i].meta.version <= k /\ (s[i].type = "GameStart" => s[i].to = NoSeat)
 <2>1. i \in {1, 2, 3, 4}
   OBVIOUS
 <2>2. k <= k
   BY <1>1
 <2> QED BY <1>1, <1>4, <2>1, <2>2
<1>6. IsList(s)
  BY <1>2, <1>3 DEF s
<1>7. Ends(s, k)
  BY <1>1, <1>4, <1>5, <1>6 DEF Ends
<1> QED BY <1>2, <1>7 DEF s, k

LEMMA LandlordEventsEnd ==
  ASSUME NEW n \in Nat, Counting
  PROVE  Ends(LandlordEvents(n), n + 3)
<1> DEFINE said == Event("Landlord", NoSeat, Before(n + 1),
                     [player |-> roomLandlord', bottom |-> bottomCards',
                      multiplier |-> bidMultiplier'])
           hand == Event("DealCards", roomLandlord', Before(n + 2),
                     [cards |-> hands'[roomLandlord'], bottom |-> bottomCards'])
           k == n + 2
           l == k + 1
           s == << said, hand >>
<1>1. /\ said.meta.version <= k /\ said.type = "Landlord" /\ k \in Nat /\ l \in Nat /\ k <= l
      /\ hand.meta.version = k /\ hand.type = "DealCards" /\ said.meta.version \in Nat
  BY DEF Event, Before, Meta
<1>2. LandlordEvents(n) = s \o PlayTurnEvents(k)
  BY DEF LandlordEvents
<1>3. Ends(PlayTurnEvents(k), l)
  BY <1>1, TurnEventsEnd
<1> HIDE DEF said, hand, k, l
<1>4. Len(s) = 2 /\ s[1] = said /\ s[2] = hand /\ IsList(s)
  BY TwoLead
<1> HIDE DEF s
<1>5. ASSUME NEW i \in 1..2
      PROVE  /\ s[i].meta.version <= k /\ (s[i].type = "GameStart" => s[i].to = NoSeat)
             /\ s[i].meta.version \in Nat
 <2>1. i \in {1, 2} /\ k <= k
   BY <1>1
 <2> QED BY <1>1, <1>4, <2>1
<1>6. Ends(s, k)
  BY <1>1, <1>4, <1>5 DEF Ends
<1>7. Ends(s \o PlayTurnEvents(k), l)
  BY <1>1, <1>3, <1>4, <1>5, <1>6, BothEnd
<1>8. l = n + 3
  BY DEF k, l
<1> QED BY <1>2, <1>7, <1>8

LEMMA AskEventsEnd ==
  ASSUME NEW n \in Nat, Counting
  PROVE  \E k \in Nat : k > n /\ Ends(AskEvents(n), k)
<1>1. n + 1 \in Nat /\ n + 1 > n /\ n + 3 \in Nat /\ n + 3 > n
  OBVIOUS
<1> QED BY <1>1, TurnEventsEnd, LandlordEventsEnd DEF AskEvents

LEMMA DealThenAskEnd ==
  ASSUME NEW n \in Nat, Counting
  PROVE  \E k \in Nat : k > n /\ Ends(DealEvents(n) \o AskEvents(n + 2), k)
<1> DEFINE l == n + 2
<1>1. l \in Nat /\ l > n
  OBVIOUS
<1>2. Ends(DealEvents(n), l)
  BY DealEventsEnd
<1>3. AllStamped(DealEvents(n), gameID', turnID')
  BY DealEventsStamped DEF Counting
<1>4. \A i \in 1..Len(DealEvents(n)) : DealEvents(n)[i].meta.version \in Nat
  BY <1>3, StampedVersions
<1> HIDE DEF l
<1>5. PICK k \in Nat : k > l /\ Ends(AskEvents(l), k)
  BY <1>1, AskEventsEnd
<1>6. l <= k /\ k > n
  BY <1>1, <1>5
<1>7. Ends(DealEvents(n) \o AskEvents(l), k)
  BY <1>1, <1>2, <1>4, <1>5, <1>6, BothEnd
<1> QED BY <1>6, <1>7 DEF l

\* One event, and then others.
LEMMA OneThenEnd ==
  ASSUME NEW e, NEW n \in Nat, NEW r, NEW k \in Nat, k > n, Ends(r, k),
         e.meta.version = n, e.type # "GameStart"
  PROVE  Ends(<< e >> \o r, k)
<1> DEFINE s == << e >>
<1>1. Ends(s, n)
  BY OneEnds
<1>2. Len(s) = 1 /\ s[1] = e
  OBVIOUS
<1> HIDE DEF s
<1>3. \A i \in 1..Len(s) : s[i].meta.version \in Nat
  BY <1>2
<1>4. n <= k
  OBVIOUS
<1>5. Ends(s \o r, k)
  BY <1>1, <1>3, <1>4, BothEnd
<1> QED BY <1>5 DEF s

LEMMA BidEventsEnd ==
  ASSUME snapshotVersion \in Nat, Counting, NEW bid
  PROVE  \E k \in Nat : k > snapshotVersion /\ Ends(BidEvents(bid), k)
<1> DEFINE n == snapshotVersion + 1
           e == Event("BidResult", NoSeat, Meta(gameID, n, turnID),
                     [player |-> currentBidder, bid |-> bid,
                      isGrab |-> landlordCaller # NoSeat,
                      multiplier |-> IF gameID' = gameID THEN bidMultiplier'
                                     ELSE bidMultiplier])
           rest == IF gameID' = gameID THEN AskEvents(n)
                   ELSE DealEvents(n) \o AskEvents(n + 2)
<1>1. n + 2 = snapshotVersion + 3 /\ n \in Nat
  OBVIOUS
<1>2. BidEvents(bid) = << e >> \o rest
  BY <1>1 DEF BidEvents
<1>3. e.meta.version = n /\ e.type # "GameStart" /\ snapshotVersion < n
  BY DEF Event, Meta
<1> HIDE DEF n, e
<1>4. \E k \in Nat : k > n /\ Ends(rest, k)
  BY <1>1, AskEventsEnd, DealThenAskEnd
<1> HIDE DEF rest
<1>5. PICK k \in Nat : k > n /\ Ends(rest, k)
  BY <1>4
<1>6. Ends(<< e >> \o rest, k)
  BY <1>1, <1>3, <1>5, OneThenEnd
<1>7. k > snapshotVersion
  BY <1>1, <1>3, <1>5
<1> QED BY <1>2, <1>6, <1>7

LEMMA PassEventsEnd ==
  ASSUME snapshotVersion \in Nat
  PROVE  \E k \in Nat : k > snapshotVersion /\ Ends(PassEvents, k)
<1> DEFINE n == snapshotVersion + 1
           k == n + 1
           e == Event("PlayerPass", NoSeat, Before(n), [player |-> currentPlayer])
<1>1. n \in Nat /\ k \in Nat /\ k > n /\ k > snapshotVersion
  OBVIOUS
<1>2. PassEvents = << e >> \o PlayTurnEvents(n)
  BY DEF PassEvents
<1>3. e.meta.version = n /\ e.type # "GameStart"
  BY DEF Event, Meta, Before
<1>4. Ends(PlayTurnEvents(n), k)
  BY <1>1, TurnEventsEnd
<1> HIDE DEF n, e, k
<1>5. Ends(<< e >> \o PlayTurnEvents(n), k)
  BY <1>1, <1>3, <1>4, OneThenEnd
<1> QED BY <1>1, <1>2, <1>5

LEMMA PlayEventsEnd ==
  ASSUME snapshotVersion \in Nat, NEW cards
  PROVE  \E k \in Nat : k > snapshotVersion /\ Ends(PlayEvents(cards), k)
<1> DEFINE n == snapshotVersion + 1
           k == n + 1
           e == CardPlayed(n, cards)
           o == GameOver(snapshotVersion + 2)
           rest == IF state' = "Ended" THEN << o >> ELSE PlayTurnEvents(n)
<1>1. n \in Nat /\ k \in Nat /\ k > n /\ k > snapshotVersion /\ snapshotVersion + 2 = k
  OBVIOUS
<1>2. PlayEvents(cards) = << e >> \o rest
  BY DEF PlayEvents
<1>3. e.meta.version = n /\ e.type # "GameStart"
  BY DEF Event, Meta, Before, CardPlayed
<1>4. o.meta.version = k /\ o.type # "GameStart"
  BY <1>1 DEF Event, Meta, Before, GameOver
<1>5. Ends(PlayTurnEvents(n), k)
  BY <1>1, TurnEventsEnd
<1> HIDE DEF n, e, o, k
<1>6. Ends(<< o >>, k)
  BY <1>1, <1>4, OneEnds
<1>7. Ends(rest, k)
  BY <1>5, <1>6
<1> HIDE DEF rest
<1>8. Ends(<< e >> \o rest, k)
  BY <1>1, <1>3, <1>7, OneThenEnd
<1> QED BY <1>1, <1>2, <1>8

-----------------------------------------------------------------------------
(* A browser's picture and what is under way to it.                        *)

QueueBehind ==
  \A i \in 1..Len(pendingDeliveries) :
    /\ pendingDeliveries[i].meta.version <= snapshotVersion
    /\ pendingDeliveries[i].type = "GameStart" => pendingDeliveries[i].to = NoSeat

\* The picture v is of a game up to the session's, and shows that one if it
\* ever has.
Placed(v) ==
  /\ Framed(v) /\ v.version <= snapshotVersion /\ v.seen \subseteq 0..gameID
  /\ gameID \in v.seen => v.game = gameID

\* v takes none of the events under way.
Passed(v) ==
  /\ v.game = gameID
  /\ \A i \in 1..Len(pendingDeliveries) : pendingDeliveries[i].meta.version <= v.version

\* A browser that is away either shows the state or will be given it.
UpToDate ==
  ~attached /\ view.game = gameID /\ view.version >= snapshotVersion => WebShows(view, Truth)

\* What is under way leads a browser that is there to the state.
LeadsToTruth ==
  attached /\ state # "Init" =>
    \E w : Leads("web", roomLandlord, view, pendingDeliveries, w) /\ WebShows(w, Truth)

\* A private event looked up for an earlier connection tells nothing new.
LostIsOld == recipient # 0 /\ attached /\ connection # recipient => Passed(view)

\* The queue and the picture while a browser plays. The picture itself is right
\* only once the queue is empty; what is under way when the connection breaks or
\* comes back needs LeadsToTruth, UpToDate and LostIsOld.
PictureInv ==
  /\ GameShape /\ QueueBehind
  /\ ~attached => state # "Init"
  /\ Placed(view) /\ UpToDate /\ LeadsToTruth /\ LostIsOld

BrowserInv == device = "web" => PictureInv

-----------------------------------------------------------------------------
(* Commands.                                                               *)

\* What a command does: events with newer stamps, which lead a picture of the
\* state before it to the state after it.
Brings(events) ==
  /\ Queue(events) /\ GameShape' /\ state' # "Init"
  /\ gameID' = gameID \/ gameID' = gameID + 1
  /\ \E k \in Nat : k > snapshotVersion /\ Ends(events, k)

LEMMA StartBrings ==
  ASSUME QueueInv, GameShape, StartGame
  PROVE  \E events : /\ Brings(events) /\ state = "Init"
                     /\ \A v : v.game # gameID + 1 /\ gameID + 1 \notin v.seen => TellsTruth(v, events)
<1> DEFINE events == DealEvents(snapshotVersion) \o AskEvents(snapshotVersion + 2)
<1>1. Start /\ Queue(events)
  BY DEF StartGame
<1>2. /\ GameShape' /\ Fresh /\ state' = "Bidding" /\ gameID' = gameID + 1
      /\ turnID' = turnID + 1 /\ LandlordSeat' = {} /\ roomLandlord' = NoSeat
  BY <1>1, StartComesTo
<1>3. gameID \in Nat /\ turnID \in Nat /\ snapshotVersion \in Nat
  BY DEF QueueInv
<1>4. Counting
  BY <1>2, <1>3 DEF Counting
<1>5. \E k \in Nat : k > snapshotVersion /\ Ends(events, k)
  BY <1>3, <1>4, DealThenAskEnd
<1>6. ASSUME NEW v, v.game # gameID + 1, gameID + 1 \notin v.seen PROVE TellsTruth(v, events)
  BY <1>1, <1>3, <1>6, StartTells
<1>7. state = "Init"
  BY <1>1 DEF Start
<1> HIDE DEF events
<1> QED BY <1>1, <1>2, <1>5, <1>6, <1>7 DEF Brings

LEMMA BidBrings ==
  ASSUME QueueInv, GameShape, NEW bid \in BOOLEAN, HandleBid(bid)
  PROVE  \E events : /\ Brings(events) /\ state # "Init"
                     /\ \A v : Shown(v) => TellsTruth(v, events)
<1> DEFINE events == BidEvents(bid)
<1>1. Bid(bid) /\ Queue(events)
  BY DEF HandleBid
<1>2. /\ state = "Bidding" /\ GameShape' /\ turnID' = turnID + 1
      /\ BidGoesOn \/ BidCrowns \/ BidRedeals \/ BidForces
  BY <1>1, BidComesTo
<1>3. gameID \in Nat /\ turnID \in Nat /\ snapshotVersion \in Nat
  BY DEF QueueInv
<1>4. /\ state' \in {"Bidding", "Playing"} /\ (gameID' = gameID \/ gameID' = gameID + 1)
  BY <1>2 DEF BidGoesOn, BidCrowns, BidRedeals, BidForces, Crowned
<1>5. Counting
  BY <1>2, <1>3, <1>4 DEF Counting
<1>6. \E k \in Nat : k > snapshotVersion /\ Ends(events, k)
  BY <1>3, <1>5, BidEventsEnd
<1>7. ASSUME NEW v, Shown(v) PROVE TellsTruth(v, events)
  BY <1>1, <1>7, BidTells
<1> HIDE DEF events
<1> QED BY <1>1, <1>2, <1>4, <1>6, <1>7 DEF Brings

LEMMA PlayBrings ==
  ASSUME QueueInv, GameShape, NEW cards, HandlePlay(cards)
  PROVE  \E events : /\ Brings(events) /\ state # "Init"
                     /\ \A v : Shown(v) => TellsTruth(v, events)
<1> DEFINE events == PlayEvents(cards)
<1>1. PlayCards(cards) /\ Queue(events)
  BY DEF HandlePlay
<1>2. gameID \in Nat /\ turnID \in Nat /\ snapshotVersion \in Nat
  BY DEF QueueInv
<1>3. GameShape' /\ state = "Playing" /\ gameID' = gameID /\ state' \in {"Playing", "Ended"}
  BY <1>1, <1>2, PlayComesTo
<1>4. \E k \in Nat : k > snapshotVersion /\ Ends(events, k)
  BY <1>2, PlayEventsEnd
<1>5. ASSUME NEW v, Shown(v) PROVE TellsTruth(v, events)
  BY <1>1, <1>5, PlayTells
<1> HIDE DEF events
<1> QED BY <1>1, <1>3, <1>4, <1>5 DEF Brings

LEMMA PassBrings ==
  ASSUME QueueInv, GameShape, HandlePass
  PROVE  \E events : /\ Brings(events) /\ state # "Init"
                     /\ \A v : Shown(v) => TellsTruth(v, events)
<1> DEFINE events == PassEvents
<1>1. Pass /\ Queue(events)
  BY DEF HandlePass
<1>2. gameID \in Nat /\ turnID \in Nat /\ snapshotVersion \in Nat
  BY DEF QueueInv
<1>3. GameShape' /\ state = "Playing" /\ gameID' = gameID /\ state' = "Playing"
  BY <1>1, <1>2, PassComesTo
<1>4. \E k \in Nat : k > snapshotVersion /\ Ends(events, k)
  BY <1>2, PassEventsEnd
<1>5. ASSUME NEW v, Shown(v) PROVE TellsTruth(v, events)
  BY <1>1, <1>5, PassTells
<1> HIDE DEF events
<1> QED BY <1>1, <1>3, <1>4, <1>5 DEF Brings

\* The stamps after a command.
LEMMA BroughtQueue ==
  ASSUME QueueInv, QueueInv', NEW events, Brings(events)
  PROVE  /\ QueueBehind' /\ snapshotVersion' > snapshotVersion /\ snapshotVersion' \in Nat
         /\ pendingDeliveries = << >> /\ pendingDeliveries' = events
<1>1. PICK k \in Nat : k > snapshotVersion /\ Ends(events, k)
  BY DEF Brings
<1>2. /\ snapshotVersion' = k \/ snapshotVersion' = k + 1
      /\ pendingDeliveries = << >> /\ pendingDeliveries' = events
  BY <1>1 DEF Brings, Queue, Ends
<1>20. \A i \in 1..Len(pendingDeliveries') : pendingDeliveries'[i].meta.version \in Nat
 <2>1. AllStamped(pendingDeliveries', gameID', turnID')
   BY DEF QueueInv, AllStamped, Stamped
 <2> QED BY <2>1, StampedVersions
<1>3. snapshotVersion \in Nat
  BY DEF QueueInv
<1>4. ASSUME NEW i \in 1..Len(events)
      PROVE  /\ events[i].meta.version <= snapshotVersion'
             /\ events[i].type = "GameStart" => events[i].to = NoSeat
 <2>1. events[i].meta.version <= k /\ (events[i].type = "GameStart" => events[i].to = NoSeat)
   BY <1>1 DEF Ends
 <2> DEFINE n == events[i].meta.version
 <2>2. n \in Nat
   BY <1>2, <1>20
 <2> HIDE DEF n
 <2>3. n <= snapshotVersion'
  <3>1. n <= k
    BY <2>1 DEF n
  <3> QED BY <1>1, <1>2, <2>2, <3>1
 <2> QED BY <2>1, <2>3 DEF n
<1>5. QueueBehind'
  BY <1>2, <1>4 DEF QueueBehind
<1> QED BY <1>1, <1>2, <1>3, <1>5

LEMMA PlacedAfter ==
  ASSUME QueueInv, NEW v, MarkedUpTo(v, gameID, turnID), Placed(v),
         gameID' = gameID \/ gameID' = gameID + 1, snapshotVersion' \in Nat,
         snapshotVersion <= snapshotVersion'
  PROVE  Framed(v) /\ v.version <= snapshotVersion' /\ v.seen \subseteq 0..gameID'
         /\ (gameID' \in v.seen => v.game = gameID')
<1>1. gameID \in Nat /\ snapshotVersion \in Nat /\ v.version \in Nat
  BY DEF QueueInv, MarkedUpTo
<1>2. 0..gameID \subseteq 0..gameID'
  BY <1>1
<1>3. gameID' # gameID => gameID' \notin 0..gameID
  BY <1>1
<1> QED BY <1>1, <1>2, <1>3 DEF Placed

LEMMA BroughtPicture ==
  ASSUME Inv, PictureInv, QueueInv', NEW events, Brings(events), device = "web",
         UNCHANGED << attached, connection, recipient, view, device >>,
         attached => TellsTruth(view, events)
  PROVE  PictureInv'
<1>1. /\ QueueBehind' /\ snapshotVersion' > snapshotVersion /\ snapshotVersion' \in Nat
      /\ pendingDeliveries = << >> /\ pendingDeliveries' = events
  BY BroughtQueue DEF Inv
<1>2. /\ gameID \in Nat /\ turnID \in Nat /\ snapshotVersion \in Nat
      /\ MarkedUpTo(view, gameID, turnID)
  BY DEF Inv, QueueInv, WebInv
<1>3. /\ GameShape' /\ state' # "Init"
      /\ gameID' = gameID \/ gameID' = gameID + 1
  BY DEF Brings
<1>4. Placed(view)'
 <2> DEFINE v == view
 <2>1. view' = v
   OBVIOUS
 <2>2. Placed(v) /\ MarkedUpTo(v, gameID, turnID) /\ QueueInv
   BY <1>2 DEF PictureInv, Inv
 <2> HIDE DEF v
 <2>3. /\ Framed(v) /\ v.version <= snapshotVersion' /\ v.seen \subseteq 0..gameID'
       /\ gameID' \in v.seen => v.game = gameID'
   BY <1>1, <1>2, <1>3, <2>2, PlacedAfter
 <2> QED BY <2>1, <2>3 DEF Placed, Framed
<1>5. UpToDate'
 <2>1. view.version \in Nat /\ view.version <= snapshotVersion
   BY <1>2 DEF PictureInv, Placed, MarkedUpTo
 <2> QED BY <1>1, <1>2, <2>1 DEF UpToDate
<1>6. LeadsToTruth'
 <2>1. ASSUME attached
       PROVE  \E w : Leads("web", roomLandlord', view, events, w) /\ WebShows(w, Truth')
   BY <2>1 DEF TellsTruth
 <2>2. attached' = attached /\ view' = view /\ pendingDeliveries' = events
   BY <1>1
 <2> HIDE DEF Truth
 <2>3. CASE ~attached
   BY <2>2, <2>3 DEF LeadsToTruth
 <2>4. CASE attached
  <3>1. PICK w : Leads("web", roomLandlord', view', pendingDeliveries', w) /\ WebShows(w, Truth')
    BY <2>1, <2>2, <2>4
  <3>2. Leads("web", roomLandlord', view', pendingDeliveries', w) /\ WebShows(w, Truth')
    BY <3>1
  <3>3. (Leads("web", roomLandlord, view, pendingDeliveries, w) /\ WebShows(w, Truth))'
    BY <3>2 DEF Leads, WebShows, Told, CardsAre
  <3> QED BY <3>2 DEF LeadsToTruth
 <2> QED BY <2>3, <2>4
<1>7. LostIsOld'
  BY <1>1 DEF Inv, RecipientInv, LostIsOld
<1> QED BY <1>1, <1>3, <1>4, <1>5, <1>6, <1>7 DEF PictureInv

\* Nothing is under way: the picture of a browser that is there shows the state.
LEMMA NowShown ==
  ASSUME Inv, PictureInv, device = "web", attached, state # "Init", pendingDeliveries = << >>
  PROVE  WebShows(view, Truth) /\ Shown(view)
<1>1. PICK w : Leads("web", roomLandlord, view, << >>, w) /\ WebShows(w, Truth)
  BY DEF PictureInv, LeadsToTruth
<1>2. WebShows(view, Truth)
  BY <1>1, NothingLeads
<1>3. view.game = gameID
  BY <1>2, TruthNow DEF WebShows
<1>4. At(view, gameID, snapshotVersion, turnID)
  BY <1>3 DEF At, Inv, WebInv, MarkedUpTo, PictureInv, Placed
<1> QED BY <1>2, <1>4 DEF Shown, PictureInv, Placed, Inv, QueueInv

LEMMA CommandPicture ==
  ASSUME Inv, PictureInv, device = "web", GameCommand,
         UNCHANGED << attached, connection, recipient, view, device >>
  PROVE  PictureInv'
<1>0. QueueInv /\ GameShape /\ pendingDeliveries = << >> /\ QueueInv'
  BY CommandFindsNothing, CommandKeepsQueue DEF Inv, PictureInv
<1>1. CASE StartGame
 <2>1. PICK events : /\ Brings(events) /\ state = "Init"
                    /\ \A v : v.game # gameID + 1 /\ gameID + 1 \notin v.seen => TellsTruth(v, events)
   BY <1>0, <1>1, StartBrings
 <2>2. view.game # gameID + 1 /\ gameID + 1 \notin view.seen
   BY DEF Inv, WebInv, MarkedUpTo, PictureInv, Placed, QueueInv
 <2>3. TellsTruth(view, events)
   BY <2>1, <2>2
 <2> QED BY <1>0, <2>1, <2>3, BroughtPicture
<1>2. CASE \/ \E bid \in BOOLEAN : HandleBid(bid)
           \/ \E cards : SeatMoves(cards)
 <2>1. \E events : /\ Brings(events) /\ state # "Init"
                   /\ \A v : Shown(v) => TellsTruth(v, events)
   BY <1>0, <1>2, BidBrings, PlayBrings, PassBrings DEF SeatMoves
 <2>2. PICK events : /\ Brings(events) /\ state # "Init"
                     /\ \A v : Shown(v) => TellsTruth(v, events)
   BY <2>1
 <2>3. attached => TellsTruth(view, events)
   BY <1>0, <2>2, NowShown
 <2> QED BY <1>0, <2>2, <2>3, BroughtPicture
<1>3. CASE Reopen
 <2>1. GameShape' /\ Truth' = Truth
   BY <1>0, <1>3, ReopenKeepsShape DEF Reopen
 <2>2. /\ UNCHANGED << snapshotVersion, pendingDeliveries, gameID, state >>
   BY <1>3 DEF Reopen, ResetAfterGame, eventVars
 <2>3. QueueBehind' /\ Placed(view)' /\ LostIsOld'
   BY <2>2 DEF QueueBehind, Placed, LostIsOld, Passed, PictureInv, Framed
 <2>4. UpToDate'
   BY <2>1, <2>2 DEF UpToDate, PictureInv
 <2>5. LeadsToTruth'
  <3>1. CASE attached
   <4>1. state # "Init"
     BY <1>3 DEF Reopen, ResetAfterGame
   <4>2. WebShows(view', Truth')
     BY <1>0, <2>1, <3>1, <4>1, NowShown
   <4>3. Leads("web", roomLandlord', view', pendingDeliveries', view')
     BY <1>0, <2>2, NothingLeads
   <4> QED BY <4>2, <4>3 DEF LeadsToTruth
  <3>2. CASE ~attached
    BY <3>2 DEF LeadsToTruth
  <3> QED BY <3>1, <3>2
 <2> QED BY <2>1, <2>2, <2>3, <2>4, <2>5 DEF PictureInv
<1> QED BY <1>1, <1>2, <1>3 DEF GameCommand

-----------------------------------------------------------------------------
(* Events that reach a browser one by one.                                 *)

\* Placed, for session g at version n.
PlacedUpTo(v, g, n) ==
  /\ Framed(v) /\ v.version <= n /\ v.seen \subseteq 0..g
  /\ g \in v.seen => v.game = g

LEMMA ReducesKeepsFrame ==
  ASSUME NEW v, Framed(v), NEW b, NEW type \in EventTypes \ {"GameStart"}
  PROVE  Framed(WebReduces(v, Me, type, b)) /\ SameMark(v, WebReduces(v, Me, type, b))
<1>1. CASE type = "DealCards"
  BY <1>1, ReducesDeal
<1>2. CASE type = "BidTurn"
  BY <1>2, ReducesBidTurn
<1>3. CASE type = "BidResult"
  BY <1>3, ReducesBidResult
<1>4. CASE type = "Landlord"
  BY <1>4, ReducesLandlord
<1>5. CASE type = "PlayTurn"
  BY <1>5, ReducesPlayTurn
<1>6. CASE type = "CardPlayed"
  BY <1>6 DEF WebReduces, Framed, WebFields, SameMark
<1>7. CASE type = "PlayerPass"
  BY <1>7, ReducesPass DEF SameMark
<1>8. CASE type = "GameOver"
  BY <1>8, ReducesGameOver
<1> QED BY <1>1, <1>2, <1>3, <1>4, <1>5, <1>6, <1>7, <1>8 DEF EventTypes

LEMMA SeesPlaced ==
  ASSUME NEW v, NEW g \in Nat, NEW t \in Nat, NEW n \in Nat, MarkedUpTo(v, g, t),
         PlacedUpTo(v, g, n), NEW e, Stamped(e, g, t), e.meta.version <= n
  PROVE  PlacedUpTo(WebSees(v, Me, e), g, n)
<1>1. CASE WebSees(v, Me, e) = v
  BY <1>1
<1>2. CASE e.type = "GameStart" /\ AcceptsGameStart(v, e.meta)
 <2> DEFINE m == e.meta
            b == e.body
            w == WebGameStart(v, m, b)
 <2>1. WebSees(v, Me, e) = w
   BY <1>2 DEF WebSees
 <2>2. m.game = g /\ m.version <= n
   BY <1>2 DEF Stamped
 <2> HIDE DEF m, b
 <2>3. Framed(w) /\ MarkedAs(v, w, m)
   BY ReducesGameStart
 <2> HIDE DEF w
 <2>4. PlacedUpTo(w, g, n)
   BY <2>2, <2>3 DEF PlacedUpTo, MarkedAs
 <2> QED BY <2>1, <2>4
<1>3. CASE e.type # "GameStart" /\ AcceptsEvent(v, e.meta)
 <2> DEFINE m == e.meta
            u == Marked(v, m)
            w == WebReduces(u, Me, e.type, e.body)
 <2>1. WebSees(v, Me, e) = w
   BY <1>3 DEF WebSees
 <2>2. /\ m.game \in Nat /\ m.game <= g /\ m.version <= n
       /\ v.game # 0 => m.game = v.game
   BY <1>3 DEF Stamped, AcceptsEvent
 <2> HIDE DEF m
 <2>3. Framed(u) /\ MarkedAs(v, u, m)
   BY WebMarks DEF PlacedUpTo
 <2> HIDE DEF u
 <2>4. Framed(w) /\ SameMark(u, w)
   BY <1>3, <2>3, ReducesKeepsFrame DEF Stamped
 <2> HIDE DEF w
 <2>5. w.game = m.game /\ w.version = m.version /\ w.seen = v.seen \cup {m.game}
   BY <2>3, <2>4 DEF MarkedAs, SameMark
 <2>6. g \in w.seen => w.game = g
  <3>1. CASE g = m.game
    BY <2>5, <3>1
  <3>2. CASE g # m.game
   <4>1. g # 0
     BY <2>2, <3>2
   <4> QED BY <2>2, <2>5, <3>2, <4>1 DEF PlacedUpTo
  <3> QED BY <3>1, <3>2
 <2>7. w.seen \subseteq 0..g
   BY <2>2, <2>5 DEF PlacedUpTo
 <2> QED BY <2>1, <2>2, <2>4, <2>5, <2>6, <2>7 DEF PlacedUpTo
<1> QED BY <1>1, <1>2, <1>3 DEF WebSees

\* A picture that has passed an event does not take it.
LEMMA PassedTold ==
  ASSUME NEW v, NEW mark, NEW g \in Nat, NEW t, NEW e, Stamped(e, g, t), v.game = g,
         v.version \in Nat, e.meta.version <= v.version
  PROVE  Told("web", mark, v, e) = v
<1> DEFINE f == [e EXCEPT !.body = [landlord |-> IF mark = NoSeat THEN {} ELSE {mark}]]
<1>1. f.type = e.type /\ f.meta = e.meta
  BY DEF Stamped
<1> HIDE DEF f
<1>2. e.meta.version \in Nat /\ ~(e.meta.version > v.version)
  BY DEF Stamped
<1>3. ~AcceptsEvent(v, e.meta)
  BY <1>2 DEF AcceptsEvent
<1>4. e.type = "GameStart" => ~AcceptsGameStart(v, e.meta)
  BY DEF AcceptsGameStart, Stamped
<1>5. WebSees(v, Me, e) = v /\ WebSees(v, Me, f) = v
  BY <1>1, <1>3, <1>4 DEF WebSees
<1> QED BY <1>5 DEF Told, f

LEMMA PassedAll ==
  ASSUME QueueInv, NEW v, Passed(v), v.version \in Nat, NEW mark
  PROVE  /\ \A i \in 1..Len(pendingDeliveries) :
              Told("web", mark, v, pendingDeliveries[i]) = v
         /\ Len(pendingDeliveries) \in Nat
<1>1. AllStamped(pendingDeliveries, gameID, turnID) /\ gameID \in Nat
  BY DEF QueueInv
<1>2. \A i \in 1..Len(pendingDeliveries) : Stamped(pendingDeliveries[i], gameID, turnID)
  BY <1>1, StampedVersions
<1>3. Len(pendingDeliveries) \in Nat
  BY <1>1, LenProperties, Zenon DEF AllStamped
<1>4. ASSUME NEW i \in 1..Len(pendingDeliveries)
      PROVE  Told("web", mark, v, pendingDeliveries[i]) = v
 <2> DEFINE e == pendingDeliveries[i]
            g == gameID
            t == turnID
 <2>1. Stamped(e, g, t) /\ g \in Nat /\ v.game = g /\ e.meta.version <= v.version
   BY <1>1, <1>2 DEF Passed
 <2> HIDE DEF e, g, t
 <2>2. Told("web", mark, v, e) = v
   BY <2>1, PassedTold
 <2> QED BY <2>2 DEF e
<1> QED BY <1>3, <1>4

-----------------------------------------------------------------------------
(* Steps that leave the game alone.                                        *)

SameGame == UNCHANGED gameVars

LEMMA SameTruth ==
  ASSUME SameGame, GameShape
  PROVE  /\ GameShape' /\ Truth' = Truth
         /\ gameID' = gameID /\ state' = state /\ roomLandlord' = roomLandlord /\ turnID' = turnID
<1>1. UNCHANGED << state, gameID, turnID, roomLandlord, bidVars, cardVars, playVars, tallyVars >>
  BY DEF SameGame, gameVars
<1> QED BY <1>1 DEF GameShape, Truth, bidVars, cardVars, playVars, tallyVars,
            LandlordSeat, MustPlay, CurrentMultiplier

\* The first event of the queue is dispatched.
Dispatched == SameGame /\ pendingDeliveries # << >> /\ Done /\ snapshotVersion' = snapshotVersion

LEMMA DispatchedQueue ==
  ASSUME Inv, PictureInv, Dispatched
  PROVE  /\ QueueBehind' /\ IsList(pendingDeliveries)
         /\ Stamped(Head(pendingDeliveries), gameID, turnID)
         /\ Head(pendingDeliveries).meta.version <= snapshotVersion
<1>1. PICK S : pendingDeliveries \in Seq(S)
  BY DEF Inv, QueueInv, AllStamped
<1>2. Stamped(Head(pendingDeliveries), gameID, turnID)
  BY FirstStamped DEF Inv, QueueInv, Dispatched
<1> DEFINE q == pendingDeliveries
           r == Tail(q)
<1>3. /\ Len(r) \in Nat /\ Len(q) = Len(r) + 1 /\ q[1] = Head(q)
      /\ \A i \in 1..Len(r) : r[i] = q[i + 1]
  BY <1>1, HeadTailProperties DEF Dispatched
<1>4. 1 \in 1..Len(q) /\ \A i \in 1..Len(r) : i + 1 \in 1..Len(q)
  BY <1>3
<1>5. /\ pendingDeliveries' = r /\ snapshotVersion' = snapshotVersion
  BY DEF Dispatched, Done
<1>6. \A i \in 1..Len(q) : /\ q[i].meta.version <= snapshotVersion
                           /\ q[i].type = "GameStart" => q[i].to = NoSeat
  BY DEF PictureInv, QueueBehind
<1>7. IsList(q)
  BY <1>1 DEF IsList
<1> HIDE DEF q, r
<1>8. QueueBehind'
  BY <1>3, <1>4, <1>5, <1>6 DEF QueueBehind
<1> QED BY <1>2, <1>3, <1>4, <1>6, <1>7, <1>8 DEF q

\* It is told to a browser that is there, or leaves the picture alone.
LEMMA DispatchedPicture ==
  ASSUME Inv, PictureInv, Dispatched, UNCHANGED << attached, device >>, recipient' = 0,
         device = "web", PlacedUpTo(view', gameID, snapshotVersion),
         attached => view' = Told("web", roomLandlord, view, Head(pendingDeliveries)),
         ~attached => view' = view
  PROVE  PictureInv'
<1>1. /\ QueueBehind' /\ IsList(pendingDeliveries)
  BY DispatchedQueue
<1>2. /\ GameShape' /\ Truth' = Truth
      /\ gameID' = gameID /\ state' = state /\ roomLandlord' = roomLandlord
  BY SameTruth DEF PictureInv, Dispatched
<1>3. snapshotVersion' = snapshotVersion /\ pendingDeliveries' = Tail(pendingDeliveries)
      /\ pendingDeliveries # << >>
  BY DEF Dispatched, Done
<1>4. Placed(view)'
  BY <1>2, <1>3 DEF Placed, PlacedUpTo, Framed
<1>5. UpToDate'
 <2>1. CASE attached
   BY <2>1 DEF UpToDate
 <2>2. CASE ~attached
   BY <1>2, <1>3, <2>2 DEF UpToDate, PictureInv, WebShows, CardsAre
 <2> QED BY <2>1, <2>2
<1>6. LeadsToTruth'
 <2>1. CASE ~attached \/ state = "Init"
   BY <1>2, <2>1 DEF LeadsToTruth
 <2>2. CASE attached /\ state # "Init"
  <3>1. PICK w : Leads("web", roomLandlord, view, pendingDeliveries, w) /\ WebShows(w, Truth)
    BY <2>2 DEF PictureInv, LeadsToTruth
  <3>2. Leads("web", roomLandlord, view', Tail(pendingDeliveries), w)
    BY <1>1, <1>3, <2>2, <3>1, FirstLeads
  <3>3. Leads("web", roomLandlord', view', pendingDeliveries', w) /\ WebShows(w, Truth')
    BY <1>2, <1>3, <3>1, <3>2
  <3> HIDE DEF Truth
  <3> QED BY <3>3 DEF LeadsToTruth
 <2> QED BY <2>1, <2>2
<1>7. LostIsOld'
  BY DEF LostIsOld
<1>8. (~attached => state # "Init")'
  BY <1>2 DEF PictureInv
<1> QED BY <1>1, <1>2, <1>4, <1>5, <1>6, <1>7, <1>8 DEF PictureInv

-----------------------------------------------------------------------------
(* Each step of the delivery.                                              *)

LEMMA PlacedNow ==
  ASSUME Inv, PictureInv, device = "web"
  PROVE  /\ MarkedUpTo(view, gameID, turnID) /\ PlacedUpTo(view, gameID, snapshotVersion)
         /\ gameID \in Nat /\ turnID \in Nat /\ snapshotVersion \in Nat /\ view.version \in Nat
BY DEF Inv, QueueInv, WebInv, PictureInv, Placed, PlacedUpTo, MarkedUpTo

LEMMA BroadcastPicture ==
  ASSUME Inv, PictureInv, device = "web", DispatchBroadcast
  PROVE  PictureInv'
<1> DEFINE e == Head(pendingDeliveries)
<1>1. /\ Dispatched /\ e.to = NoSeat /\ UNCHANGED << attached, device, recipient >>
      /\ attached => view' = WebSees(view, Me, Built(e))
      /\ ~attached => view' = view
  BY DEF DispatchBroadcast, Dispatched, SameGame, linkVars, Receive, Sees
<1>2. recipient' = 0
  BY <1>1, MeAssumption DEF Inv, RecipientInv, Seat, NoSeat
<1>3. Stamped(e, gameID, turnID) /\ e.meta.version <= snapshotVersion
  BY <1>1, DispatchedQueue
<1> HIDE DEF e
<1>4. Built(e).meta = e.meta /\ Stamped(Built(e), gameID, turnID)
  BY <1>3, BuiltStamped DEF Built, Stamped
<1>5. WebSees(view, Me, Built(e)) = Told("web", roomLandlord, view, e)
  BY <1>1 DEF Told, Built
<1>6. PlacedUpTo(view', gameID, snapshotVersion)
 <2> DEFINE f == Built(e)
            g == gameID
            t == turnID
            n == snapshotVersion
 <2>1. /\ MarkedUpTo(view, g, t) /\ PlacedUpTo(view, g, n) /\ g \in Nat /\ t \in Nat /\ n \in Nat
       /\ Stamped(f, g, t) /\ f.meta.version <= n
   BY <1>3, <1>4, PlacedNow
 <2> HIDE DEF f, g, t, n
 <2>2. PlacedUpTo(WebSees(view, Me, f), g, n)
   BY <2>1, SeesPlaced
 <2> QED BY <1>1, <2>1, <2>2 DEF f, g, n
<1>7. attached => view' = Told("web", roomLandlord, view, e)
  BY <1>1, <1>5
<1> QED BY <1>1, <1>2, <1>6, <1>7, DispatchedPicture DEF e

LEMMA ElsewherePicture ==
  ASSUME Inv, PictureInv, device = "web", DispatchElsewhere
  PROVE  PictureInv'
<1> DEFINE e == Head(pendingDeliveries)
<1>1. /\ Dispatched /\ e.to # NoSeat /\ UNCHANGED << attached, device, recipient, view >>
      /\ recipient = 0 /\ (attached => e.to # Me)
  BY DEF DispatchElsewhere, Dispatched, SameGame, linkVars
<1> HIDE DEF e
<1>2. attached => Told("web", roomLandlord, view, e) = view
  BY <1>1, ToldNothing
<1>3. PlacedUpTo(view', gameID, snapshotVersion)
  BY <1>1, PlacedNow
<1> QED BY <1>1, <1>2, <1>3, DispatchedPicture DEF e

LEMMA SendPicture ==
  ASSUME Inv, PictureInv, device = "web", SendIfCurrent
  PROVE  PictureInv'
<1> DEFINE e == Head(pendingDeliveries)
<1>1. /\ Dispatched /\ e.to = Me /\ UNCHANGED << attached, device >>
      /\ recipient' = 0
      /\ attached /\ connection = recipient => view' = WebSees(view, Me, e)
      /\ ~(attached /\ connection = recipient) => view' = view
      /\ attached /\ connection # recipient => Passed(view)
  BY DEF SendIfCurrent, Dispatched, SameGame, Receive, Sees, Inv, RecipientInv,
     PictureInv, LostIsOld
<1>2. Stamped(e, gameID, turnID) /\ e.meta.version <= snapshotVersion
  BY <1>1, DispatchedQueue
<1>3. Passed(view) => Told("web", roomLandlord, view, e) = view
 <2> SUFFICES ASSUME Passed(view) PROVE Told("web", roomLandlord, view, e) = view
   OBVIOUS
 <2>1. PICK S : pendingDeliveries \in Seq(S)
   BY DEF Inv, QueueInv, AllStamped
 <2>2. 1 \in 1..Len(pendingDeliveries) /\ pendingDeliveries[1] = e
   BY <1>1, <2>1 DEF Dispatched
 <2> HIDE DEF e
 <2>3. view.version \in Nat
   BY PlacedNow
 <2> QED BY <2>2, <2>3, PassedAll DEF Inv
<1> HIDE DEF e
<1>4. WebSees(view, Me, e) = Told("web", roomLandlord, view, e)
  BY <1>1, MeAssumption DEF Told, Seat, NoSeat
<1>5. PlacedUpTo(view', gameID, snapshotVersion)
 <2> DEFINE g == gameID
            t == turnID
            n == snapshotVersion
 <2>1. /\ MarkedUpTo(view, g, t) /\ PlacedUpTo(view, g, n) /\ g \in Nat /\ t \in Nat /\ n \in Nat
       /\ Stamped(e, g, t) /\ e.meta.version <= n
   BY <1>2, PlacedNow
 <2> HIDE DEF g, t, n
 <2>2. PlacedUpTo(WebSees(view, Me, e), g, n)
   BY <2>1, SeesPlaced
 <2> QED BY <1>1, <2>1, <2>2 DEF g, n
<1>6. attached => view' = Told("web", roomLandlord, view, e)
  BY <1>1, <1>3, <1>4
<1>7. ~attached => view' = view
  BY <1>1
<1> QED BY <1>1, <1>5, <1>6, <1>7, DispatchedPicture DEF e

LEMMA LookUpPicture ==
  ASSUME Inv, PictureInv, device = "web", LookUpRecipient
  PROVE  PictureInv'
<1>1. /\ SameGame /\ UNCHANGED << snapshotVersion, pendingDeliveries, attached, view, connection >>
      /\ recipient' = connection
  BY DEF LookUpRecipient, SameGame, eventVars
<1>2. /\ GameShape' /\ Truth' = Truth
      /\ gameID' = gameID /\ state' = state /\ roomLandlord' = roomLandlord
  BY <1>1, SameTruth DEF PictureInv
<1>3. QueueBehind' /\ Placed(view)' /\ LostIsOld' /\ (~attached => state # "Init")'
  BY <1>1, <1>2 DEF QueueBehind, Placed, LostIsOld, PictureInv, Framed
<1>4. UpToDate'
  BY <1>1, <1>2 DEF UpToDate, PictureInv, WebShows, CardsAre
<1>5. LeadsToTruth'
 <2>1. CASE ~attached \/ state = "Init"
   BY <1>1, <1>2, <2>1 DEF LeadsToTruth
 <2>2. CASE attached /\ state # "Init"
  <3>1. PICK w : Leads("web", roomLandlord, view, pendingDeliveries, w) /\ WebShows(w, Truth)
    BY <2>2 DEF PictureInv, LeadsToTruth
  <3>2. Leads("web", roomLandlord', view', pendingDeliveries', w) /\ WebShows(w, Truth')
    BY <1>1, <1>2, <3>1
  <3> HIDE DEF Truth
  <3> QED BY <3>2 DEF LeadsToTruth
 <2> QED BY <2>1, <2>2
<1> QED BY <1>2, <1>3, <1>4, <1>5 DEF PictureInv

\* A connection breaks: a browser that has all stamps has been told everything.
LEMMA BreakPicture ==
  ASSUME Inv, PictureInv, device = "web", Break
  PROVE  PictureInv'
<1>1. /\ SameGame /\ UNCHANGED << pendingDeliveries, view, connection, recipient >>
      /\ ~attached' /\ attached /\ state # "Init"
      /\ snapshotVersion' = snapshotVersion \/ snapshotVersion' = snapshotVersion + 1
  BY PlacedNow DEF Break, SameGame
<1>2. /\ GameShape' /\ Truth' = Truth
      /\ gameID' = gameID /\ state' = state /\ roomLandlord' = roomLandlord
  BY <1>1, SameTruth DEF PictureInv
<1>3. snapshotVersion \in Nat /\ view.version \in Nat /\ QueueInv
  BY PlacedNow DEF Inv
<1>4. \A i \in 1..Len(pendingDeliveries) : pendingDeliveries[i].meta.version \in Nat
  BY <1>3, StampedVersions DEF QueueInv
<1>5. QueueBehind'
 <2>1. \A n \in Nat : n <= snapshotVersion => n <= snapshotVersion'
   BY <1>1, <1>3
 <2>2. ASSUME NEW i \in 1..Len(pendingDeliveries)
       PROVE  pendingDeliveries[i].meta.version <= snapshotVersion'
  <3> DEFINE n == pendingDeliveries[i].meta.version
  <3>1. n \in Nat /\ n <= snapshotVersion
    BY <1>4 DEF PictureInv, QueueBehind
  <3> HIDE DEF n
  <3>2. n <= snapshotVersion'
    BY <2>1, <3>1
  <3> QED BY <3>2 DEF n
 <2> QED BY <1>1, <2>2 DEF QueueBehind, PictureInv
<1>6. Placed(view)'
  BY <1>1, <1>2, <1>3 DEF Placed, PictureInv, Framed
<1>7. UpToDate'
 <2> SUFFICES ASSUME view.game = gameID, view.version >= snapshotVersion'
              PROVE  WebShows(view, Truth)
   BY <1>1, <1>2 DEF UpToDate, WebShows, CardsAre
 <2>1. view.version >= snapshotVersion
   BY <1>1, <1>3
 <2>2. Passed(view)
  <3>1. ASSUME NEW i \in 1..Len(pendingDeliveries)
        PROVE  pendingDeliveries[i].meta.version <= view.version
   <4> DEFINE n == pendingDeliveries[i].meta.version
   <4>1. n \in Nat /\ n <= snapshotVersion
     BY <1>4 DEF PictureInv, QueueBehind
   <4> HIDE DEF n
   <4>2. n <= view.version
     BY <1>3, <2>1, <4>1
   <4> QED BY <4>2 DEF n
  <3> QED BY <3>1 DEF Passed
 <2>3. PICK w : Leads("web", roomLandlord, view, pendingDeliveries, w) /\ WebShows(w, Truth)
   BY <1>1 DEF PictureInv, LeadsToTruth
 <2>4. w = view
   BY <1>3, <2>2, <2>3, PassedAll, LeadsNowhere
 <2> QED BY <2>3, <2>4
<1>8. LeadsToTruth' /\ LostIsOld'
  BY <1>1 DEF LeadsToTruth, LostIsOld
<1> QED BY <1>1, <1>2, <1>5, <1>6, <1>7, <1>8 DEF PictureInv

\* A snapshot shows the state.
LEMMA SnapshotShows ==
  ASSUME GameShape, state # "Init", NEW v,
         ShouldRestoreSnapshot(v, GameStateDTO(Me))
  PROVE  /\ WebShows(WebRestores(v, GameStateDTO(Me)), Truth)
         /\ Framed(WebRestores(v, GameStateDTO(Me)))
         /\ WebRestores(v, GameStateDTO(Me)).game = gameID
         /\ WebRestores(v, GameStateDTO(Me)).version = snapshotVersion
         /\ WebRestores(v, GameStateDTO(Me)).seen = v.seen \cup {gameID}
<1> DEFINE dto == GameStateDTO(Me)
           w == WebRestores(v, dto)
           left == [s \in Seat |-> Size(hands[s])]
           t == Truth
<1>1. /\ dto.phase = state /\ dto.game = gameID /\ dto.version = snapshotVersion
      /\ dto.hand = hands[Me] /\ dto.counts = left /\ dto.landlord = LandlordSeat
      /\ dto.bottom = (IF state = "Bidding" THEN NoCards ELSE bottomCards)
      /\ state = "Bidding" => dto.currentTurn = currentBidder
      /\ state = "Playing" => dto.currentTurn = currentPlayer
      /\ dto.isGrab = (state = "Bidding" /\ landlordCaller # NoSeat)
      /\ dto.mustPlay = (state = "Playing" /\ MustPlay)
      /\ dto.lastPlayed = lastPlayedHand
      /\ dto.lastPlayedBy = (IF lastPlayedHand = NoCards THEN NoSeat ELSE lastPlayerIdx)
      /\ dto.multiplier = CurrentMultiplier /\ dto.played = playedCards
  BY DEF GameStateDTO, Watermark
<1>2. DOMAIN left = Seat /\ \A s \in Seat : left[s] = t.counts[s]
  BY TruthNow
<1>3. /\ t.phase = state /\ t.game = gameID /\ t.hand = hands[Me] /\ t.played = playedCards
      /\ t.landlord = LandlordSeat /\ t.bidder = currentBidder
      /\ t.grab = (landlordCaller # NoSeat) /\ t.player = currentPlayer
      /\ t.bottom = bottomCards /\ t.must = MustPlay /\ t.last = lastPlayedHand
      /\ t.by = lastPlayerIdx /\ t.multiplier = CurrentMultiplier
  BY TruthNow
<1> HIDE DEF dto, t, left
<1>4. /\ w.phase = dto.phase /\ w.game = dto.game /\ w.version = dto.version
      /\ w.seen = v.seen \cup {dto.game} /\ w.hand = dto.hand /\ w.bottom = dto.bottom
      /\ w.counts = dto.counts /\ w.landlord = dto.landlord /\ w.currentTurn = dto.currentTurn
      /\ w.isGrab = dto.isGrab /\ w.mustPlay = dto.mustPlay /\ w.lastPlayed = dto.lastPlayed
      /\ w.lastPlayedBy = dto.lastPlayedBy /\ w.multiplier = dto.multiplier
      /\ w.played = dto.played /\ w.unheard = {} /\ WebFields \subseteq DOMAIN w
  BY DEF WebRestores, WebFields, dto
<1> HIDE DEF w
<1>5. CardsAre(w, t)
  BY <1>1, <1>2, <1>3, <1>4 DEF CardsAre
<1>6. Framed(w)
  BY <1>1, <1>2, <1>4 DEF Framed
<1>7. lastPlayedHand = NoCards => t.must
  BY <1>3 DEF MustPlay
<1>8. t.phase = "Bidding" => w.currentTurn = t.bidder /\ w.isGrab = t.grab
  BY <1>1, <1>3, <1>4
<1>9. t.phase = "Playing" =>
        /\ w.currentTurn = t.player /\ w.bottom = t.bottom /\ w.mustPlay = t.must
        /\ t.must \/ (w.lastPlayed = t.last /\ w.lastPlayedBy = t.by)
 <2> SUFFICES ASSUME state = "Playing"
              PROVE  /\ w.currentTurn = t.player /\ w.bottom = t.bottom /\ w.mustPlay = t.must
                     /\ t.must \/ (w.lastPlayed = t.last /\ w.lastPlayedBy = t.by)
   BY <1>3
 <2>1. dto.mustPlay = MustPlay
   BY <1>1 DEF MustPlay
 <2>2. w.currentTurn = t.player /\ w.bottom = t.bottom /\ w.mustPlay = t.must
   BY <1>1, <1>3, <1>4, <2>1
 <2>3. CASE lastPlayedHand = NoCards
   BY <1>7, <2>2, <2>3
 <2>4. CASE lastPlayedHand # NoCards
   BY <1>1, <1>3, <1>4, <2>2, <2>4
 <2> QED BY <2>3, <2>4
<1>10. WebShows(w, t)
  BY <1>1, <1>3, <1>4, <1>5, <1>8, <1>9 DEF WebShows
<1> QED BY <1>1, <1>4, <1>6, <1>10 DEF w, t, dto

\* After a reconnect nothing of what is under way is new.
LEMMA ReconnectPicture ==
  ASSUME Inv, PictureInv, device = "web", Reconnect
  PROVE  PictureInv'
<1> DEFINE dto == GameStateDTO(Me)
<1>1. /\ SameGame /\ UNCHANGED << pendingDeliveries, recipient >>
      /\ attached' /\ ~attached /\ state # "Init" /\ view' = WebRestores(view, dto)
      /\ snapshotVersion' = snapshotVersion \/ snapshotVersion' = snapshotVersion + 1
  BY PlacedNow DEF Reconnect, SameGame, PictureInv
<1>2. /\ GameShape' /\ Truth' = Truth
      /\ gameID' = gameID /\ state' = state /\ roomLandlord' = roomLandlord
  BY <1>1, SameTruth DEF PictureInv
<1>3. snapshotVersion \in Nat /\ view.version \in Nat /\ QueueInv /\ gameID \in Nat
  BY PlacedNow DEF Inv
<1>4. \A i \in 1..Len(pendingDeliveries) :
        pendingDeliveries[i].meta.version \in Nat /\ pendingDeliveries[i].meta.version <= snapshotVersion
  BY <1>3, StampedVersions DEF QueueInv, PictureInv, QueueBehind
<1>5. /\ dto.game = gameID /\ dto.version = snapshotVersion
  BY DEF GameStateDTO, Watermark
<1>6. /\ WebShows(view', Truth) /\ view'.game = gameID
      /\ view'.version \in Nat /\ view'.version >= snapshotVersion
      /\ PlacedUpTo(view', gameID, snapshotVersion)
 <2>1. CASE ShouldRestoreSnapshot(view, dto)
  <3>1. /\ WebShows(view', Truth) /\ Framed(view') /\ view'.game = gameID
        /\ view'.version = snapshotVersion /\ view'.seen = view.seen \cup {gameID}
    BY <1>1, <2>1, SnapshotShows DEF PictureInv
  <3>2. view.seen \subseteq 0..gameID
    BY DEF PictureInv, Placed
  <3>3. view'.version <= snapshotVersion /\ view'.version >= snapshotVersion
    BY <1>3, <3>1
  <3>4. view'.seen \subseteq 0..gameID
    BY <1>3, <3>1, <3>2
  <3> HIDE DEF Truth
  <3> QED BY <1>3, <3>1, <3>3, <3>4 DEF PlacedUpTo
 <2>2. CASE ~ShouldRestoreSnapshot(view, dto)
  <3>1. view' = view
    BY <1>1, <2>2 DEF WebRestores
  <3>2. view.game = gameID
    BY <1>5, <2>2 DEF ShouldRestoreSnapshot, PictureInv, Placed
  <3>3. view.version >= snapshotVersion
   <4>1. ~(snapshotVersion > view.version)
     BY <1>5, <2>2, <3>2 DEF ShouldRestoreSnapshot
   <4> QED BY <1>3, <4>1
  <3>4. WebShows(view, Truth)
    BY <1>1, <3>2, <3>3 DEF PictureInv, UpToDate
  <3>5. WebShows(view', Truth)
    BY <3>1, <3>4
  <3>6. PlacedUpTo(view', gameID, snapshotVersion)
    BY <3>1, PlacedNow
  <3> HIDE DEF Truth
  <3> QED BY <1>3, <3>1, <3>2, <3>3, <3>5, <3>6
 <2> QED BY <2>1, <2>2
<1> HIDE DEF dto
<1>7. QueueBehind'
 <2>1. ASSUME NEW i \in 1..Len(pendingDeliveries)
       PROVE  pendingDeliveries[i].meta.version <= snapshotVersion'
  <3> DEFINE n == pendingDeliveries[i].meta.version
  <3>1. n \in Nat /\ n <= snapshotVersion
    BY <1>4
  <3> HIDE DEF n
  <3>2. n <= snapshotVersion'
    BY <1>1, <1>3, <3>1
  <3> QED BY <3>2 DEF n
 <2> QED BY <1>1, <2>1 DEF QueueBehind, PictureInv
<1>8. Placed(view)'
 <2>1. view'.version <= snapshotVersion'
   BY <1>1, <1>3, <1>6 DEF PlacedUpTo
 <2> QED BY <1>2, <1>6, <2>1 DEF Placed, PlacedUpTo, Framed
<1>9. Passed(view')
 <2>1. ASSUME NEW i \in 1..Len(pendingDeliveries)
       PROVE  pendingDeliveries[i].meta.version <= view'.version
  <3> DEFINE n == pendingDeliveries[i].meta.version
             m == view'.version
  <3>1. n \in Nat /\ n <= snapshotVersion /\ m \in Nat /\ m >= snapshotVersion
    BY <1>4, <1>6
  <3> HIDE DEF n, m
  <3>2. n <= m
    BY <1>3, <3>1
  <3> QED BY <3>2 DEF n, m
 <2> QED BY <1>6, <2>1 DEF Passed
<1>10. LeadsToTruth'
 <2> DEFINE v == view'
            mark == roomLandlord
 <2>1. Passed(v) /\ v.version \in Nat
   BY <1>6, <1>9
 <2>2. WebShows(v, Truth)
   BY <1>6
 <2> HIDE DEF v, mark
 <2>3. Leads("web", mark, v, pendingDeliveries, v)
   BY <1>3, <2>1, PassedAll, NoneLead
 <2>4. Leads("web", roomLandlord', view', pendingDeliveries', view') /\ WebShows(view', Truth')
   BY <1>1, <1>2, <2>2, <2>3 DEF v, mark
 <2> HIDE DEF Truth
 <2> QED BY <2>4 DEF LeadsToTruth
<1>11. Passed(view)'
  BY <1>1, <1>2, <1>9 DEF Passed
<1>12. UpToDate' /\ LostIsOld' /\ (~attached => state # "Init")'
  BY <1>1, <1>11 DEF UpToDate, LostIsOld
<1> QED BY <1>2, <1>7, <1>8, <1>10, <1>12 DEF PictureInv

-----------------------------------------------------------------------------
(* Every step of the specification.                                        *)

LEMMA InitPicture == DeliveryInit => BrowserInv
<1> SUFFICES ASSUME DeliveryInit, device = "web" PROVE PictureInv
  BY DEF BrowserInv
<1>1. /\ state = "Init" /\ gameID = 0 /\ snapshotVersion = 0 /\ pendingDeliveries = << >>
      /\ attached /\ recipient = 0 /\ view = NoWebGame /\ Init
  BY DEF DeliveryInit, Init
<1>2. GameShape
  BY <1>1, InitShape
<1>3. Len(pendingDeliveries) = 0
  BY <1>1
<1>4. QueueBehind
  BY <1>3 DEF QueueBehind
<1>5. Placed(view)
  BY <1>1 DEF Placed, Framed, NoWebGame, WebFields
<1>6. UpToDate /\ LeadsToTruth /\ LostIsOld
  BY <1>1 DEF UpToDate, LeadsToTruth, LostIsOld
<1> QED BY <1>1, <1>2, <1>4, <1>5, <1>6 DEF PictureInv

LEMMA StutterPicture ==
  ASSUME Inv, PictureInv, device = "web", UNCHANGED vars
  PROVE  PictureInv'
<1>1. /\ SameGame
      /\ UNCHANGED << snapshotVersion, pendingDeliveries, attached, view, connection, recipient >>
  BY DEF vars, SameGame, eventVars, linkVars
<1>2. /\ GameShape' /\ Truth' = Truth
      /\ gameID' = gameID /\ state' = state /\ roomLandlord' = roomLandlord
  BY <1>1, SameTruth DEF PictureInv
<1>3. QueueBehind' /\ Placed(view)' /\ LostIsOld' /\ (~attached => state # "Init")'
  BY <1>1, <1>2 DEF QueueBehind, Placed, LostIsOld, PictureInv, Framed, Passed
<1>4. UpToDate'
  BY <1>1, <1>2 DEF UpToDate, PictureInv, WebShows, CardsAre
<1>5. LeadsToTruth'
 <2>1. CASE ~attached \/ state = "Init"
   BY <1>1, <1>2, <2>1 DEF LeadsToTruth
 <2>2. CASE attached /\ state # "Init"
  <3>1. PICK w : Leads("web", roomLandlord, view, pendingDeliveries, w) /\ WebShows(w, Truth)
    BY <2>2 DEF PictureInv, LeadsToTruth
  <3>2. Leads("web", roomLandlord', view', pendingDeliveries', w) /\ WebShows(w, Truth')
    BY <1>1, <1>2, <3>1
  <3> HIDE DEF Truth
  <3> QED BY <3>2 DEF LeadsToTruth
 <2> QED BY <2>1, <2>2
<1> QED BY <1>2, <1>3, <1>4, <1>5 DEF PictureInv

LEMMA EveryPicture == Inv /\ BrowserInv /\ [DeliveryNext]_vars => BrowserInv'
<1> SUFFICES ASSUME Inv, BrowserInv, [DeliveryNext]_vars, device' = "web" PROVE PictureInv'
  BY DEF BrowserInv
<1>1. device = "web"
  BY EveryStep DEF Goes
<1>2. PictureInv
  BY <1>1 DEF BrowserInv
<1>3. CASE PlayOn
  BY <1>1, <1>2, <1>3, CommandPicture DEF PlayOn
<1>4. CASE \E t \in thoughts : ClaimPlayTurn(t) \/ BuildContext(t) \/ SubmitPlay(t) \/ SubmitBid(t)
  BY <1>1, <1>4 DEF Inv, ThoughtsInv
<1> QED BY <1>1, <1>2, <1>3, <1>4, BroadcastPicture, ElsewherePicture, LookUpPicture, SendPicture,
        BreakPicture, ReconnectPicture, StutterPicture, Zenon DEF DeliveryNext

LEMMA PictureAgrees == Inv /\ BrowserInv => WebAgrees
<1> SUFFICES ASSUME Inv, PictureInv, device = "web", attached, pendingDeliveries = << >>,
                    state # "Init"
             PROVE  WebAgrees
  BY DEF BrowserInv, WebAgrees, Quiet
<1>1. WebShows(view, Truth)
  BY NowShown
<1> DEFINE t == Truth
<1>2. /\ t.phase = state /\ t.game = gameID /\ t.hand = hands[Me] /\ t.played = playedCards
      /\ t.landlord = LandlordSeat /\ t.bidder = currentBidder
      /\ t.grab = (landlordCaller # NoSeat) /\ t.player = currentPlayer
      /\ t.bottom = bottomCards /\ t.must = MustPlay /\ t.last = lastPlayedHand
      /\ t.by = lastPlayerIdx /\ t.bombs = bombCount /\ t.multiplier = CurrentMultiplier
      /\ \A s \in Seat : t.counts[s] = Size(hands[s])
  BY TruthNow
<1>3. WebShows(view, t)
  BY <1>1
<1> HIDE DEF t
<1> QED BY <1>2, <1>3 DEF WebAgrees, WebShows, CardsAre

-----------------------------------------------------------------------------

\* Once nothing is under way, a browser that is there shows the phase, its hand,
\* the table, whose turn it is and the numbers of cards it was told, whatever it
\* missed: an event is let in exactly when it is new to the picture
\* (gameSlice.ts:465), a snapshot that is not restored has nothing new
\* (gameSlice.ts:317), and a private event that finds another connection than
\* it was looked up for is not needed any more (room/broadcast.go).
THEOREM BrowsersShowTheGame == DeliverySpec => []WebAgrees
<1>1. DeliveryInit => Inv /\ BrowserInv
  BY InitInv, InitPicture
<1>2. Inv /\ BrowserInv /\ [DeliveryNext]_vars => Inv' /\ BrowserInv'
  BY EveryStep, EveryPicture
<1>3. Inv /\ BrowserInv => WebAgrees
  BY PictureAgrees
<1> QED BY <1>1, <1>2, <1>3, PTL DEF DeliverySpec

-----------------------------------------------------------------------------
(* The number of cards.                                                    *)

\* The single cards of a multiset.
Singles(cards) == UNION {{r} \X (1..cards[r]) : r \in Rank}

LEMMA SinglesAre ==
  ASSUME NEW cards \in CardSet, NEW x
  PROVE  x \in Singles(cards) <=> \E r \in Rank : \E i \in 1..cards[r] : x = << r, i >>
BY DEF Singles

LEMMA SinglesFinite ==
  ASSUME NEW cards \in CardSet
  PROVE  IsFiniteSet(Singles(cards))
<1>1. IsFiniteSet(Rank)
 <2>1. IsFiniteSet(3..17)
  <3>1. 3 \in Int /\ 17 \in Int
    OBVIOUS
  <3> QED BY <3>1, FS_Interval
 <2> QED BY <2>1, RankAssumption, FS_Subset
<1> DEFINE f == [r \in Rank |-> {r} \X (1..cards[r])]
           parts == {{r} \X (1..cards[r]) : r \in Rank}
<1>2. f \in Surjection(Rank, parts)
 <2>1. DOMAIN f = Rank /\ \A r \in Rank : f[r] = {r} \X (1..cards[r])
   OBVIOUS
 <2>2. f \in [Rank -> parts]
   OBVIOUS
 <2> HIDE DEF f
 <2> QED BY <2>1, <2>2 DEF Surjection
<1>3. IsFiniteSet(parts)
  BY <1>1, <1>2, FS_Surjection
<1>4. ASSUME NEW r \in Rank PROVE IsFiniteSet({r} \X (1..cards[r]))
 <2>1. cards[r] \in Nat
   BY DEF CardSet
 <2>2. IsFiniteSet({r}) /\ IsFiniteSet(1..cards[r])
  <3>1. 1 \in Int /\ cards[r] \in Int
    BY <2>1
  <3> QED BY <3>1, FS_Singleton, FS_Interval
 <2> DEFINE S == {r}
            T == 1..cards[r]
 <2> HIDE DEF S, T
 <2>3. IsFiniteSet(S) /\ IsFiniteSet(T)
   BY <2>2 DEF S, T
 <2>4. IsFiniteSet(S \X T)
   BY <2>3, FS_Product
 <2> QED BY <2>4 DEF S, T
<1>5. \A T \in parts : IsFiniteSet(T)
  BY <1>4
<1> HIDE DEF parts
<1>6. IsFiniteSet(UNION parts)
  BY <1>3, <1>5, FS_UNION
<1> QED BY <1>6 DEF Singles, parts

\* Two piles together have the cards of both.
LEMMA SizesAdd ==
  ASSUME NEW a \in CardSet, NEW b \in CardSet
  PROVE  /\ Size(a) \in Nat /\ Size(b) \in Nat
         /\ Size(Plus(a, b)) = Size(a) + Size(b)
<1> DEFINE A == Singles(a)
           B == Singles(b)
           C == Singles(Plus(a, b))
           D == C \ A
           f == [x \in B |-> << x[1], a[x[1]] + x[2] >>]
<1>1. Plus(a, b) \in CardSet /\ \A r \in Rank : Plus(a, b)[r] = a[r] + b[r]
  BY CardSetClosed DEF Plus
<1>2. \A r \in Rank : a[r] \in Nat /\ b[r] \in Nat
  BY DEF CardSet
<1>3. IsFiniteSet(A) /\ IsFiniteSet(B) /\ IsFiniteSet(C)
  BY <1>1, SinglesFinite
<1>4. \A x : x \in A <=> \E r \in Rank : \E i \in 1..a[r] : x = << r, i >>
  BY SinglesAre
<1>5. \A x : x \in B <=> \E r \in Rank : \E i \in 1..b[r] : x = << r, i >>
  BY SinglesAre
<1>6. \A x : x \in C <=> \E r \in Rank : \E i \in 1..(a[r] + b[r]) : x = << r, i >>
  BY <1>1, SinglesAre
<1>7. Size(a) = Cardinality(A) /\ Size(b) = Cardinality(B)
      /\ Size(Plus(a, b)) = Cardinality(C)
  BY DEF Size, Singles
<1> HIDE DEF A, B, C
<1>8. A \subseteq C
 <2> SUFFICES ASSUME NEW x \in A PROVE x \in C
   OBVIOUS
 <2>1. PICK r, i : r \in Rank /\ i \in 1..a[r] /\ x = << r, i >>
   BY <1>4
 <2>2. i \in 1..(a[r] + b[r])
   BY <1>2, <2>1
 <2> QED BY <1>6, <2>1, <2>2
<1>9. ASSUME NEW x \in B PROVE f[x] \in D
 <2>1. PICK r, i : r \in Rank /\ i \in 1..b[r] /\ x = << r, i >>
   BY <1>5
 <2>2. f[x] = << r, a[r] + i >>
   BY <2>1
 <2>3. a[r] + i \in 1..(a[r] + b[r]) /\ a[r] + i \notin 1..a[r]
   BY <1>2, <2>1
 <2>4. f[x] \in C
  <3>1. \E j \in 1..(a[r] + b[r]) : << r, a[r] + i >> = << r, j >>
    BY <2>3
  <3> QED BY <1>6, <2>1, <2>2, <3>1
 <2>5. f[x] \notin A
   BY <1>4, <2>2, <2>3
 <2> QED BY <2>4, <2>5
<1>10. ASSUME NEW y \in D PROVE \E x \in B : f[x] = y
 <2>1. PICK r, i : r \in Rank /\ i \in 1..(a[r] + b[r]) /\ y = << r, i >>
   BY <1>6
 <2>2. i \notin 1..a[r]
   BY <1>4, <2>1
 <2>3. i - a[r] \in 1..b[r] /\ a[r] + (i - a[r]) = i
   BY <1>2, <2>1, <2>2
 <2>4. << r, i - a[r] >> \in B
   BY <1>5, <2>1, <2>3
 <2>5. f[<< r, i - a[r] >>] = y
   BY <2>1, <2>3, <2>4
 <2> QED BY <2>4, <2>5
<1>11. ASSUME NEW x \in B, NEW y \in B, f[x] = f[y] PROVE x = y
 <2>1. PICK r, i : r \in Rank /\ i \in 1..b[r] /\ x = << r, i >>
   BY <1>5
 <2>2. PICK s, j : s \in Rank /\ j \in 1..b[s] /\ y = << s, j >>
   BY <1>5
 <2>3. << r, a[r] + i >> = << s, a[s] + j >>
   BY <1>11, <2>1, <2>2
 <2>4. r = s /\ a[r] + i = a[s] + j
   BY <2>3
 <2>5. i = j
   BY <1>2, <2>1, <2>2, <2>4
 <2> QED BY <2>1, <2>2, <2>4, <2>5
<1>12. f \in Bijection(B, D)
 <2>1. f \in [B -> D]
   BY <1>9
 <2> HIDE DEF f, D
 <2> QED BY <1>10, <1>11, <2>1 DEF Bijection, Injection, Surjection, IsInjective
<1>13. Cardinality(D) = Cardinality(B) /\ IsFiniteSet(D)
 <2> HIDE DEF f, D
 <2> QED BY <1>3, <1>12, FS_Bijection, Fun_ExistsBij
<1>14. C = A \cup D /\ A \cap D = {}
  BY <1>8
<1>15. Cardinality(C) = Cardinality(A) + Cardinality(D) - Cardinality({})
 <2> HIDE DEF D
 <2>1. Cardinality(A \cup D) = Cardinality(A) + Cardinality(D) - Cardinality(A \cap D)
   BY <1>3, <1>13, FS_Union
 <2> QED BY <1>14, <2>1
<1>16. /\ Cardinality(A) \in Nat /\ Cardinality(B) \in Nat /\ Cardinality({}) = 0
  BY <1>3, FS_CardinalityType, FS_EmptySet
<1> QED BY <1>7, <1>13, <1>15, <1>16

-----------------------------------------------------------------------------
(* What a bot makes of an event.                                           *)

BotFacts == {"game", "hand", "counts", "landlord", "bottom", "lastPlay", "counter", "playedByPos"}
BotFrame(v) ==
  /\ DOMAIN v = BotFacts \cup {"attempted"}
  /\ DOMAIN v.counts = Seat /\ DOMAIN v.playedByPos = 0..2

\* What a bot shows that has been told everything; before the first deal and
\* after the game nothing depends on it.
BotShows(v, t) ==
  /\ BotFrame(v)
  /\ t.phase \in {"Bidding", "Playing"} =>
       v.hand = t.hand /\ \A s \in Seat : v.counts[s] = t.counts[s]
  /\ t.phase = "Bidding" =>
       /\ \A s \in Seat : t.played[s] = NoCards
       /\ \A pos \in 0..2 : v.playedByPos[pos] = NoCards
  /\ t.phase = "Playing" =>
       /\ v.landlord \in Seat /\ t.landlord = {v.landlord}
       /\ t.last # NoCards => v.lastPlay = t.last
       /\ \A s \in Seat : v.playedByPos[Position(s, v.landlord)] = t.played[s]

LEMMA PositionTyped ==
  \A s, l \in Seat : Position(s, l) \in 0..2 /\ (l + Position(s, l)) % 3 = s
<1> SUFFICES ASSUME NEW s \in {0, 1, 2}, NEW l \in {0, 1, 2}
             PROVE  Position(s, l) \in 0..2 /\ (l + Position(s, l)) % 3 = s
  BY DEF Seat
<1>1. CASE l = 0
  BY <1>1 DEF Position
<1>2. CASE l = 1
  BY <1>2 DEF Position
<1>3. CASE l = 2
  BY <1>3 DEF Position
<1> QED BY <1>1, <1>2, <1>3

LEMMA PositionsDiffer ==
  \A s, r, l \in Seat : Position(s, l) = Position(r, l) => s = r
<1> SUFFICES ASSUME NEW s \in Seat, NEW r \in Seat, NEW l \in Seat, Position(s, l) = Position(r, l)
             PROVE  s = r
  OBVIOUS
<1>1. (l + Position(s, l)) % 3 = s /\ (l + Position(r, l)) % 3 = r
  BY PositionTyped
<1> QED BY <1>1

LEMMA BotIsTold ==
  ASSUME NEW mark, NEW v, NEW e, e.to \in {NoSeat, Me}
  PROVE  /\ e.type = "GameStart" => Told("bot", mark, v, e) = BotGameStart(v, e.meta)
         /\ e.type = "DealCards" => Told("bot", mark, v, e) = [v EXCEPT !.hand = e.body.cards]
         /\ e.type = "Landlord" => Told("bot", mark, v, e) = BotLandlord(v, e.body)
         /\ e.type = "CardPlayed" => Told("bot", mark, v, e) = BotCardPlayed(v, Me, e.body)
         /\ e.type \in {"BidTurn", "BidResult", "PlayTurn", "PlayerPass", "GameOver"} =>
              Told("bot", mark, v, e) = v
<1> DEFINE b == [e EXCEPT !.body = [landlord |-> IF mark = NoSeat THEN {} ELSE {mark}]]
<1>1. CASE e.type = "GameStart"
 <2>1. CASE e.to = NoSeat
  <3>1. Told("bot", mark, v, e) = BotSees(v, Me, b)
    BY <1>1, <2>1 DEF Told
  <3>2. b.type = e.type /\ b.meta = e.meta
    OBVIOUS
  <3> HIDE DEF b
  <3> QED BY <1>1, <3>1, <3>2 DEF BotSees
 <2>2. CASE e.to # NoSeat
  <3>1. Told("bot", mark, v, e) = BotSees(v, Me, e)
    BY <1>1, <2>2 DEF Told
  <3> QED BY <1>1, <3>1 DEF BotSees
 <2> QED BY <2>1, <2>2
<1>2. CASE e.type # "GameStart"
 <2>1. Told("bot", mark, v, e) = BotSees(v, Me, e)
   BY <1>2 DEF Told
 <2> QED BY <1>2, <2>1 DEF BotSees
<1> QED BY <1>1, <1>2

LEMMA BotStarts ==
  ASSUME NEW v, NEW meta
  PROVE  LET w == BotGameStart(v, meta)
         IN  /\ BotFrame(w) /\ \A s \in Seat : w.counts[s] = HandSize
             /\ \A pos \in 0..2 : w.playedByPos[pos] = NoCards
             /\ w.game = meta.game /\ w.hand = v.hand /\ w.bottom = v.bottom
             /\ w.landlord = NoSeat /\ w.lastPlay = NoCards /\ w.counter = Deck
BY DEF BotGameStart, NewBot, BotFrame, BotFacts

LEMMA BotTakesHand ==
  ASSUME NEW v, BotFrame(v), NEW cards
  PROVE  LET w == [v EXCEPT !.hand = cards]
         IN  /\ BotFrame(w) /\ w.hand = cards
             /\ \A f \in BotFacts \ {"hand"} : w[f] = v[f]
             /\ w.counts = v.counts /\ w.playedByPos = v.playedByPos
             /\ w.landlord = v.landlord /\ w.lastPlay = v.lastPlay
BY DEF BotFrame, BotFacts

LEMMA BotTakesLandlord ==
  ASSUME NEW v, BotFrame(v), NEW b, b.player \in Seat
  PROVE  LET w == BotLandlord(v, b)
         IN  /\ BotFrame(w) /\ w.landlord = b.player /\ w.bottom = b.bottom
             /\ w.counts[b.player] = v.counts[b.player] + Size(b.bottom)
             /\ \A s \in Seat \ {b.player} : w.counts[s] = v.counts[s]
             /\ \A f \in BotFacts \ {"landlord", "bottom", "counts"} : w[f] = v[f]
             /\ w.hand = v.hand /\ w.playedByPos = v.playedByPos /\ w.lastPlay = v.lastPlay
<1> DEFINE w == BotLandlord(v, b)
           c == [v.counts EXCEPT ![b.player] = @ + Size(b.bottom)]
<1>1. w = [v EXCEPT !.landlord = b.player, !.bottom = b.bottom, !.counts = c]
  BY DEF BotLandlord
<1>2. DOMAIN c = Seat /\ c[b.player] = v.counts[b.player] + Size(b.bottom)
      /\ \A s \in Seat \ {b.player} : c[s] = v.counts[s]
  BY DEF BotFrame
<1> HIDE DEF w, c
<1>3. /\ DOMAIN w = DOMAIN v /\ w.landlord = b.player /\ w.bottom = b.bottom /\ w.counts = c
      /\ \A f \in BotFacts \ {"landlord", "bottom", "counts"} : w[f] = v[f]
  BY <1>1 DEF BotFrame, BotFacts
<1>4. w.hand = v.hand /\ w.playedByPos = v.playedByPos /\ w.lastPlay = v.lastPlay
  BY <1>3 DEF BotFacts
<1> QED BY <1>2, <1>3, <1>4 DEF w, BotFrame

LEMMA BotTakesPlay ==
  ASSUME NEW v, BotFrame(v), NEW b, b.player \in Seat, v.landlord \in Seat
  PROVE  LET w == BotCardPlayed(v, Me, b)
             pos == Position(b.player, v.landlord)
         IN  /\ BotFrame(w) /\ w.counts[b.player] = b.cardsLeft
             /\ \A s \in Seat \ {b.player} : w.counts[s] = v.counts[s]
             /\ w.hand = IF b.player = Me THEN Minus(v.hand, b.cards) ELSE v.hand
             /\ w.lastPlay = b.cards /\ w.landlord = v.landlord
             /\ w.playedByPos[pos] = Plus(v.playedByPos[pos], b.cards)
             /\ \A p \in (0..2) \ {pos} : w.playedByPos[p] = v.playedByPos[p]
<1> DEFINE w == BotCardPlayed(v, Me, b)
           pos == Position(b.player, v.landlord)
           c == [v.counts EXCEPT ![b.player] = b.cardsLeft]
           h == IF b.player = Me THEN Minus(v.hand, b.cards) ELSE v.hand
           k == Minus(v.counter, b.cards)
           q == [v.playedByPos EXCEPT ![pos] = Plus(@, b.cards)]
<1>1. w = [v EXCEPT !.counts = c, !.hand = h, !.counter = k, !.lastPlay = b.cards,
                    !.playedByPos = q]
  BY DEF BotCardPlayed
<1>2. DOMAIN c = Seat /\ c[b.player] = b.cardsLeft
      /\ \A s \in Seat \ {b.player} : c[s] = v.counts[s]
  BY DEF BotFrame
<1>3. pos \in 0..2
  BY PositionTyped
<1>4. DOMAIN q = 0..2 /\ q[pos] = Plus(v.playedByPos[pos], b.cards)
      /\ \A p \in (0..2) \ {pos} : q[p] = v.playedByPos[p]
  BY <1>3 DEF BotFrame
<1> HIDE DEF w, c, k, q, h, pos
<1>5. /\ DOMAIN w = DOMAIN v /\ w.counts = c /\ w.hand = h /\ w.lastPlay = b.cards
      /\ w.playedByPos = q /\ w.landlord = v.landlord
  BY <1>1 DEF BotFrame, BotFacts
<1>6. BotFrame(w)
  BY <1>2, <1>4, <1>5 DEF BotFrame
<1> QED BY <1>2, <1>4, <1>5, <1>6 DEF w, h, pos

-----------------------------------------------------------------------------
(* Claiming a turn changes nothing that the bot remembers of the game.     *)

Alike(u, v) == BotFrame(u) /\ BotFrame(v) /\ \A f \in BotFacts : u[f] = v[f]

LEMMA AlikeFields ==
  ASSUME NEW u, NEW v, Alike(u, v)
  PROVE  /\ u.game = v.game /\ u.hand = v.hand /\ u.counts = v.counts /\ u.landlord = v.landlord
         /\ u.bottom = v.bottom /\ u.lastPlay = v.lastPlay /\ u.counter = v.counter
         /\ u.playedByPos = v.playedByPos
BY DEF Alike, BotFacts

LEMMA AlikeShow ==
  ASSUME NEW u, NEW v, NEW t, Alike(u, v), BotShows(u, t)
  PROVE  BotShows(v, t)
<1>1. BotFrame(v)
  BY DEF Alike
<1> QED BY <1>1, AlikeFields DEF BotShows

LEMMA AlikeClaims ==
  ASSUME NEW u, NEW v, NEW a, Alike(u, v)
  PROVE  Alike(u, [v EXCEPT !.attempted = a])
<1> DEFINE w == [v EXCEPT !.attempted = a]
<1>1. DOMAIN w = DOMAIN v /\ \A f \in BotFacts : w[f] = v[f]
  BY DEF Alike, BotFrame, BotFacts
<1>2. w.counts = v.counts /\ w.playedByPos = v.playedByPos
  BY <1>1 DEF BotFacts
<1> HIDE DEF w
<1> QED BY <1>1, <1>2 DEF Alike, BotFrame, w

LEMMA AlikeTold ==
  ASSUME NEW u, NEW v, Alike(u, v), NEW e, NEW mark, e.type \in EventTypes
  PROVE  Alike(Told("bot", mark, u, e), Told("bot", mark, v, e))
<1>0. BotFrame(u) /\ BotFrame(v)
  BY DEF Alike
<1>1. CASE e.to \notin {NoSeat, Me}
  BY <1>1, ToldNothing
<1>2. CASE e.to \in {NoSeat, Me} /\ e.type \in {"BidTurn", "BidResult", "PlayTurn", "PlayerPass", "GameOver"}
  BY <1>2, BotIsTold
<1>3. CASE e.to \in {NoSeat, Me} /\ e.type = "GameStart"
 <2>1. /\ Told("bot", mark, u, e) = BotGameStart(u, e.meta)
       /\ Told("bot", mark, v, e) = BotGameStart(v, e.meta)
   BY <1>3, BotIsTold
 <2>2. BotGameStart(u, e.meta) = BotGameStart(v, e.meta)
   BY AlikeFields DEF BotGameStart
 <2>3. BotFrame(BotGameStart(v, e.meta))
   BY BotStarts
 <2> QED BY <2>1, <2>2, <2>3 DEF Alike
<1>4. CASE e.to \in {NoSeat, Me} /\ e.type = "DealCards"
 <2> DEFINE x == [u EXCEPT !.hand = e.body.cards]
            y == [v EXCEPT !.hand = e.body.cards]
 <2>1. Told("bot", mark, u, e) = x /\ Told("bot", mark, v, e) = y
   BY <1>4, BotIsTold
 <2>2. BotFrame(x) /\ BotFrame(y) /\ x.hand = y.hand
       /\ \A f \in BotFacts \ {"hand"} : x[f] = u[f] /\ y[f] = v[f]
   BY <1>0, BotTakesHand
 <2> HIDE DEF x, y
 <2> QED BY <2>1, <2>2 DEF Alike
<1>5. CASE e.to \in {NoSeat, Me} /\ e.type = "Landlord"
 <2> DEFINE b == e.body
            x == BotLandlord(u, b)
            y == BotLandlord(v, b)
            c == [u.counts EXCEPT ![b.player] = @ + Size(b.bottom)]
 <2>1. Told("bot", mark, u, e) = x /\ Told("bot", mark, v, e) = y
   BY <1>5, BotIsTold
 <2>2. /\ x = [u EXCEPT !.landlord = b.player, !.bottom = b.bottom, !.counts = c]
       /\ y = [v EXCEPT !.landlord = b.player, !.bottom = b.bottom, !.counts = c]
   BY AlikeFields DEF BotLandlord
 <2>3. DOMAIN c = Seat
   BY <1>0 DEF BotFrame
 <2> HIDE DEF x, y, c, b
 <2>4. /\ DOMAIN x = DOMAIN u /\ DOMAIN y = DOMAIN v
       /\ x.counts = c /\ y.counts = c /\ x.landlord = y.landlord /\ x.bottom = y.bottom
       /\ \A f \in BotFacts \ {"landlord", "bottom", "counts"} : x[f] = u[f] /\ y[f] = v[f]
   BY <1>0, <2>2 DEF BotFrame, BotFacts
 <2>5. x.playedByPos = u.playedByPos /\ y.playedByPos = v.playedByPos
   BY <2>4 DEF BotFacts
 <2>6. BotFrame(x) /\ BotFrame(y)
   BY <1>0, <2>3, <2>4, <2>5 DEF BotFrame
 <2>7. \A f \in BotFacts : x[f] = y[f]
   BY <2>4 DEF Alike
 <2> QED BY <2>1, <2>6, <2>7 DEF Alike
<1>6. CASE e.to \in {NoSeat, Me} /\ e.type = "CardPlayed"
 <2> DEFINE b == e.body
            x == BotCardPlayed(u, Me, b)
            y == BotCardPlayed(v, Me, b)
            c == [u.counts EXCEPT ![b.player] = b.cardsLeft]
            h == IF b.player = Me THEN Minus(u.hand, b.cards) ELSE u.hand
            k == Minus(u.counter, b.cards)
            q == [u.playedByPos EXCEPT ![Position(b.player, u.landlord)] = Plus(@, b.cards)]
 <2>1. Told("bot", mark, u, e) = x /\ Told("bot", mark, v, e) = y
   BY <1>6, BotIsTold
 <2>2. /\ x = [u EXCEPT !.counts = c, !.hand = h, !.counter = k, !.lastPlay = b.cards,
                        !.playedByPos = q]
       /\ y = [v EXCEPT !.counts = c, !.hand = h, !.counter = k, !.lastPlay = b.cards,
                        !.playedByPos = q]
  <3>1. x = [u EXCEPT !.counts = c, !.hand = h, !.counter = k, !.lastPlay = b.cards,
                      !.playedByPos = q]
    BY DEF BotCardPlayed
  <3>2. /\ v.counts = u.counts /\ v.hand = u.hand /\ v.counter = u.counter
        /\ v.playedByPos = u.playedByPos /\ v.landlord = u.landlord
    BY AlikeFields
  <3>3. y = [v EXCEPT !.counts = [v.counts EXCEPT ![b.player] = b.cardsLeft],
                      !.hand = IF b.player = Me THEN Minus(v.hand, b.cards) ELSE v.hand,
                      !.counter = Minus(v.counter, b.cards), !.lastPlay = b.cards,
                      !.playedByPos = [v.playedByPos EXCEPT
                        ![Position(b.player, v.landlord)] = Plus(@, b.cards)]]
    BY DEF BotCardPlayed
  <3> QED BY <3>1, <3>2, <3>3
 <2>3. DOMAIN c = Seat /\ DOMAIN q = 0..2
   BY <1>0 DEF BotFrame
 <2> HIDE DEF x, y, c, b, h, k, q
 <2>4. /\ DOMAIN x = DOMAIN u /\ DOMAIN y = DOMAIN v
       /\ x.counts = c /\ y.counts = c /\ x.playedByPos = q /\ y.playedByPos = q
       /\ x.hand = y.hand /\ x.counter = y.counter /\ x.lastPlay = y.lastPlay
       /\ \A f \in BotFacts \ {"counts", "hand", "counter", "lastPlay", "playedByPos"} :
            x[f] = u[f] /\ y[f] = v[f]
   BY <1>0, <2>2 DEF BotFrame, BotFacts
 <2>6. BotFrame(x) /\ BotFrame(y)
   BY <1>0, <2>3, <2>4 DEF BotFrame
 <2>7. \A f \in BotFacts : x[f] = y[f]
   BY <2>4 DEF Alike
 <2> QED BY <2>1, <2>6, <2>7 DEF Alike
<1> QED BY <1>1, <1>2, <1>3, <1>4, <1>5, <1>6 DEF EventTypes

-----------------------------------------------------------------------------
(* What the events of a command tell a bot.                                *)

TellsBot(v, events) ==
  \E w : Leads("bot", roomLandlord', v, events, w) /\ BotShows(w, Truth')

LEMMA ThenTellsBot ==
  ASSUME NEW v, NEW w, NEW s, NEW r, IsList(s), IsList(r),
         Leads("bot", roomLandlord', v, s, w), TellsBot(w, r)
  PROVE  TellsBot(v, s \o r)
<1>1. PICK x : Leads("bot", roomLandlord', w, r, x) /\ BotShows(x, Truth')
  BY DEF TellsBot
<1>2. Leads("bot", roomLandlord', v, s \o r, x)
  BY <1>1, BothLead
<1> QED BY <1>1, <1>2 DEF TellsBot

\* An event that only asks or announces.
LEMMA BotKeepsPicture ==
  ASSUME NEW v, NEW e, e.to = NoSeat,
         e.type \in {"BidTurn", "BidResult", "PlayTurn", "PlayerPass", "GameOver"}
  PROVE  Leads("bot", roomLandlord', v, << e >>, v) /\ IsList(<< e >>)
<1>1. Told("bot", roomLandlord', v, e) = v
  BY BotIsTold
<1> QED BY <1>1, OneLeads

LEMMA AskingTellsBot ==
  ASSUME NEW v, BotShows(v, Truth'), NEW n
  PROVE  TellsBot(v, BidTurnEvents(n)) /\ TellsBot(v, PlayTurnEvents(n))
<1>1. ASSUME NEW type \in {"BidTurn", "PlayTurn"}, NEW b
      PROVE  TellsBot(v, << Event(type, NoSeat, After(n + 1), b) >>)
 <2> DEFINE e == Event(type, NoSeat, After(n + 1), b)
 <2>1. e.to = NoSeat /\ e.type = type
   BY DEF Event
 <2> HIDE DEF e
 <2>2. Leads("bot", roomLandlord', v, << e >>, v)
   BY <2>1, BotKeepsPicture
 <2>3. TellsBot(v, << e >>)
   BY <2>2 DEF TellsBot
 <2> QED BY <2>3 DEF e
<1> QED BY <1>1 DEF BidTurnEvents, PlayTurnEvents

\* A bot that is told events starts a game with cards in hand.
Begins(mark, v, events, cards) ==
  \E w : /\ Leads("bot", mark, v, events, w) /\ BotFrame(w) /\ w.hand = cards
         /\ \A s \in Seat : w.counts[s] = HandSize
         /\ \A pos \in 0..2 : w.playedByPos[pos] = NoCards

LEMMA BotDeals ==
  ASSUME NEW v, NEW mark, NEW start, NEW h, start.to = NoSeat, start.type = "GameStart",
         \A s \in Seat : h[s].to = s, h[Me].type = "DealCards"
  PROVE  Begins(mark, v, << start, h[0], h[1], h[2] >>, h[Me].body.cards)
<1> DEFINE a == Told("bot", mark, v, start)
           b == Told("bot", mark, a, h[0])
           c == Told("bot", mark, b, h[1])
           d == Told("bot", mark, c, h[2])
           cards == h[Me].body.cards
<1>1. a = BotGameStart(v, start.meta)
  BY BotIsTold
<1>2. /\ BotFrame(a) /\ \A s \in Seat : a.counts[s] = HandSize
      /\ \A pos \in 0..2 : a.playedByPos[pos] = NoCards
  BY <1>1, BotStarts
<1>3. Leads("bot", mark, v, << start, h[0], h[1], h[2] >>, d)
  BY FourLead
<1>4. \A u : \A s \in Seat \ {Me} : Told("bot", mark, u, h[s]) = u
  BY ToldNothing, MeAssumption DEF Seat, NoSeat
<1>5. \A u : Told("bot", mark, u, h[Me]) = [u EXCEPT !.hand = cards]
  BY BotIsTold, MeAssumption
<1> DEFINE w == [a EXCEPT !.hand = cards]
<1>6. /\ BotFrame(w) /\ w.hand = cards /\ w.counts = a.counts /\ w.playedByPos = a.playedByPos
  BY <1>2, BotTakesHand
<1>7. d = w
 <2> HIDE DEF a, w, cards
 <2>1. CASE Me = 0
  <3>1. b = Told("bot", mark, a, h[Me]) /\ c = b /\ d = c
    BY <1>4, <2>1 DEF Seat
  <3> HIDE DEF b, c, d
  <3> QED BY <1>5, <3>1 DEF w
 <2>2. CASE Me = 1
  <3>1. b = a /\ c = Told("bot", mark, b, h[Me]) /\ d = c
    BY <1>4, <2>2 DEF Seat
  <3> HIDE DEF b, c, d
  <3> QED BY <1>5, <3>1 DEF w
 <2>3. CASE Me = 2
  <3>1. b = a /\ c = b /\ d = Told("bot", mark, c, h[Me])
    BY <1>4, <2>3 DEF Seat
  <3> HIDE DEF b, c, d
  <3> QED BY <1>5, <3>1 DEF w
 <2> QED BY <2>1, <2>2, <2>3, MeAssumption DEF Seat
<1> HIDE DEF d, w, a
<1> QED BY <1>2, <1>3, <1>6, <1>7 DEF Begins

LEMMA DealTellsBot ==
  ASSUME NEW v, NEW n
  PROVE  LET cards == IF roomLandlord' = Me THEN Minus(hands'[Me], bottomCards')
                      ELSE hands'[Me]
         IN  Begins(roomLandlord', v, DealEvents(n), cards)
<1> DEFINE dealt(s) == IF roomLandlord' = s THEN Minus(hands'[s], bottomCards') ELSE hands'[s]
           hand(s) == Event("DealCards", s, Before(n + 2),
                            [cards |-> dealt(s), bottom |-> NoCards])
           start == Event("GameStart", NoSeat, Before(n + 1), << >>)
           h == [s \in Seat |-> hand(s)]
           mark == roomLandlord'
           cards == dealt(Me)
<1>1. DealEvents(n) = << start, h[0], h[1], h[2] >>
  BY DEF DealEvents, Seat
<1>2. start.to = NoSeat /\ start.type = "GameStart"
  BY DEF Event
<1>3. /\ \A s \in Seat : h[s].to = s
      /\ h[Me].type = "DealCards" /\ h[Me].body.cards = cards
  BY MeAssumption DEF Event
<1> HIDE DEF h, start, mark, cards, dealt, hand
<1>4. Begins(mark, v, << start, h[0], h[1], h[2] >>, h[Me].body.cards)
  BY <1>2, <1>3, BotDeals
<1>5. Begins(mark, v, DealEvents(n), cards)
  BY <1>1, <1>3, <1>4
<1> QED BY <1>5 DEF mark, cards, dealt

LEMMA LandlordTellsBot ==
  ASSUME NEW v, BotFrame(v), NEW n, Crowned, lastPlayedHand' = NoCards,
         \A s \in Seat : playedCards'[s] = NoCards,
         \A pos \in 0..2 : v.playedByPos[pos] = NoCards,
         roomLandlord' # Me => v.hand = hands'[Me],
         \A s \in Seat \ {roomLandlord'} : v.counts[s] = Size(hands'[s]),
         v.counts[roomLandlord'] + Size(bottomCards') = Size(hands'[roomLandlord'])
  PROVE  TellsBot(v, LandlordEvents(n))
<1> DEFINE p == roomLandlord'
           b == [player |-> roomLandlord', bottom |-> bottomCards', multiplier |-> bidMultiplier']
           c == [cards |-> hands'[roomLandlord'], bottom |-> bottomCards']
           said == Event("Landlord", NoSeat, Before(n + 1), b)
           hand == Event("DealCards", p, Before(n + 2), c)
           ask == Event("PlayTurn", NoSeat, After((n + 2) + 1),
                        [player |-> currentPlayer', mustPlay |-> MustPlay'])
           u == Told("bot", p, v, said)
           w == Told("bot", p, u, hand)
           t == Truth'
<1>1. LandlordEvents(n) = << said, hand >> \o << ask >>
  BY DEF LandlordEvents, PlayTurnEvents
<1>2. p \in Seat /\ LandlordSeat' = {p} /\ state' = "Playing"
  BY DEF Crowned
<1>3. /\ said.to = NoSeat /\ said.type = "Landlord" /\ said.body = b
      /\ hand.to = p /\ hand.type = "DealCards" /\ hand.body.cards = hands'[p]
      /\ ask.to = NoSeat /\ ask.type = "PlayTurn"
      /\ b.player = p /\ b.bottom = bottomCards'
  BY DEF Event
<1>4. /\ t.phase = "Playing" /\ t.hand = hands'[Me] /\ t.played = playedCards'
      /\ t.landlord = {p} /\ t.last = NoCards
      /\ \A s \in Seat : t.counts[s] = Size(hands'[s])
  BY <1>2, TruthNext
<1> HIDE DEF said, hand, ask, b, c, t
<1>5. /\ BotFrame(u) /\ u.landlord = p /\ u.hand = v.hand /\ u.playedByPos = v.playedByPos
      /\ \A s \in Seat : u.counts[s] = Size(hands'[s])
 <2>1. u = BotLandlord(v, b)
   BY <1>3, BotIsTold
 <2>2. /\ BotFrame(u) /\ u.landlord = p /\ u.hand = v.hand /\ u.playedByPos = v.playedByPos
       /\ u.counts[p] = v.counts[p] + Size(bottomCards')
       /\ \A s \in Seat \ {p} : u.counts[s] = v.counts[s]
   BY <1>2, <1>3, <2>1, BotTakesLandlord
 <2> HIDE DEF u
 <2> QED BY <2>2
<1> HIDE DEF u
<1>6. /\ BotFrame(w) /\ w.landlord = p /\ w.hand = hands'[Me] /\ w.playedByPos = v.playedByPos
      /\ \A s \in Seat : w.counts[s] = Size(hands'[s])
 <2>1. CASE p = Me
  <3> DEFINE cards == hands'[p]
             x == [u EXCEPT !.hand = cards]
  <3>1. w = x
    BY <1>3, <2>1, BotIsTold
  <3>2. /\ BotFrame(x) /\ x.hand = cards /\ x.counts = u.counts
        /\ x.playedByPos = u.playedByPos /\ x.landlord = u.landlord
   <4> HIDE DEF cards
   <4> QED BY <1>5, BotTakesHand
  <3> HIDE DEF x, w
  <3> QED BY <1>5, <2>1, <3>1, <3>2
 <2>2. CASE p # Me
  <3>1. w = u
    BY <1>2, <1>3, <2>2, ToldNothing DEF Seat, NoSeat
  <3> QED BY <1>5, <2>2, <3>1
 <2> QED BY <2>1, <2>2
<1> HIDE DEF w
<1>7. BotShows(w, t)
 <2>1. \A s \in Seat : Position(s, p) \in 0..2
   BY <1>2, PositionTyped
 <2> QED BY <1>2, <1>4, <1>6, <2>1 DEF BotShows
<1>8. Leads("bot", p, v, << said, hand >>, w) /\ IsList(<< said, hand >>)
  BY TwoLead DEF u, w
<1>9. Leads("bot", p, w, << ask >>, w) /\ IsList(<< ask >>)
  BY <1>3, BotKeepsPicture
<1>10. Leads("bot", p, v, << said, hand >> \o << ask >>, w)
  BY <1>8, <1>9, BothLead
<1> QED BY <1>1, <1>7, <1>10 DEF TellsBot, t

-----------------------------------------------------------------------------
(* The hands that a bid leaves.                                            *)

LEMMA BidHands ==
  ASSUME NEW bid \in BOOLEAN, Bid(bid), GameInv
  PROVE  \/ state' = "Bidding" /\ gameID' = gameID /\ UNCHANGED << hands, playedCards >>
         \/ /\ state' = "Playing" /\ gameID' = gameID /\ UNCHANGED << bottomCards, playedCards >>
            /\ roomLandlord' \in Seat
            /\ hands' = [hands EXCEPT ![roomLandlord'] = Plus(@, bottomCards)]
         \/ state' = "Bidding" /\ gameID' = gameID + 1 /\ hands' \in Deals
         \/ /\ state' = "Playing" /\ gameID' = gameID + 1 /\ roomLandlord' \in Seat
            /\ \E d \in Deals : /\ hands' = [d EXCEPT ![roomLandlord'] = Plus(@, Bottom(d))]
                                /\ bottomCards' = Bottom(d)
<1>0. state = "Bidding" /\ landlordCandidate \in Seat \cup {NoSeat} /\ hands \in [Seat -> CardSet]
      /\ currentBidder \in Seat
  BY DEF Bid, GameInv, TypeOK
<1>1. ASSUME NEW seat, AskToBid(seat)
      PROVE  state' = "Bidding" /\ gameID' = gameID /\ UNCHANGED << hands, playedCards >>
  BY <1>0, <1>1 DEF AskToBid, cardVars
<1>2. ASSUME StartBiddingRound
      PROVE  state' = "Bidding" /\ gameID' = gameID + 1 /\ hands' \in Deals
  BY <1>2 DEF StartBiddingRound, DealNewRound
<1>3. ASSUME NEW d \in Deals, NEW idx \in RandomSeats, DealNewRound(d),
             SetLandlord(idx, d, Bottom(d), [s \in Seat |-> FALSE])
      PROVE  /\ state' = "Playing" /\ gameID' = gameID + 1 /\ roomLandlord' \in Seat
             /\ hands' = [d EXCEPT ![roomLandlord'] = Plus(@, Bottom(d))]
             /\ bottomCards' = Bottom(d)
  BY <1>3, RandomSeatsAssumption DEF SetLandlord, DealNewRound, WithBottom
<1>4. CASE Call
  BY <1>1, <1>4 DEF Call
<1>5. CASE NoCall
 <2>1. CASE Redeal
   BY <1>2, <1>3, <2>1 DEF Redeal
 <2>2. CASE ~Redeal
   BY <1>1, <1>5, <2>2 DEF NoCall
 <2> QED BY <2>1, <2>2
<1>6. CASE Grab(bid) /\ landlordCaller # NoSeat
 <2> DEFINE c == StandingCandidate(bid)
 <2>1. c \in Seat
   BY <1>0, <1>6 DEF StandingCandidate, GameInv, AuctionBounds
 <2>2. \/ /\ SetLandlord(c, hands, bottomCards, isLandlord)
          /\ UNCHANGED << gameID, bottomCards, playedCards >>
       \/ \E seat : AskToBid(seat)
   BY <1>6 DEF Grab
 <2>3. CASE \E seat : AskToBid(seat)
   BY <1>1, <2>3
 <2>4. CASE /\ SetLandlord(c, hands, bottomCards, isLandlord)
            /\ UNCHANGED << gameID, bottomCards, playedCards >>
   BY <2>1, <2>4 DEF SetLandlord, WithBottom
 <2> QED BY <2>2, <2>3, <2>4
<1> QED BY <1>0, <1>4, <1>5, <1>6 DEF Bid

LEMMA DealSizes ==
  ASSUME NEW d \in Deals
  PROVE  /\ d \in [Seat -> CardSet] /\ Bottom(d) \in CardSet
         /\ \A s \in Seat : Size(d[s]) = HandSize
<1>1. d \in [Seat -> CardSet] /\ \A s \in Seat : Size(d[s]) = HandSize
  BY DealsAssumption, HandSizeAssumption
<1>2. \A r \in Rank : Bottom(d)[r] \in Nat
  BY BottomCompletesDeal
<1>3. Bottom(d) = [r \in Rank |-> Bottom(d)[r]]
  BY DEF Bottom, Minus
<1> QED BY <1>1, <1>2, <1>3 DEF CardSet

-----------------------------------------------------------------------------
(* The events of each command tell a bot the game as it is after it.       *)

\* Whoever is made landlord leads to a clear table.
LEMMA CrowningClears ==
  ASSUME GameInv', RoundInv', Crowned
  PROVE  lastPlayedHand' = NoCards
<1> DEFINE p == currentPlayer'
           c == consecutivePasses'
           l == lastPlayerIdx'
<1>1. p \in Seat /\ c \in 0..1 /\ l = p /\ state' = "Playing"
  BY DEF GameInv, TypeOK, Crowned
<1>2. lastPlayedHand' # NoCards => p = (l + 1 + c) % 3
  BY <1>1 DEF RoundInv, RoundShape
<1> HIDE DEF p, c, l
<1>3. p # (p + 1 + c) % 3
  BY <1>1 DEF Seat
<1> QED BY <1>1, <1>2, <1>3

LEMMA DealAskTellsBot ==
  ASSUME NEW v, NEW n \in Nat, Counting, Fresh,
         \/ state' = "Bidding" /\ roomLandlord' = NoSeat /\ hands' \in Deals
         \/ /\ Crowned /\ lastPlayedHand' = NoCards
            /\ \E d \in Deals : /\ hands' = [d EXCEPT ![roomLandlord'] = Plus(@, Bottom(d))]
                                /\ bottomCards' = Bottom(d)
  PROVE  TellsBot(v, DealEvents(n) \o AskEvents(n + 2))
<1> DEFINE k == n + 2
           cards == IF roomLandlord' = Me THEN Minus(hands'[Me], bottomCards') ELSE hands'[Me]
           mark == roomLandlord'
<1>1. Begins(mark, v, DealEvents(n), cards)
  BY DealTellsBot
<1>2. roomLandlord' # Me => cards = hands'[Me]
  OBVIOUS
<1>3. k \in Nat /\ IsList(DealEvents(n)) /\ IsList(AskEvents(k))
 <2>1. k \in Nat
   OBVIOUS
 <2> HIDE DEF k
 <2> QED BY <2>1, EventsAreLists
<1> HIDE DEF k, cards, mark
<1>4. PICK w : /\ Leads("bot", mark, v, DealEvents(n), w) /\ BotFrame(w) /\ w.hand = cards
               /\ \A s \in Seat : w.counts[s] = HandSize
               /\ \A pos \in 0..2 : w.playedByPos[pos] = NoCards
  BY <1>1 DEF Begins
<1>5. TellsBot(w, AskEvents(k))
 <2>1. CASE state' = "Bidding" /\ roomLandlord' = NoSeat /\ hands' \in Deals
  <3> DEFINE t == Truth'
  <3>1. /\ t.phase = "Bidding" /\ t.hand = hands'[Me] /\ t.played = playedCards'
        /\ \A s \in Seat : t.counts[s] = Size(hands'[s])
    BY <2>1, TruthNext
  <3>2. \A s \in Seat : Size(hands'[s]) = HandSize
    BY <2>1, DealSizes
  <3>3. \A s \in Seat : playedCards'[s] = NoCards
    BY DEF Fresh
  <3>4. w.hand = hands'[Me]
    BY <1>2, <1>4, <2>1, MeAssumption DEF Seat, NoSeat
  <3> HIDE DEF t
  <3>5. BotShows(w, t)
    BY <1>4, <3>1, <3>2, <3>3, <3>4 DEF BotShows
  <3>6. TellsBot(w, BidTurnEvents(k))
    BY <3>5, AskingTellsBot DEF t
  <3> QED BY <2>1, <3>6 DEF AskEvents
 <2>2. CASE /\ Crowned /\ lastPlayedHand' = NoCards
            /\ \E d \in Deals : /\ hands' = [d EXCEPT ![roomLandlord'] = Plus(@, Bottom(d))]
                                /\ bottomCards' = Bottom(d)
  <3>1. PICK d \in Deals : /\ hands' = [d EXCEPT ![roomLandlord'] = Plus(@, Bottom(d))]
                           /\ bottomCards' = Bottom(d)
    BY <2>2
  <3>2. roomLandlord' \in Seat /\ state' = "Playing"
    BY <2>2 DEF Crowned
  <3>3. /\ d \in [Seat -> CardSet] /\ Bottom(d) \in CardSet
        /\ \A s \in Seat : Size(d[s]) = HandSize
    BY DealSizes
  <3> DEFINE p == roomLandlord'
             x == d[roomLandlord']
             y == Bottom(d)
  <3>4. /\ \A s \in Seat \ {p} : hands'[s] = d[s]
        /\ hands'[p] = Plus(x, y)
    BY <3>1, <3>2, <3>3
  <3>5. \A s \in Seat \ {p} : w.counts[s] = Size(hands'[s])
    BY <1>4, <3>3, <3>4
  <3>6. w.counts[p] + Size(bottomCards') = Size(hands'[p])
   <4>1. x \in CardSet /\ y \in CardSet /\ Size(x) = HandSize
     BY <3>2, <3>3
   <4>2. Size(Plus(x, y)) = Size(x) + Size(y)
     BY <4>1, SizesAdd
   <4>3. w.counts[p] = HandSize
     BY <1>4, <3>2
   <4> HIDE DEF x, y, p
   <4> QED BY <3>1, <3>4, <4>1, <4>2, <4>3 DEF y
  <3>7. \A s \in Seat : playedCards'[s] = NoCards
    BY DEF Fresh
  <3>8. roomLandlord' # Me => w.hand = hands'[Me]
    BY <1>2, <1>4
  <3>9. TellsBot(w, LandlordEvents(k))
    BY <1>4, <2>2, <3>5, <3>6, <3>7, <3>8, LandlordTellsBot
  <3> QED BY <3>2, <3>9 DEF AskEvents
 <2> QED BY <2>1, <2>2
<1>6. TellsBot(v, DealEvents(n) \o AskEvents(k))
  BY <1>3, <1>4, <1>5, ThenTellsBot DEF mark
<1> QED BY <1>6 DEF k

LEMMA BidTellsBot ==
  ASSUME NEW bid \in BOOLEAN, Bid(bid), GameShape, GameInv, GameInv', RoundInv',
         NEW v, BotShows(v, Truth), snapshotVersion \in Nat
  PROVE  TellsBot(v, BidEvents(bid))
<1> DEFINE n == snapshotVersion
           k == n + 1
           b == [player |-> currentBidder, bid |-> bid,
                      isGrab |-> landlordCaller # NoSeat,
                      multiplier |-> IF gameID' = gameID THEN bidMultiplier'
                                     ELSE bidMultiplier]
           said == Event("BidResult", NoSeat, Meta(gameID, n + 1, turnID), b)
           rest == IF gameID' = gameID THEN AskEvents(n + 1)
                   ELSE DealEvents(n + 1) \o AskEvents(n + 3)
<1>1. /\ state = "Bidding" /\ GameShape' /\ turnID' = turnID + 1
      /\ BidGoesOn \/ BidCrowns \/ BidRedeals \/ BidForces
  BY BidComesTo
<1>2. BidEvents(bid) = << said >> \o rest
  BY DEF BidEvents
<1>3. /\ n \in Nat /\ k \in Nat /\ turnID \in Nat /\ gameID \in Nat /\ n + 3 = k + 2
      /\ hands \in [Seat -> CardSet] /\ bottomCards \in CardSet
  BY DEF GameInv, TypeOK
<1>4. Counting
  BY <1>1, <1>3 DEF Counting, BidGoesOn, BidCrowns, BidRedeals, BidForces
<1>5. Leads("bot", roomLandlord', v, << said >>, v) /\ IsList(<< said >>)
 <2>1. said.to = NoSeat /\ said.type = "BidResult"
   BY DEF Event
 <2> HIDE DEF said
 <2> QED BY <2>1, BotKeepsPicture
<1>6. rest = IF gameID' = gameID THEN AskEvents(k) ELSE DealEvents(k) \o AskEvents(k + 2)
  BY <1>3
<1> HIDE DEF b, said, rest, n, k
<1>7. /\ BotFrame(v) /\ v.hand = hands[Me] /\ \A s \in Seat : v.counts[s] = Size(hands[s])
      /\ \A s \in Seat : playedCards[s] = NoCards
      /\ \A pos \in 0..2 : v.playedByPos[pos] = NoCards
 <2> DEFINE t == Truth
 <2>1. /\ t.phase = "Bidding" /\ t.hand = hands[Me] /\ t.played = playedCards
       /\ \A s \in Seat : t.counts[s] = Size(hands[s])
   BY <1>1, TruthNow
 <2>2. BotShows(v, t)
   OBVIOUS
 <2> HIDE DEF t
 <2> QED BY <2>1, <2>2 DEF BotShows
<1>8. TellsBot(v, rest)
 <2>1. CASE state' = "Bidding" /\ gameID' = gameID /\ UNCHANGED << hands, playedCards >>
  <3> DEFINE t == Truth'
  <3>1. /\ t.phase = "Bidding" /\ t.hand = hands[Me] /\ t.played = playedCards
        /\ \A s \in Seat : t.counts[s] = Size(hands[s])
    BY <2>1, TruthNext
  <3> HIDE DEF t
  <3>2. BotShows(v, t)
    BY <1>7, <3>1 DEF BotShows
  <3>3. TellsBot(v, BidTurnEvents(k))
    BY <3>2, AskingTellsBot DEF t
  <3> QED BY <1>6, <2>1, <3>3 DEF AskEvents
 <2>2. CASE /\ state' = "Playing" /\ gameID' = gameID /\ UNCHANGED << bottomCards, playedCards >>
            /\ roomLandlord' \in Seat
            /\ hands' = [hands EXCEPT ![roomLandlord'] = Plus(@, bottomCards)]
  <3>1. Crowned
    BY <1>1, <1>3, <2>2 DEF BidGoesOn, BidCrowns, BidRedeals, BidForces
  <3>2. lastPlayedHand' = NoCards
    BY <3>1, CrowningClears
  <3> DEFINE p == roomLandlord'
             x == hands[roomLandlord']
             y == bottomCards
  <3>3. (\A s \in Seat \ {p} : hands'[s] = hands[s]) /\ hands'[p] = Plus(x, y) /\ p \in Seat
    BY <1>3, <2>2
  <3>4. \A s \in Seat \ {p} : v.counts[s] = Size(hands'[s])
    BY <1>7, <3>3
  <3>5. v.counts[p] + Size(bottomCards') = Size(hands'[p])
   <4>1. x \in CardSet /\ y \in CardSet /\ v.counts[p] = Size(x)
     BY <1>3, <1>7, <2>2
   <4>2. Size(Plus(x, y)) = Size(x) + Size(y)
     BY <4>1, SizesAdd
   <4> QED BY <2>2, <3>3, <4>1, <4>2
  <3>6. \A s \in Seat : playedCards'[s] = NoCards
    BY <1>7, <2>2
  <3>7. roomLandlord' # Me => v.hand = hands'[Me]
    BY <1>7, <3>3, MeAssumption
  <3>8. TellsBot(v, LandlordEvents(k))
    BY <1>7, <3>1, <3>2, <3>4, <3>5, <3>6, <3>7, LandlordTellsBot
  <3> QED BY <1>6, <2>2, <3>8 DEF AskEvents
 <2>3. CASE gameID' = gameID + 1
  <3>1. gameID' # gameID
    BY <1>3, <2>3
  <3>2. BidRedeals \/ BidForces
    BY <1>1, <3>1 DEF BidGoesOn, BidCrowns
  <3>3. Fresh /\ (state' = "Playing" => Crowned) /\ (state' = "Bidding" => roomLandlord' = NoSeat)
    BY <3>2 DEF BidRedeals, BidForces, Crowned
  <3>4. \/ state' = "Bidding" /\ hands' \in Deals
        \/ /\ state' = "Playing"
           /\ \E d \in Deals : /\ hands' = [d EXCEPT ![roomLandlord'] = Plus(@, Bottom(d))]
                               /\ bottomCards' = Bottom(d)
    BY <3>1, BidHands
  <3>5. state' = "Playing" => lastPlayedHand' = NoCards
    BY <3>3, CrowningClears
  <3>6. TellsBot(v, DealEvents(k) \o AskEvents(k + 2))
    BY <1>3, <1>4, <3>3, <3>4, <3>5, DealAskTellsBot
  <3> QED BY <1>6, <3>1, <3>6
 <2> QED BY <2>1, <2>2, <2>3, BidHands
<1>9. IsList(rest)
 <2>1. IsList(AskEvents(k))
   BY <1>3, <1>4, EventsAreLists
 <2>2. AllStamped(DealEvents(k) \o AskEvents(k + 2), gameID', turnID')
  <3>1. gameID' \in Nat /\ turnID' \in Nat /\ turnID \in Nat /\ turnID <= turnID'
    BY <1>4 DEF Counting
  <3>2. k + 2 \in Nat
    BY <1>3
  <3>3. /\ AllStamped(DealEvents(k), gameID', turnID')
        /\ AllStamped(AskEvents(k + 2), gameID', turnID')
    BY <1>3, <3>1, <3>2, DealEventsStamped, AskEventsStamped
  <3> QED BY <3>3, JoinedStamped
 <2> QED BY <1>6, <2>1, <2>2, StampedIsList
<1> QED BY <1>2, <1>5, <1>8, <1>9, ThenTellsBot

LEMMA StartTellsBot ==
  ASSUME Start, GameShape, NEW v, gameID \in Nat, turnID \in Nat, snapshotVersion \in Nat
  PROVE  TellsBot(v, DealEvents(snapshotVersion) \o AskEvents(snapshotVersion + 2))
<1>1. /\ GameShape' /\ Fresh /\ state' = "Bidding" /\ gameID' = gameID + 1
      /\ turnID' = turnID + 1 /\ roomLandlord' = NoSeat
  BY StartComesTo
<1>2. Counting
  BY <1>1 DEF Counting
<1>3. hands' \in Deals
  BY DEF Start, StartBiddingRound
<1> QED BY <1>1, <1>2, <1>3, DealAskTellsBot

LEMMA PassTellsBot ==
  ASSUME Pass, GameShape, GameInv, RoundInv', NEW v, BotShows(v, Truth), snapshotVersion \in Nat
  PROVE  TellsBot(v, PassEvents)
<1> DEFINE k == snapshotVersion + 1
           b == [player |-> currentPlayer]
           said == Event("PlayerPass", NoSeat, Before(k), b)
<1>0. k \in Nat /\ turnID \in Nat /\ gameID \in Nat
  BY DEF GameInv, TypeOK
<1>1. /\ GameShape' /\ state = "Playing" /\ state' = "Playing" /\ gameID' = gameID
      /\ turnID' = turnID + 1 /\ LandlordSeat' = LandlordSeat
      /\ UNCHANGED << hands, playedCards >>
      /\ MustPlay' \/ UNCHANGED << lastPlayedHand, lastPlayerIdx >>
  BY <1>0, PassComesTo
<1>2. Counting
  BY <1>0, <1>1 DEF Counting
<1>3. PassEvents = << said >> \o PlayTurnEvents(k)
  BY DEF PassEvents
<1>4. said.to = NoSeat /\ said.type = "PlayerPass"
  BY DEF Event
<1> HIDE DEF b, said, k
<1>5. Leads("bot", roomLandlord', v, << said >>, v) /\ IsList(<< said >>)
  BY <1>4, BotKeepsPicture
<1>6. lastPlayedHand' = NoCards \/ lastPlayedHand' = lastPlayedHand
  BY DEF Pass
<1> DEFINE t == Truth
           x == Truth'
<1>7. /\ t.hand = hands[Me] /\ t.played = playedCards /\ t.landlord = LandlordSeat
      /\ t.phase = "Playing" /\ t.last = lastPlayedHand
      /\ \A s \in Seat : t.counts[s] = Size(hands[s])
  BY <1>1, TruthNow
<1>8. /\ x.hand = hands[Me] /\ x.played = playedCards /\ x.landlord = LandlordSeat
      /\ x.phase = "Playing" /\ x.last = lastPlayedHand'
      /\ \A s \in Seat : x.counts[s] = Size(hands[s])
  BY <1>1, TruthNext
<1>9. BotShows(v, t)
  OBVIOUS
<1> HIDE DEF t, x
<1>10. BotShows(v, x)
  BY <1>6, <1>7, <1>8, <1>9 DEF BotShows
<1>11. TellsBot(v, PlayTurnEvents(k))
  BY <1>10, AskingTellsBot DEF x
<1>12. IsList(PlayTurnEvents(k))
  BY <1>0, <1>2, EventsAreLists
<1> QED BY <1>3, <1>5, <1>11, <1>12, ThenTellsBot

LEMMA PlayTellsBot ==
  ASSUME NEW cards, PlayCards(cards), GameShape, GameInv, NEW v, BotShows(v, Truth),
         snapshotVersion \in Nat
  PROVE  TellsBot(v, PlayEvents(cards))
<1> DEFINE n == snapshotVersion
           k == n + 1
           said == CardPlayed(k, cards)
           b == said.body
           u == Told("bot", roomLandlord', v, said)
           rest == IF state' = "Ended" THEN << GameOver(n + 2) >> ELSE PlayTurnEvents(k)
<1>0. n \in Nat /\ k \in Nat /\ turnID \in Nat /\ gameID \in Nat
  BY DEF GameInv, TypeOK
<1>1. /\ GameShape' /\ state = "Playing" /\ gameID' = gameID
      /\ currentPlayer \in Seat /\ LandlordSeat' = LandlordSeat
      /\ lastPlayedHand' = cards
      /\ hands'[currentPlayer] = Minus(hands[currentPlayer], cards)
      /\ \A s \in Seat \ {currentPlayer} : hands'[s] = hands[s]
      /\ playedCards' = [playedCards EXCEPT ![currentPlayer] = Plus(@, cards)]
      /\ \/ state' = "Ended" /\ turnID' = turnID
         \/ state' = "Playing" /\ turnID' = turnID + 1
  BY <1>0, PlayComesTo
<1>2. Counting
  BY <1>0, <1>1 DEF Counting
<1>3. PlayEvents(cards) = << said >> \o rest
  BY DEF PlayEvents
<1>4. /\ b.player = currentPlayer /\ b.cards = cards /\ b.cardsLeft = Size(hands'[currentPlayer])
      /\ said.to = NoSeat /\ said.type = "CardPlayed"
  BY DEF CardPlayed, Event
<1> HIDE DEF said
<1> DEFINE t == Truth
           x == Truth'
<1>5. /\ t.hand = hands[Me] /\ t.played = playedCards /\ t.landlord = LandlordSeat
      /\ t.phase = "Playing"
      /\ \A s \in Seat : t.counts[s] = Size(hands[s])
  BY <1>1, TruthNow
<1>6. /\ x.hand = hands'[Me] /\ x.played = playedCards' /\ x.landlord = LandlordSeat
      /\ x.phase = state' /\ x.last = cards
      /\ \A s \in Seat : x.counts[s] = Size(hands'[s])
  BY <1>1, TruthNext
<1>7. BotShows(v, t)
  OBVIOUS
<1> HIDE DEF t, x, b
<1>8. /\ BotFrame(v) /\ v.hand = hands[Me] /\ v.landlord \in Seat /\ LandlordSeat = {v.landlord}
      /\ \A s \in Seat : v.counts[s] = Size(hands[s])
      /\ \A s \in Seat : v.playedByPos[Position(s, v.landlord)] = playedCards[s]
  BY <1>5, <1>7 DEF BotShows
<1> DEFINE pos == Position(currentPlayer, v.landlord)
<1>9. /\ BotFrame(u) /\ u.counts[currentPlayer] = Size(hands'[currentPlayer])
      /\ \A s \in Seat \ {currentPlayer} : u.counts[s] = v.counts[s]
      /\ u.hand = IF currentPlayer = Me THEN Minus(v.hand, cards) ELSE v.hand
      /\ u.lastPlay = cards /\ u.landlord = v.landlord
      /\ u.playedByPos[pos] = Plus(v.playedByPos[pos], cards)
      /\ \A p \in (0..2) \ {pos} : u.playedByPos[p] = v.playedByPos[p]
 <2>1. u = BotCardPlayed(v, Me, said.body)
   BY <1>4, BotIsTold
 <2>2. said.body = b
   BY DEF b
 <2>3. /\ BotFrame(u) /\ u.counts[b.player] = b.cardsLeft
       /\ \A s \in Seat \ {b.player} : u.counts[s] = v.counts[s]
       /\ u.hand = IF b.player = Me THEN Minus(v.hand, b.cards) ELSE v.hand
       /\ u.lastPlay = b.cards /\ u.landlord = v.landlord
       /\ u.playedByPos[Position(b.player, v.landlord)]
            = Plus(v.playedByPos[Position(b.player, v.landlord)], b.cards)
       /\ \A p \in (0..2) \ {Position(b.player, v.landlord)} : u.playedByPos[p] = v.playedByPos[p]
  <3> DEFINE y == BotCardPlayed(v, Me, b)
  <3>1. b.player \in Seat /\ u = y
    BY <1>1, <1>4, <2>1, <2>2
  <3>2. /\ BotFrame(y) /\ y.counts[b.player] = b.cardsLeft
        /\ \A s \in Seat \ {b.player} : y.counts[s] = v.counts[s]
        /\ y.hand = IF b.player = Me THEN Minus(v.hand, b.cards) ELSE v.hand
        /\ y.lastPlay = b.cards /\ y.landlord = v.landlord
        /\ y.playedByPos[Position(b.player, v.landlord)]
             = Plus(v.playedByPos[Position(b.player, v.landlord)], b.cards)
        /\ \A p \in (0..2) \ {Position(b.player, v.landlord)} : y.playedByPos[p] = v.playedByPos[p]
    BY <1>8, <3>1, BotTakesPlay
  <3> HIDE DEF y, u
  <3> QED BY <3>1, <3>2
 <2> HIDE DEF u
 <2> QED BY <1>4, <2>3
<1> HIDE DEF u, pos
<1>10. BotShows(u, x)
 <2>1. u.hand = hands'[Me]
   BY <1>1, <1>8, <1>9, MeAssumption
 <2>2. \A s \in Seat : u.counts[s] = Size(hands'[s])
   BY <1>1, <1>8, <1>9
 <2>3. ASSUME NEW s \in Seat
       PROVE  u.playedByPos[Position(s, u.landlord)] = playedCards'[s]
  <3>0. Position(s, v.landlord) \in 0..2
    BY <1>8, PositionTyped
  <3>1. CASE s = currentPlayer
   <4>1. playedCards'[s] = Plus(playedCards[s], cards)
     BY <1>1, <3>1 DEF GameShape
   <4> QED BY <1>8, <1>9, <3>1, <4>1 DEF pos
  <3>2. CASE s # currentPlayer
   <4>1. playedCards'[s] = playedCards[s]
     BY <1>1, <3>2 DEF GameShape
   <4>2. Position(s, v.landlord) # pos
     BY <1>1, <1>8, <3>2, PositionsDiffer DEF pos
   <4> QED BY <1>8, <1>9, <3>0, <4>1, <4>2
  <3> QED BY <3>1, <3>2
 <2> QED BY <1>1, <1>6, <1>8, <1>9, <2>1, <2>2, <2>3 DEF BotShows
<1>11. IsList(rest) /\ TellsBot(u, rest)
 <2>1. CASE state' = "Ended"
  <3> DEFINE e == GameOver(n + 2)
  <3>1. e.to = NoSeat /\ e.type = "GameOver"
    BY DEF GameOver, Event
  <3> HIDE DEF e
  <3>2. Leads("bot", roomLandlord', u, << e >>, u) /\ IsList(<< e >>)
    BY <3>1, BotKeepsPicture
  <3>3. TellsBot(u, << e >>)
    BY <1>10, <3>2 DEF TellsBot, x
  <3>4. rest = << e >>
    BY <2>1 DEF e
  <3> QED BY <3>2, <3>3, <3>4
 <2>2. CASE state' = "Playing"
  <3>1. TellsBot(u, PlayTurnEvents(k))
    BY <1>10, AskingTellsBot DEF x
  <3>2. IsList(PlayTurnEvents(k))
    BY <1>0, <1>2, EventsAreLists
  <3> QED BY <2>2, <3>1, <3>2
 <2> QED BY <1>1, <2>1, <2>2
<1> HIDE DEF rest
<1>12. Leads("bot", roomLandlord', v, << said >>, u) /\ IsList(<< said >>)
  BY OneLeads DEF u
<1> QED BY <1>3, <1>11, <1>12, ThenTellsBot

-----------------------------------------------------------------------------
(* Delivery plays the game.                                                *)

\* What holds of the game whoever is told of it.
GameAll ==
  /\ GameInv /\ RoundInv /\ LandlordAgrees /\ CardsConserved /\ HeldInv
  /\ GameShape

LEMMA SeatPlays ==
  ASSUME TypeOK, CardsConserved, NEW cards, SeatMoves(cards)
  PROVE  Next
<1>1. CASE HandlePass
  BY <1>1 DEF HandlePass, Next
<1>2. CASE HandlePlay(cards)
 <2>1. PlayCards(cards)
   BY <1>2 DEF HandlePlay
 <2>2. state = "Playing" /\ cards \in CardSet /\ Contains(hands[currentPlayer], cards)
   BY <2>1 DEF PlayCards, AcceptsPlay
 <2>3. hands[currentPlayer] \in [Rank -> 0..4]
   BY <2>2, HandsWithinDeck DEF TypeOK
 <2>4. cards \in SubHands(hands[currentPlayer])
   BY <2>2, <2>3, SelectionIsSubHand
 <2> QED BY <2>1, <2>4 DEF Next
<1> QED BY <1>1, <1>2 DEF SeatMoves

LEMMA CommandPlays ==
  ASSUME TypeOK, CardsConserved, GameCommand
  PROVE  Next
<1>1. CASE StartGame
  BY <1>1 DEF StartGame, Next
<1>2. ASSUME NEW bid \in BOOLEAN, HandleBid(bid) PROVE Next
  BY <1>2 DEF HandleBid, Next
<1>3. CASE Reopen
  BY <1>3 DEF Reopen, Next
<1> QED BY <1>1, <1>2, <1>3, SeatPlays DEF GameCommand

LEMMA DeliveryPlays ==
  ASSUME TypeOK, CardsConserved, [DeliveryNext]_vars
  PROVE  [Next]_gameVars
<1>1. CASE PlayOn
  BY <1>1, CommandPlays DEF PlayOn
<1>2. CASE DispatchBroadcast \/ DispatchElsewhere \/ LookUpRecipient \/ SendIfCurrent
           \/ Break \/ Reconnect
  BY <1>2 DEF DispatchBroadcast, DispatchElsewhere, LookUpRecipient, SendIfCurrent, Break,
     Reconnect
<1>3. ASSUME NEW t \in thoughts,
             ClaimPlayTurn(t) \/ BuildContext(t) \/ SubmitPlay(t) \/ SubmitBid(t)
      PROVE  [Next]_gameVars
 <2>1. (\E cards : SeatMoves(cards)) \/ (\E bid \in BOOLEAN : HandleBid(bid))
       \/ UNCHANGED gameVars
   BY <1>3, Zenon DEF ClaimPlayTurn, BuildContext, SubmitPlay, SubmitBid
 <2>2. (\E bid \in BOOLEAN : HandleBid(bid)) => Next
   BY DEF HandleBid, Next
 <2> QED BY <2>1, <2>2, SeatPlays
<1>4. CASE UNCHANGED vars
  BY <1>4 DEF vars
<1> QED BY <1>1, <1>2, <1>3, <1>4 DEF DeliveryNext

LEMMA ShapeStep ==
  ASSUME GameShape, GameInv, [Next]_gameVars
  PROVE  GameShape'
<1>0. turnID \in Nat
  BY DEF GameInv, TypeOK
<1>1. CASE Start
  BY <1>1, StartComesTo
<1>2. ASSUME NEW bid \in BOOLEAN, Bid(bid) PROVE GameShape'
  BY <1>2, BidComesTo
<1>3. ASSUME NEW cards, PlayCards(cards) PROVE GameShape'
  BY <1>0, <1>3, PlayComesTo
<1>4. CASE Pass
  BY <1>0, <1>4, PassComesTo
<1>5. CASE ResetAfterGame
  BY <1>5, ReopenKeepsShape
<1>6. CASE UNCHANGED gameVars
  BY <1>6, SameTruth DEF SameGame
<1> QED BY <1>1, <1>2, <1>3, <1>4, <1>5, <1>6 DEF Next

LEMMA GameAllStep ==
  ASSUME GameAll, [Next]_gameVars
  PROVE  GameAll'
BY GameStep, RoundStep, LandlordStep, CardsStep, HeldStep, ShapeStep DEF GameAll

LEMMA InitGameAll == DeliveryInit => GameAll
BY InitGame, InitShape DEF DeliveryInit, Init, GameAll, RoundInv, TableClear, RoundShape,
   CardsConserved, HeldInv, LandlordAgrees

LEMMA DeliveryGameInvariant == DeliverySpec => []GameAll
<1>1. GameAll /\ [DeliveryNext]_vars => GameAll'
  BY DeliveryPlays, GameAllStep DEF GameAll, GameInv
<1> QED BY InitGameAll, <1>1, PTL DEF DeliverySpec

\* Whatever is told to whom, and whatever a bot makes of it, delivery plays
\* the game of the session and nothing else (session/delivery.go, bot.go): a
\* dispatch, a break or a snapshot changes nothing of it, and a bot's move is
\* one of its moves.
THEOREM DeliveryPlaysLandlord == DeliverySpec => Spec
<1>1. DeliveryInit => Init
  BY DEF DeliveryInit
<1>2. GameAll /\ [DeliveryNext]_vars => [Next]_gameVars
  BY DeliveryPlays DEF GameAll, GameInv
<1> QED BY <1>1, <1>2, DeliveryGameInvariant, PTL DEF DeliverySpec, Spec

-----------------------------------------------------------------------------
(* The turn is asked for last.                                             *)

\* No event asks for a play.
Silent(events) == \A i \in 1..Len(events) : events[i].type # "PlayTurn"

\* Only the last event asks for a play, and says whether it has to be one.
AsksLast(events, must) ==
  \A i \in 1..Len(events) : events[i].type = "PlayTurn" =>
    i = Len(events) /\ events[i].body.mustPlay = must

LEMMA SilentThenAsks ==
  ASSUME NEW s, NEW r, IsList(s), IsList(r), NEW must, Silent(s), AsksLast(r, must)
  PROVE  AsksLast(s \o r, must)
<1>1. PICK S : s \in Seq(S)
  BY DEF IsList
<1>2. PICK R : r \in Seq(R)
  BY DEF IsList
<1>3. s \in Seq(S \cup R) /\ r \in Seq(S \cup R)
  BY <1>1, <1>2, SeqMonotonic
<1> DEFINE n == Len(s)
           m == Len(r)
           all == s \o r
<1>4. n \in Nat /\ m \in Nat
  BY <1>1, <1>2
<1>5. /\ Len(all) = n + m
      /\ \A i \in 1..(n + m) : all[i] = IF i <= n THEN s[i] ELSE r[i - n]
  BY <1>3, ConcatProperties
<1> HIDE DEF n, m, all
<1>6. ASSUME NEW i \in 1..(n + m), all[i].type = "PlayTurn"
      PROVE  i = n + m /\ all[i].body.mustPlay = must
 <2>1. CASE i <= n
  <3>1. i \in 1..n /\ all[i] = s[i]
    BY <1>4, <1>5, <2>1
  <3> QED BY <1>6, <3>1 DEF Silent, n
 <2>2. CASE ~(i <= n)
  <3>1. i - n \in 1..m /\ all[i] = r[i - n]
    BY <1>4, <1>5, <2>2
  <3>2. i - n = m /\ r[i - n].body.mustPlay = must
    BY <1>6, <3>1 DEF AsksLast, m
  <3> QED BY <1>4, <3>1, <3>2
 <2> QED BY <2>1, <2>2
<1>7. AsksLast(all, must)
  BY <1>5, <1>6 DEF AsksLast
<1> QED BY <1>7 DEF all

LEMMA OneSilent ==
  ASSUME NEW e, e.type # "PlayTurn"
  PROVE  Silent(<< e >>) /\ IsList(<< e >>) /\ \A must : AsksLast(<< e >>, must)
<1> DEFINE s == << e >>
<1>1. Len(s) = 1 /\ s[1] = e /\ IsList(s)
  BY OneIsList
<1> HIDE DEF s
<1>2. Silent(s) /\ \A must : AsksLast(s, must)
  BY <1>1 DEF Silent, AsksLast
<1> QED BY <1>1, <1>2 DEF s

LEMMA TurnAsksLast ==
  ASSUME NEW n, NEW must, must = MustPlay'
  PROVE  AsksLast(BidTurnEvents(n), must) /\ AsksLast(PlayTurnEvents(n), must)
<1>1. AsksLast(BidTurnEvents(n), must)
 <2> DEFINE e == Event("BidTurn", NoSeat, After(n + 1),
          [player |-> currentBidder', isGrab |-> landlordCaller' # NoSeat,
           multiplier |-> bidMultiplier'])
 <2>1. e.type # "PlayTurn"
   BY DEF Event
 <2> HIDE DEF e
 <2>2. AsksLast(<< e >>, must)
   BY <2>1, OneSilent
 <2> QED BY <2>2 DEF BidTurnEvents, e
<1>2. AsksLast(PlayTurnEvents(n), must)
 <2> DEFINE e == Event("PlayTurn", NoSeat, After(n + 1),
          [player |-> currentPlayer', mustPlay |-> MustPlay'])
            s == << e >>
 <2>1. Len(s) = 1 /\ s[1] = e
   OBVIOUS
 <2>2. e.body.mustPlay = must
   BY DEF Event
 <2>3. s = PlayTurnEvents(n)
   BY DEF PlayTurnEvents
 <2> HIDE DEF e, s
 <2>4. AsksLast(s, must)
   BY <2>1, <2>2 DEF AsksLast
 <2> QED BY <2>3, <2>4
<1> QED BY <1>1, <1>2

LEMMA DealIsSilent ==
  ASSUME NEW n \in Nat
  PROVE  Silent(DealEvents(n))
<1> DEFINE dealt(s) == IF roomLandlord' = s THEN Minus(hands'[s], bottomCards') ELSE hands'[s]
           hand(s) == Event("DealCards", s, Before(n + 2),
                            [cards |-> dealt(s), bottom |-> NoCards])
           start == Event("GameStart", NoSeat, Before(n + 1), << >>)
           a == hand(0)
           b == hand(1)
           c == hand(2)
           s == << start, a, b, c >>
<1>1. DealEvents(n) = s
  BY DEF DealEvents
<1>2. /\ start.type # "PlayTurn" /\ a.type # "PlayTurn" /\ b.type # "PlayTurn"
      /\ c.type # "PlayTurn"
  BY DEF Event
<1> HIDE DEF start, a, b, c, hand
<1>3. Len(s) = 4 /\ s[1] = start /\ s[2] = a /\ s[3] = b /\ s[4] = c
  OBVIOUS
<1> HIDE DEF s
<1>4. Silent(s)
 <2>1. \A i \in 1..4 : i = 1 \/ i = 2 \/ i = 3 \/ i = 4
   OBVIOUS
 <2> QED BY <1>2, <1>3, <2>1 DEF Silent
<1> QED BY <1>1, <1>4

LEMMA LandlordAsksLast ==
  ASSUME NEW n \in Nat, Counting, NEW must, must = MustPlay'
  PROVE  AsksLast(LandlordEvents(n), must)
<1> DEFINE a == Event("Landlord", NoSeat, Before(n + 1),
                   [player |-> roomLandlord', bottom |-> bottomCards',
                    multiplier |-> bidMultiplier'])
           b == Event("DealCards", roomLandlord', Before(n + 2),
                   [cards |-> hands'[roomLandlord'], bottom |-> bottomCards'])
           s == << a, b >>
           k == n + 2
<1>1. LandlordEvents(n) = s \o PlayTurnEvents(k)
  BY DEF LandlordEvents
<1>2. a.type # "PlayTurn" /\ b.type # "PlayTurn"
  BY DEF Event
<1>3. k \in Nat
  OBVIOUS
<1> HIDE DEF a, b, k
<1>4. Len(s) = 2 /\ s[1] = a /\ s[2] = b /\ IsList(s)
  BY TwoLead
<1> HIDE DEF s
<1>5. Silent(s)
 <2>1. \A i \in 1..2 : i = 1 \/ i = 2
   OBVIOUS
 <2> QED BY <1>2, <1>4, <2>1 DEF Silent
<1>6. AsksLast(PlayTurnEvents(k), must) /\ IsList(PlayTurnEvents(k))
  BY <1>3, TurnAsksLast, EventsAreLists
<1> QED BY <1>1, <1>4, <1>5, <1>6, SilentThenAsks

LEMMA AskAsksLast ==
  ASSUME NEW n \in Nat, Counting, NEW must, must = MustPlay'
  PROVE  AsksLast(AskEvents(n), must)
BY LandlordAsksLast, TurnAsksLast DEF AskEvents

LEMMA DealThenAsksLast ==
  ASSUME NEW n \in Nat, Counting, NEW must, must = MustPlay'
  PROVE  /\ AsksLast(DealEvents(n) \o AskEvents(n + 2), must)
         /\ IsList(DealEvents(n) \o AskEvents(n + 2))
<1> DEFINE k == n + 2
<1>1. k \in Nat
  OBVIOUS
<1> HIDE DEF k
<1>2. /\ Silent(DealEvents(n)) /\ AsksLast(AskEvents(k), must)
      /\ IsList(DealEvents(n)) /\ IsList(AskEvents(k))
  BY <1>1, DealIsSilent, AskAsksLast, EventsAreLists
<1>3. AsksLast(DealEvents(n) \o AskEvents(k), must)
  BY <1>2, SilentThenAsks
<1>4. gameID' \in Nat /\ turnID' \in Nat /\ turnID \in Nat /\ turnID <= turnID'
  BY DEF Counting
<1>5. IsList(DealEvents(n) \o AskEvents(k))
 <2>1. /\ AllStamped(DealEvents(n), gameID', turnID')
       /\ AllStamped(AskEvents(k), gameID', turnID')
   BY <1>1, <1>4, DealEventsStamped, AskEventsStamped
 <2> QED BY <2>1, JoinedStamped, StampedIsList
<1> QED BY <1>3, <1>5 DEF k

LEMMA BidAsksLast ==
  ASSUME NEW bid, snapshotVersion \in Nat, Counting, NEW must, must = MustPlay'
  PROVE  AsksLast(BidEvents(bid), must)
<1> DEFINE k == snapshotVersion + 1
           said == Event("BidResult", NoSeat, Meta(gameID, snapshotVersion + 1, turnID),
                     [player |-> currentBidder, bid |-> bid,
                      isGrab |-> landlordCaller # NoSeat,
                      multiplier |-> IF gameID' = gameID THEN bidMultiplier'
                                     ELSE bidMultiplier])
           rest == IF gameID' = gameID THEN AskEvents(snapshotVersion + 1)
                   ELSE DealEvents(snapshotVersion + 1) \o AskEvents(snapshotVersion + 3)
<1>1. BidEvents(bid) = << said >> \o rest
  BY DEF BidEvents
<1>2. said.type # "PlayTurn"
  BY DEF Event
<1>3. k \in Nat /\ snapshotVersion + 3 = k + 2
  OBVIOUS
<1>4. rest = IF gameID' = gameID THEN AskEvents(k) ELSE DealEvents(k) \o AskEvents(k + 2)
  BY <1>3
<1> HIDE DEF said, k, rest
<1>5. AsksLast(rest, must) /\ IsList(rest)
  BY <1>3, <1>4, AskAsksLast, DealThenAsksLast, EventsAreLists
<1> QED BY <1>1, <1>2, <1>5, OneSilent, SilentThenAsks

LEMMA MovesAskLast ==
  ASSUME NEW cards, snapshotVersion \in Nat, Counting, NEW must, must = MustPlay'
  PROVE  AsksLast(PlayEvents(cards), must) /\ AsksLast(PassEvents, must)
<1> DEFINE k == snapshotVersion + 1
           played == CardPlayed(k, cards)
           passed == Event("PlayerPass", NoSeat, Before(k), [player |-> currentPlayer])
           over == GameOver(snapshotVersion + 2)
           rest == IF state' = "Ended" THEN << over >> ELSE PlayTurnEvents(k)
<1>1. PlayEvents(cards) = << played >> \o rest /\ PassEvents = << passed >> \o PlayTurnEvents(k)
  BY DEF PlayEvents, PassEvents
<1>2. played.type # "PlayTurn" /\ passed.type # "PlayTurn" /\ over.type # "PlayTurn"
  BY DEF Event, CardPlayed, GameOver
<1>3. k \in Nat
  OBVIOUS
<1> HIDE DEF k, played, passed, over
<1>4. AsksLast(PlayTurnEvents(k), must) /\ IsList(PlayTurnEvents(k))
  BY <1>3, TurnAsksLast, EventsAreLists
<1>5. AsksLast(rest, must) /\ IsList(rest)
  BY <1>2, <1>4, OneSilent
<1> HIDE DEF rest
<1> QED BY <1>1, <1>2, <1>4, <1>5, OneSilent, SilentThenAsks

-----------------------------------------------------------------------------
(* A bot's picture, what is under way to it, and what it thinks about.     *)

\* What is under way leads the bot's picture to the game; turns that it has
\* claimed make no difference.
BotPicture ==
  \E u, w : Alike(u, view) /\ Leads("bot", roomLandlord, u, pendingDeliveries, w)
              /\ BotShows(w, Truth)

\* What the engine is given is the game as seat Me may see it.
ContextIs(ctx) ==
  /\ ctx.hand = hands[Me]
  /\ MustPlay \/ ctx.toBeat = lastPlayedHand
  /\ \A l \in LandlordSeat, s \in Seat :
       /\ ctx.cardsLeft[Position(s, l)] = Size(hands[s])
       /\ ctx.playedByPos[Position(s, l)] = playedCards[s]

PlayStages == {"PlayTurn", "current", "decided"}

\* A thought about the turn that is on: it was the last to be told, so that
\* nothing else is under way, and says whether a play is owed.
Timely(t) ==
  t.stage \in PlayStages =>
    /\ t.meta.turn \in Nat /\ t.meta.turn <= turnID
    /\ IsCurrentPlayTurn(Me, t.meta) =>
         /\ pendingDeliveries = << >> /\ t.ask.mustPlay = MustPlay
         /\ t.stage = "decided" => ContextIs(t.ask)

BotLink == attached /\ (recipient # 0 => recipient = connection)

BotState ==
  /\ BotLink /\ BotPicture /\ AsksLast(pendingDeliveries, MustPlay)
  /\ \A t \in thoughts : Timely(t)

BotInv == device = "bot" => BotState

LEMMA BotPictureNext ==
  ASSUME NEW u, NEW w, Alike(u, view'), Leads("bot", roomLandlord', u, pendingDeliveries', w),
         BotShows(w, Truth')
  PROVE  BotPicture'
BY DEF BotPicture

LEMMA PictureNow ==
  ASSUME BotPicture, pendingDeliveries = << >>
  PROVE  BotShows(view, Truth) /\ Alike(view, view)
<1>1. PICK u, w : Alike(u, view) /\ Leads("bot", roomLandlord, u, << >>, w)
                    /\ BotShows(w, Truth)
  BY DEF BotPicture
<1>2. w = u
  BY <1>1, NothingLeads
<1>3. BotShows(view, Truth)
  BY <1>1, <1>2, AlikeShow
<1> QED BY <1>3 DEF BotShows, Alike

-----------------------------------------------------------------------------
(* Commands.                                                               *)

\* A command leads the picture on, and puts an end to the turn.
TurnOver == turnID <= turnID' /\ (state' = "Playing" => turnID' = turnID + 1)

LEMMA QueuedTellsBot ==
  ASSUME NEW events, Queue(events), BotPicture, view' = view,
         BotShows(view, Truth) => TellsBot(view, events), AsksLast(events, MustPlay')
  PROVE  BotPicture' /\ AsksLast(pendingDeliveries, MustPlay)'
<1>1. pendingDeliveries = << >> /\ pendingDeliveries' = events
  BY DEF Queue
<1>2. BotShows(view, Truth) /\ Alike(view, view)
  BY <1>1, PictureNow
<1>3. PICK w : Leads("bot", roomLandlord', view, events, w) /\ BotShows(w, Truth')
  BY <1>2 DEF TellsBot
<1>4. BotPicture'
 <2> DEFINE u == view
 <2>1. Alike(u, view') /\ Leads("bot", roomLandlord', u, pendingDeliveries', w)
   BY <1>1, <1>2, <1>3
 <2> HIDE DEF u
 <2> QED BY <1>3, <2>1, BotPictureNext
<1>5. AsksLast(pendingDeliveries', MustPlay')
  BY <1>1
<1> QED BY <1>4, <1>5 DEF AsksLast

LEMMA CommandTellsBot ==
  ASSUME GameAll, GameAll', snapshotVersion \in Nat, BotPicture, view' = view,
         \/ GameCommand
         \/ \E cards : SeatMoves(cards)
         \/ \E bid \in BOOLEAN : HandleBid(bid)
  PROVE  BotPicture' /\ AsksLast(pendingDeliveries, MustPlay)' /\ TurnOver
<1>0. /\ gameID \in Nat /\ turnID \in Nat /\ gameID' \in Nat /\ turnID' \in Nat
      /\ GameInv /\ GameShape /\ GameInv' /\ RoundInv'
  BY DEF GameAll, GameInv, TypeOK
<1>1. CASE StartGame
 <2> DEFINE events == DealEvents(snapshotVersion) \o AskEvents(snapshotVersion + 2)
 <2>1. Start /\ Queue(events)
   BY <1>1 DEF StartGame
 <2>2. state' = "Bidding" /\ turnID' = turnID + 1
   BY <1>0, <2>1, StartComesTo
 <2>3. Counting /\ TurnOver
   BY <1>0, <2>2 DEF Counting, TurnOver
 <2>4. TellsBot(view, events)
   BY <1>0, <2>1, StartTellsBot
 <2>5. AsksLast(events, MustPlay')
   BY <2>3, DealThenAsksLast
 <2> HIDE DEF events
 <2> QED BY <2>1, <2>3, <2>4, <2>5, QueuedTellsBot
<1>2. ASSUME NEW bid \in BOOLEAN, HandleBid(bid)
      PROVE  BotPicture' /\ AsksLast(pendingDeliveries, MustPlay)' /\ TurnOver
 <2> DEFINE events == BidEvents(bid)
 <2>1. Bid(bid) /\ Queue(events)
   BY <1>2 DEF HandleBid
 <2>2. turnID' = turnID + 1
   BY <1>0, <2>1, BidComesTo
 <2>3. Counting /\ TurnOver
   BY <1>0, <2>2 DEF Counting, TurnOver
 <2>4. BotShows(view, Truth) => TellsBot(view, events)
   BY <1>0, <2>1, BidTellsBot
 <2>5. AsksLast(events, MustPlay')
   BY <2>3, BidAsksLast
 <2> HIDE DEF events
 <2> QED BY <2>1, <2>3, <2>4, <2>5, QueuedTellsBot
<1>3. ASSUME NEW cards, HandlePlay(cards)
      PROVE  BotPicture' /\ AsksLast(pendingDeliveries, MustPlay)' /\ TurnOver
 <2> DEFINE events == PlayEvents(cards)
 <2>1. PlayCards(cards) /\ Queue(events)
   BY <1>3 DEF HandlePlay
 <2>2. \/ state' = "Ended" /\ turnID' = turnID
       \/ state' = "Playing" /\ turnID' = turnID + 1
   BY <1>0, <2>1, PlayComesTo
 <2>3. Counting /\ TurnOver
   BY <1>0, <2>2 DEF Counting, TurnOver
 <2>4. BotShows(view, Truth) => TellsBot(view, events)
   BY <1>0, <2>1, PlayTellsBot
 <2>5. AsksLast(events, MustPlay')
   BY <2>3, MovesAskLast
 <2> HIDE DEF events
 <2> QED BY <2>1, <2>3, <2>4, <2>5, QueuedTellsBot
<1>4. CASE HandlePass
 <2> DEFINE events == PassEvents
 <2>1. Pass /\ Queue(events)
   BY <1>4 DEF HandlePass
 <2>2. turnID' = turnID + 1
   BY <1>0, <2>1, PassComesTo
 <2>3. Counting /\ TurnOver
   BY <1>0, <2>2 DEF Counting, TurnOver
 <2>4. BotShows(view, Truth) => TellsBot(view, events)
   BY <1>0, <2>1, PassTellsBot
 <2>5. AsksLast(events, MustPlay')
   BY <2>3, MovesAskLast
 <2> HIDE DEF events
 <2> QED BY <2>1, <2>3, <2>4, <2>5, QueuedTellsBot
<1>5. CASE Reopen
 <2>1. ResetAfterGame /\ pendingDeliveries = << >> /\ UNCHANGED eventVars
   BY <1>5 DEF Reopen
 <2>2. Truth' = Truth /\ state' = "Ended" /\ turnID' = turnID
   BY <1>0, <2>1, ReopenKeepsShape DEF ResetAfterGame
 <2>3. BotShows(view, Truth) /\ Alike(view, view)
   BY <2>1, PictureNow
 <2>4. pendingDeliveries' = << >>
   BY <2>1 DEF eventVars
 <2>5. BotPicture'
  <3> DEFINE u == view
             t == Truth'
  <3>1. Alike(u, view') /\ BotShows(u, t)
    BY <2>2, <2>3
  <3>2. Leads("bot", roomLandlord', u, pendingDeliveries', u)
    BY <2>4, NothingLeads
  <3> HIDE DEF u
  <3> QED BY <3>1, <3>2, BotPictureNext
 <2>6. AsksLast(pendingDeliveries', MustPlay')
  <3> DEFINE none == << >>
  <3>1. Len(none) = 0 /\ 1..0 = {}
    OBVIOUS
  <3> HIDE DEF none
  <3>2. AsksLast(none, MustPlay')
    BY <3>1 DEF AsksLast
  <3> QED BY <2>4, <3>2 DEF none
 <2>7. AsksLast(pendingDeliveries, MustPlay)'
   BY <2>6 DEF AsksLast
 <2> QED BY <1>0, <2>2, <2>5, <2>7 DEF TurnOver
<1>6. ASSUME NEW cards, SeatMoves(cards)
      PROVE  BotPicture' /\ AsksLast(pendingDeliveries, MustPlay)' /\ TurnOver
  BY <1>3, <1>4, <1>6 DEF SeatMoves
<1> QED BY <1>1, <1>2, <1>5, <1>6 DEF GameCommand

LEMMA BotAfterCommand ==
  ASSUME GameAll, GameAll', snapshotVersion \in Nat, BotState,
         UNCHANGED << view, attached, connection, recipient >>, thoughts' \subseteq thoughts,
         \/ GameCommand
         \/ \E cards : SeatMoves(cards)
         \/ \E bid \in BOOLEAN : HandleBid(bid)
  PROVE  BotState'
<1>1. BotPicture' /\ AsksLast(pendingDeliveries, MustPlay)' /\ TurnOver
  BY CommandTellsBot DEF BotState
<1>2. ASSUME NEW t \in thoughts'
      PROVE  Timely(t)'
 <2>1. turnID \in Nat /\ turnID' \in Nat
   BY DEF GameAll, GameInv, TypeOK
 <2>2. t.stage \in PlayStages => t.meta.turn \in Nat /\ t.meta.turn <= turnID
   BY DEF BotState, Timely
 <2>3. t.stage \in PlayStages => t.meta.turn <= turnID'
   BY <1>1, <2>1, <2>2 DEF TurnOver
 <2>4. t.stage \in PlayStages => ~(state' = "Playing" /\ turnID' = t.meta.turn)
   BY <1>1, <2>1, <2>2 DEF TurnOver
 <2> QED BY <2>2, <2>3, <2>4 DEF Timely, IsCurrentPlayTurn
<1>3. BotLink'
  BY DEF BotState, BotLink
<1> QED BY <1>1, <1>2, <1>3 DEF BotState

-----------------------------------------------------------------------------
(* Dispatch to a bot.                                                      *)

\* The turn stays as it is when the game does.
LEMMA SameTurnOn ==
  ASSUME SameGame
  PROVE  /\ MustPlay' = MustPlay /\ turnID' = turnID
         /\ \A m : IsCurrentPlayTurn(Me, m)' <=> IsCurrentPlayTurn(Me, m)
         /\ \A c : ContextIs(c)' <=> ContextIs(c)
BY DEF SameGame, gameVars, bidVars, cardVars, playVars, tallyVars, MustPlay, IsCurrentPlayTurn,
   ContextIs, LandlordSeat

\* The picture is led on by what is dispatched.
LEMMA DispatchLeadsBot ==
  ASSUME Inv, BotPicture, GameShape, Dispatched,
         view' = Told("bot", roomLandlord, view, Head(pendingDeliveries))
  PROVE  BotPicture'
<1> DEFINE e == Head(pendingDeliveries)
           r == Tail(pendingDeliveries)
<1>1. PICK u, w : /\ Alike(u, view) /\ Leads("bot", roomLandlord, u, pendingDeliveries, w)
                  /\ BotShows(w, Truth)
  BY DEF BotPicture
<1>2. IsList(pendingDeliveries) /\ Stamped(e, gameID, turnID) /\ pendingDeliveries # << >>
  BY StampedIsList, FirstStamped DEF Inv, QueueInv, Dispatched
<1>3. Truth' = Truth /\ roomLandlord' = roomLandlord /\ pendingDeliveries' = r
  BY SameTruth DEF Dispatched, Done
<1> DEFINE x == Told("bot", roomLandlord, u, e)
<1>4. Leads("bot", roomLandlord, x, r, w)
  BY <1>1, <1>2, FirstLeads
<1>5. Alike(x, view')
 <2>1. e.type \in EventTypes
   BY <1>2 DEF Stamped
 <2> HIDE DEF e
 <2>2. Alike(Told("bot", roomLandlord, u, e), Told("bot", roomLandlord, view, e))
   BY <1>1, <2>1, AlikeTold
 <2> QED BY <2>2 DEF e
<1> HIDE DEF x, r, e
<1>6. Leads("bot", roomLandlord', x, pendingDeliveries', w) /\ BotShows(w, Truth')
  BY <1>1, <1>3, <1>4
<1> QED BY <1>5, <1>6, BotPictureNext

LEMMA RestAsksLast ==
  ASSUME NEW q, NEW must, IsList(q), q # << >>, AsksLast(q, must)
  PROVE  /\ AsksLast(Tail(q), must)
         /\ Head(q).type = "PlayTurn" => Tail(q) = << >> /\ Head(q).body.mustPlay = must
<1> DEFINE r == Tail(q)
<1>1. PICK S : q \in Seq(S)
  BY DEF IsList
<1>2. /\ Len(r) \in Nat /\ Len(q) = Len(r) + 1 /\ q[1] = Head(q) /\ r \in Seq(S)
      /\ \A i \in 1..Len(r) : r[i] = q[i + 1]
  BY <1>1, HeadTailProperties
<1>3. 1 \in 1..Len(q) /\ \A i \in 1..Len(r) : i + 1 \in 1..Len(q)
  BY <1>2
<1>4. \A i \in 1..Len(q) : q[i].type = "PlayTurn" =>
        i = Len(q) /\ q[i].body.mustPlay = must
  BY DEF AsksLast
<1>5. ASSUME Len(r) = 0 PROVE r = << >>
  BY <1>2, <1>5, EmptySeq
<1> HIDE DEF r
<1>6. AsksLast(r, must)
 <2> SUFFICES ASSUME NEW i \in 1..Len(r), r[i].type = "PlayTurn"
              PROVE  i = Len(r) /\ r[i].body.mustPlay = must
   BY DEF AsksLast
 <2>1. i + 1 = Len(q) /\ q[i + 1].body.mustPlay = must
   BY <1>2, <1>3, <1>4
 <2> QED BY <1>2, <2>1
<1>7. ASSUME Head(q).type = "PlayTurn" PROVE r = << >> /\ Head(q).body.mustPlay = must
 <2>1. 1 = Len(q) /\ q[1].body.mustPlay = must
   BY <1>2, <1>3, <1>4, <1>7
 <2> QED BY <1>2, <1>5, <2>1
<1> QED BY <1>6, <1>7 DEF r

LEMMA AskedIs ==
  ASSUME NEW e, NEW x \in Asked(Me, e)
  PROVE  x.stage = e.type /\ x.meta = e.meta /\ x.ask = e.body
BY DEF Asked

LEMMA BotDispatched ==
  ASSUME Inv, BotState, GameShape, Dispatched, UNCHANGED << attached, connection >>, recipient' = 0,
         view' = Told("bot", roomLandlord, view, Head(pendingDeliveries)),
         thoughts' \subseteq thoughts \cup Asked(Me, Head(pendingDeliveries))
  PROVE  BotState'
<1> DEFINE e == Head(pendingDeliveries)
<1>1. /\ SameGame /\ pendingDeliveries # << >> /\ pendingDeliveries' = Tail(pendingDeliveries)
      /\ IsList(pendingDeliveries) /\ Stamped(e, gameID, turnID)
  BY StampedIsList, FirstStamped DEF Inv, QueueInv, Dispatched, Done
<1>2. /\ MustPlay' = MustPlay /\ turnID' = turnID
      /\ \A m : IsCurrentPlayTurn(Me, m)' <=> IsCurrentPlayTurn(Me, m)
  BY <1>1, SameTurnOn
<1>3. /\ AsksLast(pendingDeliveries', MustPlay')
      /\ e.type = "PlayTurn" => pendingDeliveries' = << >> /\ e.body.mustPlay = MustPlay'
  BY <1>1, <1>2, RestAsksLast DEF BotState
<1>4. BotPicture'
  BY DispatchLeadsBot DEF BotState
<1>5. BotLink'
  BY DEF BotState, BotLink
<1>6. ASSUME NEW t \in thoughts PROVE Timely(t)'
 <2>1. Timely(t) /\ pendingDeliveries # << >>
   BY <1>1 DEF BotState
 <2> QED BY <1>2, <2>1 DEF Timely
<1>7. ASSUME NEW t \in Asked(Me, e) PROVE Timely(t)'
 <2>1. t.stage = e.type /\ t.meta = e.meta /\ t.ask = e.body
   BY AskedIs
 <2>2. e.type \in EventTypes /\ e.meta.turn \in Nat /\ e.meta.turn <= turnID
   BY <1>1 DEF Stamped
 <2> HIDE DEF e
 <2>3. t.stage \in PlayStages => t.stage = "PlayTurn"
   BY <2>1, <2>2 DEF PlayStages, EventTypes
 <2> QED BY <1>2, <1>3, <2>1, <2>2, <2>3 DEF Timely
<1>8. AsksLast(pendingDeliveries, MustPlay)'
  BY <1>3 DEF AsksLast
<1> QED BY <1>4, <1>5, <1>6, <1>7, <1>8 DEF BotState

LEMMA BuiltAsks ==
  ASSUME NEW e, Stamped(e, gameID, turnID)
  PROVE  Asked(Me, Built(e)) = Asked(Me, e)
<1>1. CASE e.type # "GameStart"
  BY <1>1 DEF Built
<1>2. CASE e.type = "GameStart"
  BY <1>2 DEF Built, Stamped, Asked
<1> QED BY <1>1, <1>2

LEMMA BotDispatchStep ==
  ASSUME Inv, BotState, GameShape, device = "bot",
         DispatchBroadcast \/ DispatchElsewhere \/ SendIfCurrent
  PROVE  BotState'
<1> DEFINE e == Head(pendingDeliveries)
<1>0. /\ attached /\ (recipient # 0 => recipient = connection)
      /\ recipient # 0 => pendingDeliveries # << >> /\ e.to = Me
  BY DEF BotState, BotLink, Inv, RecipientInv
<1>1. /\ Dispatched /\ UNCHANGED << attached, connection >> /\ recipient' = 0
      /\ Stamped(e, gameID, turnID)
 <2>1. Dispatched /\ UNCHANGED << attached, connection >>
   BY <1>0 DEF DispatchBroadcast, DispatchElsewhere, SendIfCurrent, Dispatched, SameGame, linkVars
 <2>2. recipient' = 0
  <3>1. Me # NoSeat
    BY MeAssumption DEF Seat, NoSeat
  <3>2. CASE DispatchBroadcast
    BY <1>0, <3>1, <3>2 DEF DispatchBroadcast, linkVars
  <3>3. CASE DispatchElsewhere \/ SendIfCurrent
    BY <3>3 DEF DispatchElsewhere, SendIfCurrent, linkVars
  <3> QED BY <3>2, <3>3
 <2>3. Stamped(e, gameID, turnID)
   BY <2>1, FirstStamped DEF Inv, QueueInv, Dispatched
 <2> QED BY <2>1, <2>2, <2>3
<1>2. CASE DispatchBroadcast
 <2>1. /\ e.to = NoSeat /\ view' = BotSees(view, Me, Built(e))
       /\ thoughts' = thoughts \cup Asked(Me, Built(e))
   BY <1>0, <1>2 DEF DispatchBroadcast, Receive, Sees
 <2> HIDE DEF e
 <2>2. BotSees(view, Me, Built(e)) = Told("bot", roomLandlord, view, e)
   BY <2>1 DEF Told, Built
 <2>3. Asked(Me, Built(e)) = Asked(Me, e)
   BY <1>1, BuiltAsks
 <2> QED BY <1>1, <2>1, <2>2, <2>3, BotDispatched DEF e
<1>3. CASE DispatchElsewhere
 <2>1. e.to \notin {NoSeat, Me} /\ UNCHANGED << view, thoughts >>
   BY <1>0, <1>3 DEF DispatchElsewhere
 <2> HIDE DEF e
 <2>2. Told("bot", roomLandlord, view, e) = view
   BY <2>1, ToldNothing
 <2> QED BY <1>1, <2>1, <2>2, BotDispatched DEF e
<1>4. CASE SendIfCurrent
 <2>1. e.to = Me /\ view' = BotSees(view, Me, e) /\ thoughts' = thoughts \cup Asked(Me, e)
   BY <1>0, <1>4 DEF SendIfCurrent, Receive, Sees
 <2> HIDE DEF e
 <2>2. BotSees(view, Me, e) = Told("bot", roomLandlord, view, e)
   BY <2>1, MeAssumption DEF Told, Seat, NoSeat
 <2> QED BY <1>1, <2>1, <2>2, BotDispatched DEF e
<1> QED BY <1>2, <1>3, <1>4

-----------------------------------------------------------------------------
(* The other steps of a bot.                                               *)

\* The game and what is under way are left alone; what was thought stays
\* timely, and what is thought now is.
LEMMA BotLeftAlone ==
  ASSUME BotState, GameShape, SameGame, pendingDeliveries' = pendingDeliveries, BotLink',
         \A u : Alike(u, view) => Alike(u, view'),
         \A t \in thoughts' \ thoughts : Timely(t)
  PROVE  BotState'
<1>1. /\ MustPlay' = MustPlay /\ turnID' = turnID
      /\ \A m : IsCurrentPlayTurn(Me, m)' <=> IsCurrentPlayTurn(Me, m)
      /\ \A c : ContextIs(c)' <=> ContextIs(c)
  BY SameTurnOn
<1>2. Truth' = Truth /\ roomLandlord' = roomLandlord
  BY SameTruth
<1>3. ASSUME NEW t \in thoughts' PROVE Timely(t)'
 <2>1. Timely(t)
   BY DEF BotState
 <2> QED BY <1>1, <2>1 DEF Timely
<1>4. BotPicture'
 <2>1. PICK u, w : /\ Alike(u, view) /\ Leads("bot", roomLandlord, u, pendingDeliveries, w)
                   /\ BotShows(w, Truth)
   BY DEF BotState, BotPicture
 <2>2. /\ Alike(u, view') /\ Leads("bot", roomLandlord', u, pendingDeliveries', w)
       /\ BotShows(w, Truth')
   BY <1>2, <2>1
 <2> QED BY <2>2, BotPictureNext
<1>5. AsksLast(pendingDeliveries, MustPlay)'
  BY <1>1 DEF BotState, AsksLast
<1> QED BY <1>3, <1>4, <1>5 DEF BotState

LEMMA BotLooksUp ==
  ASSUME BotState, GameShape, LookUpRecipient \/ UNCHANGED vars
  PROVE  BotState'
<1>1. /\ SameGame /\ pendingDeliveries' = pendingDeliveries
      /\ UNCHANGED << view, thoughts, connection, attached >>
      /\ recipient' \in {recipient, connection}
  BY DEF LookUpRecipient, SameGame, eventVars, vars, linkVars
<1>2. BotLink'
  BY <1>1 DEF BotState, BotLink
<1> QED BY <1>1, <1>2, BotLeftAlone

LEMMA BotClaims ==
  ASSUME BotState, GameShape, NEW t \in thoughts, ClaimPlayTurn(t)
  PROVE  BotState'
<1> DEFINE new == [t EXCEPT !.stage = "current"]
           claimed == view.attempted \cup {t.meta.turn}
<1>1. /\ SameGame /\ pendingDeliveries' = pendingDeliveries /\ UNCHANGED linkVars
      /\ view' = [view EXCEPT !.attempted = claimed]
      /\ thoughts' \subseteq thoughts \cup {new}
  BY DEF ClaimPlayTurn, SameGame, eventVars, Becomes
<1> HIDE DEF claimed
<1>2. BotLink'
  BY <1>1 DEF BotState, BotLink, linkVars
<1>3. Timely(t) /\ t.stage = "PlayTurn"
  BY DEF BotState, ClaimPlayTurn
<1>4. new.meta = t.meta /\ new.ask = t.ask /\ (new.stage = "current" \/ new = t)
  OBVIOUS
<1> HIDE DEF new
<1>5. Timely(new)
  BY <1>3, <1>4 DEF Timely, PlayStages
<1> QED BY <1>1, <1>2, <1>5, AlikeClaims, BotLeftAlone

\* What a bot gets to see of a turn that is on is the game.
LEMMA ContextRight ==
  ASSUME BotShows(view, Truth), state = "Playing", NEW ask
  PROVE  ContextIs(GameContext(view, ask))
<1> DEFINE t == Truth
           ctx == GameContext(view, ask)
<1>1. /\ t.phase = state /\ t.hand = hands[Me] /\ t.played = playedCards
      /\ t.landlord = LandlordSeat /\ t.last = lastPlayedHand
      /\ \A s \in Seat : t.counts[s] = Size(hands[s])
  BY TruthNow
<1>2. BotShows(view, t)
  OBVIOUS
<1> HIDE DEF t
<1>3. /\ view.hand = hands[Me] /\ \A s \in Seat : view.counts[s] = Size(hands[s])
      /\ view.landlord \in Seat /\ LandlordSeat = {view.landlord}
      /\ lastPlayedHand # NoCards => view.lastPlay = lastPlayedHand
      /\ \A s \in Seat : view.playedByPos[Position(s, view.landlord)] = playedCards[s]
  BY <1>1, <1>2 DEF BotShows
<1>4. /\ ctx.hand = view.hand /\ ctx.toBeat = view.lastPlay
      /\ ctx.playedByPos = view.playedByPos
      /\ \A pos \in 0..2 : ctx.cardsLeft[pos] = view.counts[(view.landlord + pos) % 3]
  BY DEF GameContext
<1> HIDE DEF ctx
<1>5. ASSUME NEW s \in Seat
      PROVE  ctx.cardsLeft[Position(s, view.landlord)] = Size(hands[s])
 <2> DEFINE pos == Position(s, view.landlord)
 <2>1. pos \in 0..2 /\ (view.landlord + pos) % 3 = s
   BY <1>3, PositionTyped
 <2> HIDE DEF pos
 <2>2. ctx.cardsLeft[pos] = view.counts[s]
   BY <1>4, <2>1
 <2> QED BY <1>3, <2>2 DEF pos
<1>6. MustPlay \/ lastPlayedHand # NoCards
  BY DEF MustPlay
<1> QED BY <1>3, <1>4, <1>5, <1>6 DEF ContextIs, ctx

LEMMA BotBuilds ==
  ASSUME BotState, GameShape, NEW t \in thoughts, BuildContext(t)
  PROVE  BotState'
<1> DEFINE new == [stage |-> "decided", meta |-> t.meta, ask |-> GameContext(view, t.ask)]
<1>1. /\ SameGame /\ pendingDeliveries' = pendingDeliveries /\ UNCHANGED linkVars
      /\ view' = view /\ thoughts' \subseteq thoughts \cup {new}
  BY DEF BuildContext, SameGame, eventVars, Becomes
<1>2. BotLink'
  BY <1>1 DEF BotState, BotLink, linkVars
<1>3. Timely(t) /\ t.stage = "current" /\ BotPicture
  BY DEF BotState, BuildContext
<1>4. /\ new.meta = t.meta /\ new.stage = "decided"
      /\ new.ask = GameContext(view, t.ask) /\ new.ask.mustPlay = t.ask.mustPlay
  BY DEF GameContext
<1> HIDE DEF new
<1>5. Timely(new)
 <2>1. ASSUME IsCurrentPlayTurn(Me, t.meta)
       PROVE  pendingDeliveries = << >> /\ t.ask.mustPlay = MustPlay /\ ContextIs(new.ask)
  <3>1. pendingDeliveries = << >> /\ t.ask.mustPlay = MustPlay /\ state = "Playing"
    BY <1>3, <2>1 DEF Timely, PlayStages, IsCurrentPlayTurn
  <3>2. ContextIs(GameContext(view, t.ask))
    BY <1>3, <3>1, PictureNow, ContextRight
  <3> QED BY <1>4, <3>1, <3>2
 <2> QED BY <1>3, <1>4, <2>1 DEF Timely, PlayStages
<1> QED BY <1>1, <1>2, <1>5, BotLeftAlone

LEMMA BotSubmits ==
  ASSUME GameAll, GameAll', snapshotVersion \in Nat, BotState,
         NEW t \in thoughts, SubmitPlay(t) \/ SubmitBid(t)
  PROVE  BotState'
<1>1. UNCHANGED << view, attached, connection, recipient >> /\ thoughts' \subseteq thoughts
  BY DEF SubmitPlay, SubmitBid, Becomes, linkVars
<1>2. \/ \E cards : SeatMoves(cards)
      \/ \E bid \in BOOLEAN : HandleBid(bid)
      \/ UNCHANGED << gameVars, eventVars >>
  BY Zenon DEF SubmitPlay, SubmitBid
<1>3. CASE (\E cards : SeatMoves(cards)) \/ (\E bid \in BOOLEAN : HandleBid(bid))
  BY <1>1, <1>3, BotAfterCommand
<1>4. CASE UNCHANGED << gameVars, eventVars >>
 <2>1. SameGame /\ pendingDeliveries' = pendingDeliveries /\ GameShape
   BY <1>4 DEF SameGame, eventVars, GameAll
 <2>2. BotLink'
   BY <1>1 DEF BotState, BotLink
 <2> QED BY <1>1, <2>1, <2>2, BotLeftAlone
<1> QED BY <1>2, <1>3, <1>4

LEMMA InitBot == DeliveryInit => BotInv
<1> SUFFICES ASSUME DeliveryInit, device = "bot" PROVE BotState
  BY DEF BotInv
<1>1. /\ state = "Init" /\ pendingDeliveries = << >> /\ attached /\ recipient = 0
      /\ view = NewBot /\ thoughts = {}
  BY DEF DeliveryInit, Init
<1>2. BotFrame(view)
  BY <1>1 DEF NewBot, BotFrame, BotFacts
<1>3. Truth.phase = "Init"
  BY <1>1, TruthNow
<1>4. BotShows(view, Truth) /\ Alike(view, view)
 <2> DEFINE t == Truth
 <2>1. t.phase = "Init"
   BY <1>3
 <2> HIDE DEF t
 <2>2. BotShows(view, t)
   BY <1>2, <2>1 DEF BotShows
 <2> QED BY <1>2, <2>2 DEF Alike, t
<1>5. BotPicture
 <2>1. Leads("bot", roomLandlord, view, pendingDeliveries, view)
   BY <1>1, NothingLeads
 <2> QED BY <1>4, <2>1 DEF BotPicture
<1>6. AsksLast(pendingDeliveries, MustPlay)
 <2>1. Len(pendingDeliveries) = 0 /\ 1..0 = {}
   BY <1>1
 <2> QED BY <2>1 DEF AsksLast
<1> QED BY <1>1, <1>5, <1>6 DEF BotState, BotLink

LEMMA EveryBotStep ==
  Inv /\ GameAll /\ GameAll' /\ BotInv /\ [DeliveryNext]_vars => BotInv'
<1> SUFFICES ASSUME Inv, GameAll, GameAll', BotInv, [DeliveryNext]_vars, device' = "bot"
             PROVE  BotState'
  BY DEF BotInv
<1>1. device = "bot"
  BY EveryStep DEF Goes
<1>2. BotState /\ GameShape /\ snapshotVersion \in Nat /\ attached
  BY <1>1 DEF BotInv, BotState, BotLink, GameAll, Inv, QueueInv
<1>3. CASE PlayOn
 <2>1. GameCommand /\ UNCHANGED << view, thoughts, attached, connection, recipient >>
   BY <1>3 DEF PlayOn
 <2> QED BY <1>2, <2>1, BotAfterCommand
<1>4. CASE DispatchBroadcast \/ DispatchElsewhere \/ SendIfCurrent
  BY <1>1, <1>2, <1>4, BotDispatchStep
<1>5. CASE LookUpRecipient \/ UNCHANGED vars
  BY <1>2, <1>5, BotLooksUp
<1>6. CASE Break \/ Reconnect
  BY <1>1, <1>2, <1>6 DEF Break, Reconnect
<1>7. ASSUME NEW t \in thoughts, ClaimPlayTurn(t) \/ BuildContext(t) \/ SubmitPlay(t) \/ SubmitBid(t)
      PROVE  BotState'
  BY <1>2, <1>7, BotClaims, BotBuilds, BotSubmits
<1> QED BY <1>3, <1>4, <1>5, <1>6, <1>7, Zenon DEF DeliveryNext

-----------------------------------------------------------------------------
(* What a bot decides.                                                     *)

\* Given the game as it is, a bot always has an answer, and every answer is one
\* that the session accepts.
LEMMA RightDecisions ==
  ASSUME GameAll, state = "Playing", currentPlayer = Me,
         NEW ctx, ContextIs(ctx), ctx.mustPlay = MustPlay
  PROVE  Decisions(ctx) # {} /\ \A cards \in Decisions(ctx) : Accepts(cards)
<1> DEFINE mine == hands[Me]
           auto == FindSmallestBeatingCards(mine, lastPlayedHand)
<1>1. MustPlay <=> lastPlayedHand = NoCards
 <2>1. currentPlayer \in Seat /\ consecutivePasses \in 0..1
   BY DEF GameAll, GameInv, TypeOK
 <2>2. lastPlayedHand # NoCards => lastPlayerIdx # currentPlayer
   BY <2>1 DEF GameAll, RoundInv, RoundShape, Seat
 <2> QED BY <2>2 DEF MustPlay, GameAll, RoundInv, RoundShape
<1>2. /\ ctx.hand = mine /\ (~MustPlay => ctx.toBeat = lastPlayedHand)
      /\ mine \in CardSet
  BY MeAssumption DEF ContextIs, GameAll, GameInv, TypeOK
<1>3. RuleFallback(ctx) = auto
  BY <1>1, <1>2 DEF RuleFallback
<1>4. IF auto # NoCards THEN AcceptsPlay(auto) ELSE ~MustPlay
 <2>1. TimeoutMoveAccepted
   BY TimeoutMoveIsLegal DEF GameAll
 <2> HIDE DEF auto
 <2> QED BY <2>1 DEF TimeoutMoveAccepted, auto
<1> HIDE DEF auto
<1>5. ASSUME NEW cards, cards = NoCards \/ cards \in CardSet
      PROVE  ValidDecision(ctx, cards) <=> Accepts(cards)
 <2>1. CASE cards = NoCards
   BY <2>1 DEF ValidDecision, Accepts
 <2>2. CASE cards # NoCards
  <3>1. MustPlay \/ ctx.toBeat = NoCards \/ Beats(cards, ctx.toBeat)
          <=> MustPlay \/ Beats(cards, lastPlayedHand)
    BY <1>1, <1>2
  <3>2. cards \in CardSet
    BY <1>5, <2>2
  <3> QED BY <1>2, <2>2, <3>1, <3>2 DEF ValidDecision, Accepts, AcceptsPlay
 <2> QED BY <2>1, <2>2
<1>6. Accepts(auto) /\ (auto = NoCards \/ auto \in CardSet)
  BY <1>4 DEF Accepts, AcceptsPlay
<1>7. auto \in Decisions(ctx)
  BY <1>3, <1>5, <1>6 DEF Decisions
<1>8. ASSUME NEW cards \in Decisions(ctx) PROVE Accepts(cards)
 <2>1. ValidDecision(ctx, cards) /\ cards \in SubHands(mine) \cup {NoCards, auto}
   BY <1>2, <1>3 DEF Decisions
 <2>2. cards = NoCards \/ cards \in CardSet
   BY <1>2, <1>6, <2>1, SubHandsTyped
 <2> QED BY <1>5, <2>1, <2>2
<1> QED BY <1>7, <1>8

LEMMA BotAgrees == Inv /\ GameAll /\ BotInv => BotSeesItsTurn
<1> SUFFICES ASSUME Inv, GameAll, BotInv, NEW t \in thoughts, t.stage = "decided",
                    IsCurrentPlayTurn(Me, t.meta)
             PROVE  LET ctx == t.ask
                        landlord == CHOOSE s \in Seat : isLandlord[s]
                    IN  /\ ctx.hand = hands[Me] /\ ctx.mustPlay = MustPlay
                        /\ \A s \in Seat : LET pos == Position(s, landlord)
                                           IN  /\ ctx.cardsLeft[pos] = Size(hands[s])
                                               /\ ctx.playedByPos[pos] = playedCards[s]
                        /\ Decisions(ctx) # {} /\ \A cards \in Decisions(ctx) : Accepts(cards)
  BY DEF BotSeesItsTurn
<1>1. state = "Playing" /\ currentPlayer = Me
  BY DEF IsCurrentPlayTurn
<1>2. Timely(t)
  BY DEF Inv, ThoughtsInv, BotInv, BotState
<1> DEFINE ctx == t.ask
<1>3. ContextIs(ctx) /\ ctx.mustPlay = MustPlay
  BY <1>2 DEF Timely, PlayStages
<1> HIDE DEF ctx
<1>4. PICK l \in Seat : \A s \in Seat : isLandlord[s] <=> s = l
  BY <1>1 DEF GameAll, LandlordAgrees
<1> DEFINE landlord == CHOOSE s \in Seat : isLandlord[s]
<1>5. landlord = l
  BY <1>4
<1>6. l \in LandlordSeat
  BY <1>4 DEF LandlordSeat
<1> HIDE DEF landlord
<1>7. \A s \in Seat : /\ ctx.cardsLeft[Position(s, landlord)] = Size(hands[s])
                      /\ ctx.playedByPos[Position(s, landlord)] = playedCards[s]
  BY <1>3, <1>5, <1>6 DEF ContextIs
<1>8. Decisions(ctx) # {} /\ \A cards \in Decisions(ctx) : Accepts(cards)
  BY <1>1, <1>3, RightDecisions
<1>9. ctx.hand = hands[Me]
  BY <1>3 DEF ContextIs
<1> QED BY <1>3, <1>7, <1>8, <1>9 DEF ctx, landlord

-----------------------------------------------------------------------------

\* A bot that thinks about the turn that is still on has the hand, the table and
\* the other hands' sizes as they are now, although its goroutine reads them
\* between two checks without a lock of the session (bot.go:457): its turn is
\* the last that a command tells, and whatever ends it is another turn. So it
\* has an answer, and the session accepts whatever it decides (bot.go:516).
THEOREM BotsSeeTheirTurn == DeliverySpec => []BotSeesItsTurn
<1>1. DeliveryInit => Inv /\ BotInv
  BY InitInv, InitBot
<1>2. Inv /\ GameAll /\ GameAll' /\ BotInv /\ [DeliveryNext]_vars => Inv' /\ BotInv'
  BY EveryStep, EveryBotStep
<1>3. Inv /\ GameAll /\ BotInv => BotSeesItsTurn
  BY BotAgrees
<1> QED BY <1>1, <1>2, <1>3, DeliveryGameInvariant, PTL DEF DeliverySpec
=============================================================================
