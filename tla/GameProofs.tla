----------------------------- MODULE GameProofs -----------------------------
(***************************************************************************)
(* Proofs about the game, for every deck, every set of deals and every     *)
(* bound on the redeals: its rules, the auction and what clients are told  *)
(* of it; then that a live session implements the game whatever its        *)
(* clients, bots, timers and connections do, what that game's state means  *)
(* for moves, retirement and the start lease, and why no turn is left      *)
(* without something that ends it.                                         *)
(***************************************************************************)
EXTENDS GameSession, Auction, FiniteSetTheorems, WellFoundedInduction, TLAPS

\* Cards stay multisets of ranks when they are put together or taken apart.
LEMMA CardSetClosed ==
  /\ NoCards \in CardSet
  /\ \A a, b \in CardSet : Plus(a, b) \in CardSet
  /\ \A a, b \in CardSet : Contains(a, b) => Minus(a, b) \in CardSet
  BY DEF CardSet, NoCards, Plus, Minus, Contains

LEMMA DeckTyped == Deck \in CardSet
  BY DeckAssumption DEF CardSet

\* Every selection of cards from a hand is a multiset of ranks.
LEMMA SubHandsTyped ==
  ASSUME NEW hand \in CardSet, NEW cards \in SubHands(hand)
  PROVE  cards \in CardSet
<1> DEFINE held == {r \in Rank : hand[r] > 0}
           most == IF held = {} THEN 0 ELSE Max({hand[r] : r \in held})
<1>1. PICK c \in [held -> 0..most] :
        cards = [r \in Rank |-> IF r \in held THEN c[r] ELSE 0]
  BY DEF SubHands
<1>2. ASSUME NEW n, NEW i \in 0..n
      PROVE  i \in Nat
  OBVIOUS
<1> HIDE DEF held, most
<1>3. \A r \in held : c[r] \in Nat
  BY <1>2
<1> QED
  BY <1>1, <1>3 DEF CardSet

-----------------------------------------------------------------------------
(* The inductive invariant                                                 *)

\* While seats are asked there is a redeal left, and an auction that has a
\* caller has a candidate and less than two passes and three decisions.
AuctionBounds ==
  /\ state = "Init" => redealCount = 0
  /\ state = "Bidding" =>
       /\ redealCount < MaxRedeals
       /\ landlordCaller # NoSeat =>
            /\ landlordCandidate \in Seat
            /\ bidPasses < 2 /\ grabActions < 3

\* The room shows the phase of the game, and reopens after it.
RoomFollows ==
  /\ state = "Init" => roomState = "Ready"
  /\ state \in {"Bidding", "Playing"} => roomState = state
  /\ state = "Ended" => roomState \in {"Ended", "Waiting"}

GameInv == TypeOK /\ AuctionBounds /\ RoomFollows

LEMMA InitGame == Init => GameInv
  BY CardSetClosed, MaxRedealsAssumption
  DEF Init, GameInv, TypeOK, AuctionBounds, RoomFollows, Seat, NoSeat,
      NoSettlement

\* A new deal, up to the hands and the seat that is asked.
LEMMA DealTyped ==
  ASSUME NEW d \in Deals
  PROVE  d \in [Seat -> CardSet] /\ Bottom(d) \in CardSet
<1>1. d \in [Seat -> CardSet] /\ Contains(Deck, Dealt(d))
  BY DealsAssumption
<1>2. Dealt(d) \in CardSet
  BY <1>1, CardSetClosed DEF Dealt, Seat
<1> QED
  BY <1>1, <1>2, CardSetClosed, DeckTyped DEF Bottom

LEMMA StartBiddingRoundStep ==
  ASSUME TypeOK, StartBiddingRound, redealCount' \in 0..(MaxRedeals - 1)
  PROVE  GameInv'
<1>1. PICK d \in Deals, first \in RandomSeats :
        /\ DealNewRound(d)
        /\ hands' = d
        /\ isLandlord' = [s \in Seat |-> FALSE] /\ roomLandlord' = NoSeat
        /\ lastPlayerIdx' = NoSeat
        /\ state' = "Bidding" /\ roomState' = "Bidding"
        /\ currentBidder' = first
        /\ turnID' = turnID + 1
        /\ UNCHANGED currentPlayer
  BY DEF StartBiddingRound
<1>2. first \in Seat
  BY RandomSeatsAssumption
<1>3. TypeOK'
  BY <1>1, <1>2, DealTyped, CardSetClosed, MaxRedealsAssumption
  DEF TypeOK, DealNewRound, NoSettlement, Seat, NoSeat
<1> QED
  BY <1>1, <1>3, MaxRedealsAssumption
  DEF GameInv, TypeOK, AuctionBounds, RoomFollows, DealNewRound

\* The seats stay seats.
LEMMA SeatsClosed ==
  /\ \A s \in Seat : Next3(s) \in Seat
  /\ \A s, t \in Seat : NextGrabber(s, t) \in Seat
  BY DEF Seat, Next3, NextGrabber

LEMMA SetLandlordTyped ==
  ASSUME NEW idx \in Seat, NEW dealt \in [Seat -> CardSet],
         NEW bottom \in CardSet, NEW flags \in [Seat -> BOOLEAN],
         turnID \in Nat, SetLandlord(idx, dealt, bottom, flags)
  PROVE  /\ hands' \in [Seat -> CardSet] /\ isLandlord' \in [Seat -> BOOLEAN]
         /\ state' = "Playing" /\ roomState' = "Playing"
         /\ roomLandlord' = idx /\ currentPlayer' = idx /\ lastPlayerIdx' = idx
         /\ turnID' \in Nat
  BY CardSetClosed DEF SetLandlord, WithBottom

LEMMA CallStep ==
  ASSUME GameInv, state = "Bidding", Call
  PROVE  GameInv'
<1>1. NextGrabber(currentBidder, currentBidder) \in Seat
  BY SeatsClosed DEF GameInv, TypeOK
<1> QED
  BY <1>1
  DEF GameInv, TypeOK, AuctionBounds, RoomFollows, Call, AskToBid, cardVars,
      playVars, tallyVars, Seat, NoSeat

LEMMA NoCallStep ==
  ASSUME GameInv, state = "Bidding", landlordCaller = NoSeat, NoCall
  PROVE  GameInv'
<1> USE DEF GameInv
<1>1. CASE bidPasses + 1 < 3
 <2>1. Next3(currentBidder) \in Seat
   BY SeatsClosed DEF TypeOK
 <2>2. /\ bidPasses' = bidPasses + 1
       /\ UNCHANGED << landlordCaller, landlordCandidate, grabActions,
                       bidMultiplier >>
       /\ AskToBid(Next3(currentBidder))
   BY <1>1 DEF NoCall, TypeOK
 <2> QED
   BY <1>1, <2>1, <2>2
   DEF TypeOK, AuctionBounds, RoomFollows, AskToBid, cardVars, playVars,
       tallyVars
<1>2. CASE bidPasses + 1 >= 3
 <2>1. Redeal
   BY <1>2 DEF NoCall
 <2>2. CASE redealCount + 1 >= MaxRedeals
  <3>1. PICK d \in Deals, idx \in RandomSeats :
          /\ DealNewRound(d)
          /\ SetLandlord(idx, d, Bottom(d), [s \in Seat |-> FALSE])
          /\ UNCHANGED currentBidder
    BY <2>1, <2>2 DEF Redeal
  <3>2. redealCount' \in 0..MaxRedeals
    BY <2>1, MaxRedealsAssumption DEF TypeOK, AuctionBounds, Redeal
  <3>3. idx \in Seat /\ [s \in Seat |-> FALSE] \in [Seat -> BOOLEAN]
    BY RandomSeatsAssumption
  <3>4. /\ hands' \in [Seat -> CardSet] /\ isLandlord' \in [Seat -> BOOLEAN]
        /\ state' = "Playing" /\ roomState' = "Playing"
        /\ roomLandlord' = idx /\ currentPlayer' = idx
        /\ lastPlayerIdx' = idx /\ turnID' \in Nat
    BY <3>1, <3>3, DealTyped, SetLandlordTyped DEF TypeOK
  <3> QED
    BY <3>1, <3>2, <3>3, <3>4, DealTyped, CardSetClosed
    DEF TypeOK, AuctionBounds, RoomFollows, DealNewRound, NoSettlement, Seat,
        NoSeat
 <2>3. CASE redealCount + 1 < MaxRedeals
  <3>1. StartBiddingRound /\ redealCount' = redealCount + 1
    BY <2>1, <2>3, MaxRedealsAssumption DEF Redeal, TypeOK
  <3>2. redealCount' \in 0..(MaxRedeals - 1)
    BY <2>3, <3>1, MaxRedealsAssumption DEF TypeOK
  <3> QED
    BY <3>1, <3>2, StartBiddingRoundStep
 <2> QED
   BY <2>2, <2>3, MaxRedealsAssumption DEF TypeOK
<1> QED
  BY <1>1, <1>2 DEF TypeOK

LEMMA GrabStep ==
  ASSUME GameInv, state = "Bidding", landlordCaller # NoSeat,
         NEW bid \in BOOLEAN, Grab(bid)
  PROVE  GameInv'
<1> DEFINE candidate == StandingCandidate(bid)
           passes == IF bid THEN 0 ELSE bidPasses + 1
<1> USE DEF GameInv
<1>1. candidate \in Seat
  BY DEF StandingCandidate, TypeOK, AuctionBounds
<1>2. passes \in 0..2 /\ grabActions + 1 \in 0..3
  BY DEF TypeOK, AuctionBounds
<1>3. /\ landlordCandidate' = candidate /\ bidPasses' = passes
      /\ grabActions' = grabActions + 1
      /\ bidMultiplier' = IF bid THEN 2 * bidMultiplier ELSE bidMultiplier
      /\ UNCHANGED landlordCaller
  BY DEF Grab
<1>4. bidMultiplier' \in Nat \ {0}
  BY <1>3 DEF TypeOK
<1>5. CASE AuctionOver(passes, grabActions + 1)
 <2>1. /\ SetLandlord(candidate, hands, bottomCards, isLandlord)
       /\ UNCHANGED << gameID, redealCount, currentBidder, bottomCards,
                       playedCards, lastPlayedHand, consecutivePasses,
                       tallyVars >>
   BY <1>5 DEF Grab
 <2>2. /\ hands' \in [Seat -> CardSet] /\ isLandlord' \in [Seat -> BOOLEAN]
       /\ state' = "Playing" /\ roomState' = "Playing"
       /\ roomLandlord' = candidate /\ currentPlayer' = candidate
       /\ lastPlayerIdx' = candidate /\ turnID' \in Nat
   BY <1>1, <2>1, SetLandlordTyped DEF TypeOK
 <2> HIDE DEF candidate, passes
 <2> QED
   BY <1>1, <1>2, <1>3, <1>4, <2>1, <2>2
   DEF TypeOK, AuctionBounds, RoomFollows, tallyVars
<1>6. CASE ~AuctionOver(passes, grabActions + 1)
 <2>1. AskToBid(NextGrabber(currentBidder, candidate))
   BY <1>6 DEF Grab
 <2>2. NextGrabber(currentBidder, candidate) \in Seat
   BY <1>1, SeatsClosed DEF TypeOK
 <2>3. passes < 2 /\ grabActions + 1 < 3
   BY <1>2, <1>6 DEF AuctionOver
 <2> HIDE DEF candidate, passes
 <2> QED
   BY <1>1, <1>2, <1>3, <1>4, <2>1, <2>2, <2>3
   DEF TypeOK, AuctionBounds, RoomFollows, AskToBid, cardVars, playVars,
       tallyVars
<1> QED
  BY <1>5, <1>6

LEMMA PlayCardsStep ==
  ASSUME GameInv, NEW cards \in CardSet, PlayCards(cards)
  PROVE  GameInv'
<1> DEFINE mine  == Minus(hands[currentPlayer], cards)
           bombs == bombCount + (IF ParseHand(cards).type \in {"Bomb", "Rocket"}
                                 THEN 1 ELSE 0)
<1> USE DEF GameInv
<1>1. /\ state = "Playing" /\ AcceptsPlay(cards)
      /\ lastPlayedHand' = cards /\ lastPlayerIdx' = currentPlayer
      /\ consecutivePasses' = 0 /\ bombCount' = bombs
      /\ landlordPlays' =
           landlordPlays + (IF isLandlord[currentPlayer] THEN 1 ELSE 0)
      /\ farmerPlays' =
           farmerPlays + (IF isLandlord[currentPlayer] THEN 0 ELSE 1)
      /\ hands' = [hands EXCEPT ![currentPlayer] = mine]
      /\ playedCards' = [playedCards EXCEPT ![currentPlayer] = Plus(@, cards)]
      /\ UNCHANGED << gameID, redealCount, bidVars, bottomCards, isLandlord,
                      roomLandlord >>
  BY DEF PlayCards
<1>2. mine \in CardSet
  BY <1>1, CardSetClosed DEF AcceptsPlay, TypeOK
<1>3. hands' \in [Seat -> CardSet] /\ playedCards' \in [Seat -> CardSet]
  BY <1>1, <1>2, CardSetClosed DEF TypeOK
<1>4. bombCount' \in Nat /\ landlordPlays' \in Nat /\ farmerPlays' \in Nat
  BY <1>1 DEF TypeOK
<1>5. \/ /\ state' = "Ended" /\ roomState' = "Ended"
         /\ settlement'.winner = currentPlayer
         /\ UNCHANGED << turnID, currentPlayer >>
      \/ /\ AskToPlay(Next3(currentPlayer))
         /\ UNCHANGED << state, roomState, settlement >>
  BY DEF PlayCards, EndGame
<1>6. currentPlayer' \in Seat /\ turnID' \in Nat
  BY <1>5, SeatsClosed DEF AskToPlay, TypeOK
<1>7. /\ settlement'.winner \in Seat \cup {NoSeat}
      /\ state' \in {"Playing", "Ended"} /\ roomState' = state'
  BY <1>1, <1>5 DEF TypeOK, RoomFollows
<1> HIDE DEF mine, bombs
<1> QED
  BY <1>1, <1>3, <1>4, <1>6, <1>7
  DEF TypeOK, AuctionBounds, RoomFollows, bidVars

LEMMA PassStep ==
  ASSUME GameInv, Pass
  PROVE  GameInv'
<1> USE DEF GameInv
<1>1. Next3(currentPlayer) \in Seat
  BY SeatsClosed DEF TypeOK
<1> QED
  BY <1>1, CardSetClosed
  DEF Pass, RoundOver, AskToPlay, TypeOK, AuctionBounds, RoomFollows, bidVars,
      cardVars, tallyVars

\* The invariant is inductive.
LEMMA GameStep ==
  ASSUME GameInv, [Next]_gameVars
  PROVE  GameInv'
<1>1. CASE Start
 <2>1. StartBiddingRound /\ redealCount' = 0
   BY <1>1 DEF Start, GameInv, AuctionBounds
 <2> QED
   BY <2>1, StartBiddingRoundStep, MaxRedealsAssumption DEF GameInv
<1>2. ASSUME NEW bid \in BOOLEAN, Bid(bid)
      PROVE  GameInv'
  BY <1>2, GrabStep, CallStep, NoCallStep DEF Bid
<1>3. ASSUME NEW cards \in SubHands(hands[currentPlayer]), PlayCards(cards)
      PROVE  GameInv'
 <2>1. cards \in CardSet
   BY SubHandsTyped DEF GameInv, TypeOK
 <2> QED
   BY <1>3, <2>1, PlayCardsStep
<1>4. CASE Pass
  BY <1>4, PassStep
<1>5. CASE ResetAfterGame
  BY <1>5
  DEF ResetAfterGame, GameInv, TypeOK, AuctionBounds, RoomFollows, bidVars,
      cardVars, playVars, tallyVars
<1>6. CASE UNCHANGED gameVars
  BY <1>6
  DEF gameVars, GameInv, TypeOK, AuctionBounds, RoomFollows, bidVars, cardVars,
      playVars, tallyVars
<1> QED
  BY <1>1, <1>2, <1>3, <1>4, <1>5, <1>6 DEF Next

\* Every state the game can reach is well typed, whatever is dealt and played
\* (the fields of GameSession, game.go:34-112).
THEOREM TypeCorrect == Spec => []TypeOK
<1>1. GameInv => TypeOK
  BY DEF GameInv
<1> QED
  BY InitGame, GameStep, <1>1, PTL DEF Spec

-----------------------------------------------------------------------------
(* Rounds                                                                  *)

\* No cards are no hand: none of the eight checks accepts them.
LEMMA NoCardsAreNoHand == IsEmpty(ParseHand(NoCards))
<1> DEFINE a == AnalyzeCards(NoCards)
<1>1. Size(NoCards) = 0
 <2>1. UNION {{r} \X (1..NoCards[r]) : r \in Rank} = {}
   BY DEF NoCards
 <2> QED
   BY <2>1, FS_EmptySet DEF Size
<1>2. /\ Times(NoCards, 4) = {} /\ Times(NoCards, 3) = {}
      /\ Times(NoCards, 2) = {} /\ Times(NoCards, 1) = {}
  BY DEF Times, NoCards
<1>3. /\ a.size = 0 /\ a.fours = {} /\ a.trios = {} /\ a.pairs = {}
      /\ a.ones = {} /\ a.counts = NoCards
  BY <1>1, <1>2 DEF AnalyzeCards
<1>4. Cardinality({}) = 0
  BY FS_EmptySet
<1> HIDE DEF a
<1>5. /\ IsRocket(a) = {} /\ IsBomb(a) = {} /\ IsFourWithKickers(a) = {}
      /\ IsTrioWithKickers(a) = {} /\ IsPlane(a) = {} /\ IsStraight(a) = {}
      /\ IsPairStraight(a) = {}
  BY <1>3, <1>4
  DEF IsRocket, IsBomb, IsFourWithKickers, IsTrioWithKickers, IsPlane,
      IsStraight, IsPairStraight, IsContinuous, When
<1>6. IsSimpleType(a) = {}
 <2>1. {r \in Rank : a.counts[r] > 0} = {}
   BY <1>3 DEF NoCards
 <2> QED
   BY <1>4, <2>1 DEF IsSimpleType, When
<1>7. FirstReading(a) = {EmptyHand}
  BY <1>5, <1>6 DEF FirstReading, OrElse
<1>8. UNION {FirstReading(b) : b \in {AnalyzeCards(NoCards)}} = {EmptyHand}
  BY <1>7 DEF a
<1> DEFINE readings == UNION {FirstReading(b) : b \in {AnalyzeCards(NoCards)}}
<1>9. ParseHand(NoCards) = CHOOSE hand \in readings : TRUE
  BY Zenon DEF ParseHand
<1> HIDE DEF readings
<1>10. ParseHand(NoCards) \in readings
  BY <1>8, <1>9 DEF readings
<1> QED
  BY <1>8, <1>10 DEF IsEmpty, EmptyHand, readings

\* The table is clear while seats bid.
TableClear ==
  state = "Bidding" => lastPlayedHand = NoCards /\ consecutivePasses = 0

RoundInv == TableClear /\ RoundShape

LEMMA SetLandlordOpensRound ==
  ASSUME NEW idx \in Seat, NEW dealt, NEW bottom, NEW flags,
         SetLandlord(idx, dealt, bottom, flags),
         lastPlayedHand' = NoCards, consecutivePasses' = 0
  PROVE  RoundInv'
  BY DEF SetLandlord, RoundInv, TableClear, RoundShape

LEMMA StartBiddingClearsTable ==
  ASSUME StartBiddingRound
  PROVE  RoundInv'
  BY DEF StartBiddingRound, DealNewRound, RoundInv, TableClear, RoundShape

LEMMA BidKeepsRounds ==
  ASSUME GameInv, RoundInv, NEW bid \in BOOLEAN, Bid(bid)
  PROVE  RoundInv'
<1>1. state = "Bidding" /\ lastPlayedHand = NoCards /\ consecutivePasses = 0
  BY DEF Bid, RoundInv, TableClear
<1>2. CASE landlordCaller # NoSeat /\ Grab(bid)
 <2>1. CASE state' = "Bidding"
   BY <1>1, <1>2, <2>1
   DEF Grab, SetLandlord, AskToBid, playVars, RoundInv, TableClear, RoundShape
 <2>2. CASE state' # "Bidding"
  <3>1. StandingCandidate(bid) \in Seat
    BY <1>1, <1>2
    DEF Bid, Call, StandingCandidate, GameInv, TypeOK, AuctionBounds
  <3>2. /\ SetLandlord(StandingCandidate(bid), hands, bottomCards, isLandlord)
        /\ UNCHANGED << lastPlayedHand, consecutivePasses >>
    BY <1>1, <1>2, <2>2 DEF Grab, AskToBid
  <3> QED
    BY <1>1, <3>1, <3>2, SetLandlordOpensRound
 <2> QED
   BY <2>1, <2>2
<1>3. CASE Call
  BY <1>1, <1>3 DEF Call, AskToBid, playVars, RoundInv, TableClear, RoundShape
<1>4. CASE NoCall
 <2>1. CASE AskToBid(Next3(currentBidder))
   BY <1>1, <2>1 DEF AskToBid, playVars, RoundInv, TableClear, RoundShape
 <2>2. CASE StartBiddingRound
   BY <2>2, StartBiddingClearsTable
 <2>3. ASSUME NEW d \in Deals, NEW idx \in RandomSeats, DealNewRound(d),
              SetLandlord(idx, d, Bottom(d), [s \in Seat |-> FALSE])
       PROVE  RoundInv'
   BY <2>3, SetLandlordOpensRound, RandomSeatsAssumption DEF DealNewRound
 <2> QED
   BY <1>4, <2>1, <2>2, <2>3 DEF NoCall, Redeal
<1> QED
  BY <1>2, <1>3, <1>4 DEF Bid

LEMMA RoundStep ==
  ASSUME GameInv, RoundInv, [Next]_gameVars
  PROVE  RoundInv'
<1>1. CASE Start
  BY <1>1, StartBiddingClearsTable DEF Start
<1>2. ASSUME NEW bid \in BOOLEAN, Bid(bid)
      PROVE  RoundInv'
  BY <1>2, BidKeepsRounds
<1>3. ASSUME NEW cards \in SubHands(hands[currentPlayer]), PlayCards(cards)
      PROVE  RoundInv'
 <2>1. cards # NoCards
   BY <1>3, NoCardsAreNoHand DEF PlayCards, AcceptsPlay
 <2>2. /\ state = "Playing" /\ lastPlayedHand' = cards
       /\ lastPlayerIdx' = currentPlayer /\ consecutivePasses' = 0
       /\ state' = "Ended" \/ currentPlayer' = Next3(currentPlayer)
       /\ state' # "Bidding"
   BY <1>3 DEF PlayCards, EndGame, AskToPlay
 <2> QED
   BY <2>1, <2>2
   DEF RoundInv, TableClear, RoundShape, GameInv, TypeOK, Next3, Seat
<1>4. CASE Pass
 <2>1. /\ state = "Playing" /\ state' = "Playing"
       /\ currentPlayer' = Next3(currentPlayer)
       /\ lastPlayedHand # NoCards /\ lastPlayerIdx # currentPlayer
   BY <1>4 DEF Pass, MustPlay, AskToPlay
 <2>2. /\ lastPlayerIdx \in Seat /\ currentPlayer \in Seat
       /\ consecutivePasses \in 0..1
       /\ currentPlayer = (lastPlayerIdx + 1 + consecutivePasses) % 3
   BY <2>1 DEF RoundInv, RoundShape, GameInv, TypeOK
 <2>3. CASE consecutivePasses = 1
   BY <1>4, <2>1, <2>2, <2>3
   DEF Pass, RoundOver, RoundInv, TableClear, RoundShape
 <2>4. CASE consecutivePasses = 0
  <3>1. /\ lastPlayedHand' = lastPlayedHand /\ lastPlayerIdx' = lastPlayerIdx
        /\ consecutivePasses' = 1
    BY <1>4, <2>4 DEF Pass, RoundOver
  <3>2. currentPlayer' = (lastPlayerIdx' + 1 + consecutivePasses') % 3
    BY <2>1, <2>2, <2>4, <3>1 DEF Next3, Seat
  <3> QED
    BY <2>1, <2>2, <3>1, <3>2 DEF RoundInv, TableClear, RoundShape
 <2> QED
   BY <2>2, <2>3, <2>4
<1>5. CASE ResetAfterGame
  BY <1>5 DEF ResetAfterGame, RoundInv, TableClear, RoundShape
<1>6. CASE UNCHANGED gameVars
  BY <1>6 DEF gameVars, playVars, RoundInv, TableClear, RoundShape
<1> QED
  BY <1>1, <1>2, <1>3, <1>4, <1>5, <1>6 DEF Next

\* The owner of the round, the table and the passes never drift apart: whoever
\* must lead faces a clear table, and nobody is asked to beat his own cards
\* (play.go:155, 213 and 284), for every deck and every course of the game.
THEOREM RoundsAreSound == Spec => []RoundShape
<1>1. Init => RoundInv
  BY DEF Init, RoundInv, TableClear, RoundShape
<1>2. RoundInv => RoundShape
  BY DEF RoundInv
<1> QED
  BY InitGame, GameStep, RoundStep, <1>1, <1>2, PTL DEF Spec

-----------------------------------------------------------------------------
(* The landlord                                                            *)

\* setLandlord makes exactly one landlord, in the hands and in the room.
LEMMA OneLandlord ==
  ASSUME NEW idx \in Seat, NEW dealt, NEW bottom,
         NEW flags \in [Seat -> BOOLEAN], \A s \in Seat : ~flags[s],
         SetLandlord(idx, dealt, bottom, flags),
         landlordCandidate' \in {idx, NoSeat},
         landlordCandidate' = NoSeat => redealCount' = MaxRedeals
  PROVE  LandlordAgrees'
<1>1. /\ isLandlord' = [flags EXCEPT ![idx] = TRUE]
      /\ roomLandlord' = idx /\ state' = "Playing" /\ roomState' = "Playing"
  BY DEF SetLandlord
<1>2. \A s \in Seat : isLandlord'[s] <=> s = idx
  BY <1>1
<1> QED
  BY <1>1, <1>2 DEF LandlordAgrees

LEMMA NoLandlordYet ==
  ASSUME StartBiddingRound
  PROVE  LandlordAgrees'
  BY DEF StartBiddingRound, LandlordAgrees

LEMMA BidKeepsLandlord ==
  ASSUME GameInv, LandlordAgrees, NEW bid \in BOOLEAN, Bid(bid)
  PROVE  LandlordAgrees'
<1>1. /\ state = "Bidding" /\ roomLandlord = NoSeat
      /\ \A s \in Seat : ~isLandlord[s]
      /\ isLandlord \in [Seat -> BOOLEAN]
  BY DEF Bid, LandlordAgrees, GameInv, TypeOK
<1>2. ASSUME NEW seat, AskToBid(seat)
      PROVE  LandlordAgrees'
  BY <1>1, <1>2 DEF AskToBid, cardVars, LandlordAgrees
<1>3. CASE landlordCaller # NoSeat /\ Grab(bid)
 <2>1. StandingCandidate(bid) \in Seat
   BY <1>1, <1>3 DEF StandingCandidate, GameInv, TypeOK, AuctionBounds
 <2>2. CASE SetLandlord(StandingCandidate(bid), hands, bottomCards, isLandlord)
  <3>1. /\ landlordCandidate' = StandingCandidate(bid)
        /\ landlordCandidate' # NoSeat
    BY <1>3, <2>1 DEF Grab, Seat, NoSeat
  <3> QED
    BY <1>1, <2>1, <2>2, <3>1, OneLandlord
 <2> QED
   BY <1>2, <1>3, <2>2 DEF Grab
<1>4. CASE Call
  BY <1>2, <1>4 DEF Call
<1>5. CASE NoCall
 <2>1. CASE StartBiddingRound
   BY <2>1, NoLandlordYet
 <2>2. ASSUME Redeal, redealCount + 1 >= MaxRedeals
       PROVE  LandlordAgrees'
  <3>1. PICK d \in Deals, idx \in RandomSeats :
          /\ DealNewRound(d)
          /\ SetLandlord(idx, d, Bottom(d), [s \in Seat |-> FALSE])
    BY <2>2 DEF Redeal
  <3>2. redealCount' = MaxRedeals
    BY <1>1, <2>2, MaxRedealsAssumption
    DEF Redeal, GameInv, TypeOK, AuctionBounds
  <3>3. idx \in Seat /\ landlordCandidate' = NoSeat
    BY <3>1, RandomSeatsAssumption DEF DealNewRound
  <3> DEFINE flags == [s \in Seat |-> FALSE]
  <3>4. flags \in [Seat -> BOOLEAN] /\ \A s \in Seat : ~flags[s]
    OBVIOUS
  <3>5. SetLandlord(idx, d, Bottom(d), flags)
    BY <3>1
  <3> HIDE DEF flags
  <3> QED
    BY <3>2, <3>3, <3>4, <3>5, OneLandlord
 <2> QED
   BY <1>2, <1>5, <2>1, <2>2 DEF NoCall, Redeal
<1> QED
  BY <1>3, <1>4, <1>5 DEF Bid

LEMMA LandlordStep ==
  ASSUME GameInv, LandlordAgrees, [Next]_gameVars
  PROVE  LandlordAgrees'
<1>1. CASE Start
  BY <1>1, NoLandlordYet DEF Start
<1>2. ASSUME NEW bid \in BOOLEAN, Bid(bid)
      PROVE  LandlordAgrees'
  BY <1>2, BidKeepsLandlord
<1>3. ASSUME NEW cards \in SubHands(hands[currentPlayer]), PlayCards(cards)
      PROVE  LandlordAgrees'
 <2>1. /\ state = "Playing" /\ state' \in {"Playing", "Ended"}
       /\ roomState = "Playing" /\ roomState' # "Waiting"
       /\ UNCHANGED << redealCount, landlordCandidate, isLandlord,
                       roomLandlord >>
   BY <1>3 DEF PlayCards, EndGame, GameInv, RoomFollows, bidVars
 <2> QED
   BY <2>1 DEF LandlordAgrees
<1>4. CASE Pass
  BY <1>4 DEF Pass, cardVars, bidVars, LandlordAgrees
<1>5. CASE ResetAfterGame
  BY <1>5 DEF ResetAfterGame, cardVars, bidVars, LandlordAgrees
<1>6. CASE UNCHANGED gameVars
  BY <1>6 DEF gameVars, cardVars, bidVars, LandlordAgrees
<1> QED
  BY <1>1, <1>2, <1>3, <1>4, <1>5, <1>6 DEF Next

\* From setLandlord on there is one landlord, the one the room shows until it
\* reopens, and he was the standing candidate unless the last redeal forced him
\* (bid.go:165-200, lifecycle.go:123-137, room/lifecycle.go:28-44).
THEOREM OneLandlordForAll == Spec => []LandlordAgrees
<1>1. Init => LandlordAgrees
  BY DEF Init, LandlordAgrees
<1> QED
  BY InitGame, GameStep, LandlordStep, <1>1, PTL DEF Spec

-----------------------------------------------------------------------------
(* The cards                                                               *)

LEMMA BottomCompletesDeal ==
  ASSUME NEW d \in Deals, NEW r \in Rank
  PROVE  /\ d[0][r] + d[1][r] + d[2][r] + Bottom(d)[r] = Deck[r]
         /\ \A s \in Seat : d[s][r] \in Nat
         /\ Bottom(d)[r] \in Nat
<1>1. /\ d \in [Seat -> CardSet] /\ Bottom(d) \in CardSet
      /\ Deck \in CardSet
  BY DealTyped, DeckTyped
<1>2. /\ d[0][r] \in Nat /\ d[1][r] \in Nat /\ d[2][r] \in Nat
      /\ Bottom(d)[r] \in Nat /\ Deck[r] \in Nat
  BY <1>1 DEF CardSet, Seat
<1>3. Bottom(d)[r] = Deck[r] - (d[0][r] + (d[1][r] + d[2][r]))
  BY DEF Bottom, Minus, Dealt, Plus
<1> QED
  BY <1>1, <1>2, <1>3 DEF CardSet, Seat

LEMMA CardsTyped ==
  ASSUME TypeOK, NEW r \in Rank
  PROVE  /\ hands[0][r] \in Nat /\ hands[1][r] \in Nat /\ hands[2][r] \in Nat
         /\ playedCards[0][r] \in Nat /\ playedCards[1][r] \in Nat
         /\ playedCards[2][r] \in Nat /\ bottomCards[r] \in Nat
         /\ Deck[r] \in Nat
  BY DeckTyped DEF TypeOK, CardSet, Seat

\* Handing over the bottom keeps the cards together.
LEMMA BottomTaken ==
  ASSUME NEW idx \in Seat, NEW dealt \in [Seat -> CardSet],
         NEW bottom \in CardSet, NEW flags,
         SetLandlord(idx, dealt, bottom, flags),
         playedCards' \in [Seat -> CardSet],
         \A r \in Rank :
           dealt[0][r] + dealt[1][r] + dealt[2][r] + playedCards'[0][r]
             + playedCards'[1][r] + playedCards'[2][r] + bottom[r] = Deck[r]
  PROVE  CardsConserved'
<1>1. /\ hands' = [dealt EXCEPT ![idx] = Plus(dealt[idx], bottom)]
      /\ state' = "Playing"
  BY DEF SetLandlord, WithBottom
<1>2. ASSUME NEW r \in Rank
      PROVE  hands'[0][r] + hands'[1][r] + hands'[2][r] + playedCards'[0][r]
               + playedCards'[1][r] + playedCards'[2][r] + 0 = Deck[r]
 <2>1. /\ dealt[0][r] \in Nat /\ dealt[1][r] \in Nat /\ dealt[2][r] \in Nat
       /\ playedCards'[0][r] \in Nat /\ playedCards'[1][r] \in Nat
       /\ playedCards'[2][r] \in Nat /\ bottom[r] \in Nat
   BY DEF CardSet, Seat
 <2>2. \A s \in Seat :
         hands'[s][r] = dealt[s][r] + (IF s = idx THEN bottom[r] ELSE 0)
   BY <1>1, <2>1 DEF Plus, Seat
 <2> QED
   BY <2>1, <2>2 DEF Seat
<1> QED
  BY <1>1, <1>2 DEF CardsConserved

LEMMA DealConserves ==
  ASSUME StartBiddingRound
  PROVE  CardsConserved'
<1>1. PICK d \in Deals :
        /\ bottomCards' = Bottom(d) /\ hands' = d /\ state' = "Bidding"
        /\ playedCards' = [s \in Seat |-> NoCards]
  BY DEF StartBiddingRound, DealNewRound
<1>2. ASSUME NEW r \in Rank
      PROVE  hands'[0][r] + hands'[1][r] + hands'[2][r] + playedCards'[0][r]
               + playedCards'[1][r] + playedCards'[2][r] + bottomCards'[r]
               = Deck[r]
  BY <1>1, BottomCompletesDeal DEF NoCards, Seat
<1> QED
  BY <1>1, <1>2 DEF CardsConserved

LEMMA BidConserves ==
  ASSUME GameInv, CardsConserved, NEW bid \in BOOLEAN, Bid(bid)
  PROVE  CardsConserved'
<1>1. /\ state = "Bidding" /\ TypeOK
      /\ hands \in [Seat -> CardSet] /\ bottomCards \in CardSet
      /\ \A r \in Rank :
           hands[0][r] + hands[1][r] + hands[2][r] + playedCards[0][r]
             + playedCards[1][r] + playedCards[2][r] + bottomCards[r] = Deck[r]
  BY DEF Bid, CardsConserved, GameInv, TypeOK
<1>2. ASSUME NEW seat, AskToBid(seat)
      PROVE  CardsConserved'
  BY <1>1, <1>2 DEF AskToBid, cardVars, CardsConserved
<1>3. CASE landlordCaller # NoSeat /\ Grab(bid)
 <2>1. StandingCandidate(bid) \in Seat
   BY <1>1, <1>3 DEF StandingCandidate, GameInv, TypeOK, AuctionBounds
 <2>2. CASE /\ SetLandlord(StandingCandidate(bid), hands, bottomCards,
                           isLandlord)
            /\ UNCHANGED playedCards
  <3>1. playedCards' = playedCards /\ playedCards' \in [Seat -> CardSet]
    BY <1>1, <2>2 DEF TypeOK
  <3> QED
    BY <1>1, <2>1, <2>2, <3>1, BottomTaken
 <2> QED
   BY <1>2, <1>3, <2>2 DEF Grab
<1>4. CASE Call
  BY <1>2, <1>4 DEF Call
<1>5. CASE NoCall
 <2>1. ASSUME NEW d \in Deals, NEW idx \in RandomSeats, DealNewRound(d),
              SetLandlord(idx, d, Bottom(d), [s \in Seat |-> FALSE])
       PROVE  CardsConserved'
  <3>1. playedCards' = [s \in Seat |-> NoCards]
    BY <2>1 DEF DealNewRound
  <3>2. /\ idx \in Seat /\ d \in [Seat -> CardSet] /\ Bottom(d) \in CardSet
        /\ playedCards' \in [Seat -> CardSet]
    BY <3>1, DealTyped, CardSetClosed, RandomSeatsAssumption
  <3>3. ASSUME NEW r \in Rank
        PROVE  d[0][r] + d[1][r] + d[2][r] + playedCards'[0][r]
                 + playedCards'[1][r] + playedCards'[2][r] + Bottom(d)[r]
                 = Deck[r]
    BY <3>1, BottomCompletesDeal DEF NoCards, Seat
  <3> QED
    BY <2>1, <3>2, <3>3, BottomTaken
 <2> QED
   BY <1>2, <1>5, <2>1, DealConserves DEF NoCall, Redeal
<1> QED
  BY <1>3, <1>4, <1>5 DEF Bid

LEMMA PlayConserves ==
  ASSUME GameInv, CardsConserved, NEW cards \in CardSet, PlayCards(cards)
  PROVE  CardsConserved'
<1>1. /\ state = "Playing" /\ state' \in {"Playing", "Ended"}
      /\ Contains(hands[currentPlayer], cards)
      /\ hands' = [hands EXCEPT ![currentPlayer] =
                     Minus(hands[currentPlayer], cards)]
      /\ playedCards' = [playedCards EXCEPT ![currentPlayer] =
                           Plus(playedCards[currentPlayer], cards)]
  BY DEF PlayCards, AcceptsPlay, EndGame
<1>2. TypeOK
  BY DEF GameInv
<1>3. ASSUME NEW r \in Rank, NEW s \in Seat
      PROVE  hands'[s][r] + playedCards'[s][r] = hands[s][r] + playedCards[s][r]
 <2>1. hands[s][r] \in Nat /\ playedCards[s][r] \in Nat /\ cards[r] \in Nat
   BY <1>2 DEF TypeOK, CardSet
 <2>2. CASE s = currentPlayer
  <3>1. /\ hands'[s][r] = hands[s][r] - cards[r]
        /\ playedCards'[s][r] = playedCards[s][r] + cards[r]
    BY <1>1, <1>2, <2>2 DEF TypeOK, Plus, Minus
  <3> QED
    BY <2>1, <3>1
 <2>3. CASE s # currentPlayer
   BY <1>1, <1>2, <2>3 DEF TypeOK
 <2> QED
   BY <2>2, <2>3
<1>4. hands' \in [Seat -> CardSet] /\ playedCards' \in [Seat -> CardSet]
  BY PlayCardsStep DEF GameInv, TypeOK
<1>5. ASSUME NEW r \in Rank
      PROVE  hands'[0][r] + hands'[1][r] + hands'[2][r] + playedCards'[0][r]
               + playedCards'[1][r] + playedCards'[2][r] + 0 = Deck[r]
 <2>1. /\ hands'[0][r] + playedCards'[0][r] = hands[0][r] + playedCards[0][r]
       /\ hands'[1][r] + playedCards'[1][r] = hands[1][r] + playedCards[1][r]
       /\ hands'[2][r] + playedCards'[2][r] = hands[2][r] + playedCards[2][r]
   BY <1>3 DEF Seat
 <2>2. /\ hands'[0][r] \in Nat /\ hands'[1][r] \in Nat /\ hands'[2][r] \in Nat
       /\ playedCards'[0][r] \in Nat /\ playedCards'[1][r] \in Nat
       /\ playedCards'[2][r] \in Nat
   BY <1>4 DEF CardSet, Seat
 <2>3. hands[0][r] + hands[1][r] + hands[2][r] + playedCards[0][r]
         + playedCards[1][r] + playedCards[2][r] + 0 = Deck[r]
   BY <1>1 DEF CardsConserved
 <2>4. /\ hands[0][r] \in Nat /\ hands[1][r] \in Nat /\ hands[2][r] \in Nat
       /\ playedCards[0][r] \in Nat /\ playedCards[1][r] \in Nat
       /\ playedCards[2][r] \in Nat /\ Deck[r] \in Nat
   BY <1>2, CardsTyped
 <2> QED
   BY <2>1, <2>2, <2>3, <2>4
<1> QED
  BY <1>1, <1>5 DEF CardsConserved

LEMMA CardsStep ==
  ASSUME GameInv, CardsConserved, [Next]_gameVars
  PROVE  CardsConserved'
<1>1. CASE Start
  BY <1>1, DealConserves DEF Start
<1>2. ASSUME NEW bid \in BOOLEAN, Bid(bid)
      PROVE  CardsConserved'
  BY <1>2, BidConserves
<1>3. ASSUME NEW cards \in SubHands(hands[currentPlayer]), PlayCards(cards)
      PROVE  CardsConserved'
  BY <1>3, SubHandsTyped, PlayConserves DEF GameInv, TypeOK
<1>4. CASE Pass
  BY <1>4 DEF Pass, cardVars, CardsConserved
<1>5. CASE ResetAfterGame
  BY <1>5 DEF ResetAfterGame, cardVars, CardsConserved
<1>6. CASE UNCHANGED gameVars
  BY <1>6 DEF gameVars, cardVars, CardsConserved
<1> QED
  BY <1>1, <1>2, <1>3, <1>4, <1>5, <1>6 DEF Next

\* Hands, ledger and an untaken bottom make up the deck in every reachable
\* state, whatever the deck, the deals and the plays are.
THEOREM NoCardIsLost == Spec => []CardsConserved
<1>1. Init => CardsConserved
  BY DEF Init, CardsConserved
<1> QED
  BY InitGame, GameStep, CardsStep, <1>1, PTL DEF Spec

-----------------------------------------------------------------------------
(* The move made for a silent seat                                         *)

\* A set of numbers that is not empty has a least one.
LEMMA Least ==
  ASSUME NEW T \in SUBSET Nat, T # {}
  PROVE  \E x \in T : \A y \in T : x <= y
<1> DEFINE R == OpToRel(<, Nat)
<1>1. IsWellFoundedOn(R, Nat)
  BY NatLessThanWellFounded
<1>2. \A x, y \in Nat : << x, y >> \in R <=> x < y
  BY DEF OpToRel
<1> HIDE DEF R
<1>3. \E x \in T : \A y \in T : ~(<< y, x >> \in R)
  BY <1>1, WFMin, Zenon
<1>4. ASSUME NEW x \in T, \A y \in T : ~(<< y, x >> \in R) PROVE \A y \in T : x <= y
 <2> TAKE y \in T
 <2>1. x \in Nat /\ y \in Nat /\ ~(<< y, x >> \in R)
   BY <1>4
 <2>2. ~(y < x)
   BY <1>2, <2>1
 <2> QED BY <2>1, <2>2
<1> QED BY <1>3, <1>4

LEMMA LowestRank ==
  ASSUME NEW T \in SUBSET Rank, T # {}
  PROVE  Min(T) \in T /\ Min(T) \in Nat /\ \A r \in T : Min(T) <= r
<1>1. T \in SUBSET Nat
  BY RankAssumption
<1>2. \E x \in T : \A y \in T : x <= y
  BY <1>1, Least
<1>3. /\ (CHOOSE x \in T : \A y \in T : x =< y) \in T
      /\ \A r \in T : (CHOOSE x \in T : \A y \in T : x =< y) <= r
  BY <1>2
<1> QED BY <1>1, <1>3 DEF Min

\* Hands of at most four cards of a rank.
Hand == [Rank -> 0..4]

LEMMA HandFacts ==
  /\ IsFiniteSet(Rank)
  /\ Hand \subseteq CardSet
  /\ IsFiniteSet(Hand)
  /\ \A h \in Hand : Size(h) \in Nat
  /\ \A h \in Hand : h # NoCards => Size(h) # 0 /\ \E r \in Rank : h[r] > 0
<1>1. IsFiniteSet(Rank)
 <2>1. IsFiniteSet(3..17)
  <3>1. 3 \in Int /\ 17 \in Int
    OBVIOUS
  <3> QED BY <3>1, FS_Interval, Zenon
 <2> QED BY <2>1, RankAssumption, FS_Subset
<1>2. Hand \subseteq CardSet
  BY DEF Hand, CardSet
<1>3. IsFiniteSet(0..4) /\ IsFiniteSet(1..4)
 <2>1. 0 \in Int /\ 1 \in Int /\ 4 \in Int
   OBVIOUS
 <2> QED BY <2>1, FS_Interval, Zenon
<1>4. IsFiniteSet(Rank \X (0..4)) /\ IsFiniteSet(Rank \X (1..4))
  BY <1>1, <1>3, FS_Product
<1>5. IsFiniteSet(Hand)
 <2> DEFINE graph(h) == { << r, h[r] >> : r \in Rank }
            f == [h \in Hand |-> graph(h)]
 <2>1. IsFiniteSet(SUBSET (Rank \X (0..4)))
   BY <1>4, FS_SUBSET
 <2>2. \A h \in Hand : graph(h) \in SUBSET (Rank \X (0..4))
   BY DEF Hand
 <2>3. ASSUME NEW g \in Hand, NEW h \in Hand, graph(g) = graph(h) PROVE g = h
  <3>1. \A r \in Rank : << r, g[r] >> \in graph(h)
    BY <2>3
  <3>2. \A r \in Rank : g[r] = h[r]
    BY <3>1
  <3> QED BY <3>2 DEF Hand
 <2> HIDE DEF graph
 <2>4. f \in Injection(Hand, SUBSET (Rank \X (0..4)))
   BY <2>2, <2>3 DEF Injection, IsInjective
 <2> HIDE DEF f
 <2> QED BY <2>1, <2>4, FS_Injection
<1>6. ASSUME NEW h \in Hand
      PROVE  Size(h) \in Nat /\ (h # NoCards => Size(h) # 0 /\ \E r \in Rank : h[r] > 0)
 <2> DEFINE cards == UNION {{r} \X (1..h[r]) : r \in Rank}
 <2>1. cards \subseteq Rank \X (1..4)
   BY <1>6 DEF Hand
 <2>2. IsFiniteSet(cards)
   BY <1>4, <2>1, FS_Subset
 <2>3. Size(h) = Cardinality(cards)
   BY DEF Size
 <2>4. ASSUME h # NoCards PROVE \E r \in Rank : h[r] > 0 /\ << r, 1 >> \in cards
  <3>1. PICK r \in Rank : h[r] # 0
    BY <2>4 DEF Hand, NoCards
  <3>2. h[r] \in 1..4
    BY <3>1 DEF Hand
  <3> QED BY <3>2
 <2> HIDE DEF cards
 <2>5. Size(h) \in Nat
   BY <2>2, <2>3, FS_CardinalityType
 <2>6. Size(h) = 0 <=> cards = {}
   BY <2>2, <2>3, FS_EmptySet
 <2> QED BY <2>4, <2>5, <2>6
<1> QED BY <1>1, <1>2, <1>5, <1>6

\* Whatever is accepted as a hand has a key rank, and every check that accepts
\* gives a type.
LEMMA ParsedIsHand ==
  ASSUME NEW cards, NEW hand \in FirstReading(AnalyzeCards(cards))
  PROVE  /\ hand.keyRank \in Int
         /\ hand.type = "Invalid" => IsSimpleType(AnalyzeCards(cards)) = {}
<1> DEFINE a == AnalyzeCards(cards)
           Good(h) == h.keyRank \in Int /\ h.type # "Invalid"
<1>1. /\ a.fours \in SUBSET Rank /\ a.trios \in SUBSET Rank
      /\ a.pairs \in SUBSET Rank /\ a.ones \in SUBSET Rank
  BY DEF AnalyzeCards, Times
<1>2. hand \in FirstReading(a)
  OBVIOUS
<1> HIDE DEF a
<1>3. Cardinality({}) = 0
  BY FS_EmptySet
<1>4. \A S \in SUBSET Rank : S # {} => Min(S) \in Int
  BY LowestRank
<1>5. \A h \in IsRocket(a) : Good(h)
  BY DEF IsRocket, When, Parsed, RankRedJoker
<1>6. \A h \in IsBomb(a) : Good(h)
  BY <1>1, <1>3, <1>4 DEF IsBomb, When, Parsed
<1>7. \A h \in IsFourWithKickers(a) : Good(h)
  BY <1>1, <1>3, <1>4 DEF IsFourWithKickers, When, Parsed
<1>8. \A h \in IsTrioWithKickers(a) : Good(h)
  BY <1>1, <1>3, <1>4 DEF IsTrioWithKickers, When, Parsed
<1>9. \A h \in IsPlane(a) : Good(h)
  BY <1>1, <1>4 DEF IsPlane, IsContinuous, When, Parsed
<1>10. \A h \in IsStraight(a) : Good(h)
  BY <1>1, <1>4 DEF IsStraight, IsContinuous, When, Parsed
<1>11. \A h \in IsPairStraight(a) : Good(h)
  BY <1>1, <1>4 DEF IsPairStraight, IsContinuous, When, Parsed
<1>12. \A h \in IsSimpleType(a) : Good(h)
 <2>1. {r \in Rank : a.counts[r] > 0} \in SUBSET Rank
   OBVIOUS
 <2> QED BY <1>3, <1>4, <2>1 DEF IsSimpleType, When, Parsed
<1>13. \/ Good(hand)
       \/ hand = EmptyHand /\ IsSimpleType(a) = {}
  BY <1>2, <1>5, <1>6, <1>7, <1>8, <1>9, <1>10, <1>11, <1>12 DEF FirstReading, OrElse
<1>14. EmptyHand.keyRank \in Int
  BY DEF EmptyHand
<1> QED BY <1>13, <1>14 DEF a

LEMMA ParseHandReads ==
  ASSUME NEW cards
  PROVE  ParseHand(cards) \in FirstReading(AnalyzeCards(cards))
<1> DEFINE readings == UNION {FirstReading(a) : a \in {AnalyzeCards(cards)}}
<1>1. readings = FirstReading(AnalyzeCards(cards))
  OBVIOUS
<1>2. FirstReading(AnalyzeCards(cards)) # {}
  BY DEF FirstReading, OrElse
<1>3. ParseHand(cards) = CHOOSE hand \in readings : TRUE
  BY Zenon DEF ParseHand
<1> HIDE DEF readings
<1> QED BY <1>1, <1>2, <1>3

\* One card is a hand.
LEMMA SingleIsHand ==
  ASSUME NEW x \in Rank
  PROVE  One(x) \in CardSet /\ ~IsEmpty(ParseHand(One(x)))
<1> DEFINE a == AnalyzeCards(One(x))
<1>1. \A r \in Rank : One(x)[r] = IF r = x THEN 1 ELSE 0
  BY DEF One, NoCards
<1>2. UNION {{r} \X (1..One(x)[r]) : r \in Rank} = {<< x, 1 >>}
 <2>1. \A r \in Rank : {r} \X (1..One(x)[r]) = IF r = x THEN {<< x, 1 >>} ELSE {}
   BY <1>1
 <2> QED BY <2>1, Zenon
<1>3. a.size = 1
  BY <1>2, FS_Singleton DEF AnalyzeCards, Size
<1>4. {r \in Rank : a.counts[r] > 0} = {x}
  BY <1>1 DEF AnalyzeCards
<1>5. IsSimpleType(a) # {}
 <2> HIDE DEF a
 <2>1. Cardinality({x}) = 1
   BY FS_Singleton, Zenon
 <2>2. Cardinality({r \in Rank : a.counts[r] > 0}) = 1
   BY <1>4, <2>1
 <2> QED BY <1>3, <2>2 DEF IsSimpleType, When
<1>6. ParseHand(One(x)).type # "Invalid"
  BY <1>5, ParseHandReads, ParsedIsHand
<1>7. One(x) \in CardSet
  BY DEF One, NoCards, CardSet
<1> QED BY <1>6, <1>7 DEF IsEmpty

\* How the code orders the responses to a table.
Priority(c, table) == ResponsePriority(ParseHand(c).type, table)
Key(c) == ParseHand(c).keyRank
HasLower(c, d) == \E x \in Rank : c[x] > d[x] /\ \A y \in Rank : y < x => c[y] = d[y]

LEMMA PrecedesBy ==
  ASSUME NEW c, NEW d, NEW table
  PROVE  Precedes(c, d, table) <=>
           \/ Priority(c, table) < Priority(d, table)
           \/ Priority(c, table) = Priority(d, table) /\ Key(c) < Key(d)
           \/ /\ Priority(c, table) = Priority(d, table) /\ Key(c) = Key(d)
              /\ Size(c) < Size(d)
           \/ /\ Priority(c, table) = Priority(d, table) /\ Key(c) = Key(d)
              /\ Size(c) = Size(d) /\ HasLower(c, d)
  BY DEF Precedes, Priority, Key, HasLower

LEMMA OrderTyped ==
  ASSUME NEW c \in Hand, NEW table, ~IsEmpty(table)
  PROVE  Priority(c, table) \in Int /\ Key(c) \in Int /\ Size(c) \in Int
<1>1. Priority(c, table) \in Int
  BY DEF Priority, ResponsePriority, BeatingResponsePriority
<1>2. Key(c) \in Int
  BY ParseHandReads, ParsedIsHand DEF Key
<1>3. Size(c) \in Int
  BY HandFacts
<1> QED BY <1>1, <1>2, <1>3

LEMMA LowerIsTotal ==
  ASSUME NEW c \in Hand, NEW d \in Hand, c # d
  PROVE  HasLower(c, d) \/ HasLower(d, c)
<1> DEFINE T == {r \in Rank : c[r] # d[r]}
<1>1. T \in SUBSET Nat
 <2>1. Rank \subseteq Nat
   BY RankAssumption
 <2> QED BY <2>1
<1>2. T # {}
  BY DEF Hand
<1>3. PICK x \in T : \A y \in T : x <= y
 <2> HIDE DEF T
 <2> QED BY <1>1, <1>2, Least
<1>4. \A y \in Rank : y < x => c[y] = d[y]
  BY <1>3, RankAssumption
<1>5. c[x] \in Int /\ d[x] \in Int /\ c[x] # d[x] /\ x \in Rank
  BY DEF Hand
<1>6. c[x] > d[x] \/ d[x] > c[x]
  BY <1>5
<1> QED BY <1>4, <1>5, <1>6 DEF HasLower

LEMMA LowerIsTransitive ==
  ASSUME NEW c \in Hand, NEW d \in Hand, NEW e \in Hand, HasLower(c, d), HasLower(d, e)
  PROVE  HasLower(c, e)
<1>1. PICK x \in Rank : c[x] > d[x] /\ \A y \in Rank : y < x => c[y] = d[y]
  BY DEF HasLower
<1>2. PICK z \in Rank : d[z] > e[z] /\ \A y \in Rank : y < z => d[y] = e[y]
  BY DEF HasLower
<1>3. \A r \in Rank : r \in Int /\ c[r] \in Int /\ d[r] \in Int /\ e[r] \in Int
  BY RankAssumption DEF Hand
<1>4. CASE x < z
 <2>1. c[x] > e[x]
   BY <1>1, <1>2, <1>4
 <2>2. \A y \in Rank : y < x => c[y] = e[y]
   BY <1>1, <1>2, <1>3, <1>4
 <2> QED BY <2>1, <2>2 DEF HasLower
<1>5. CASE x >= z
 <2>1. c[z] > e[z]
   BY <1>1, <1>2, <1>3, <1>5
 <2>2. \A y \in Rank : y < z => c[y] = e[y]
   BY <1>1, <1>2, <1>3, <1>5
 <2> QED BY <2>1, <2>2 DEF HasLower
<1> QED BY <1>3, <1>4, <1>5

LEMMA PrecedesOrders ==
  ASSUME NEW table, ~IsEmpty(table)
  PROVE  /\ \A c, d \in Hand : c # d => Precedes(c, d, table) \/ Precedes(d, c, table)
         /\ \A c, d, e \in Hand :
              Precedes(c, d, table) /\ Precedes(d, e, table) => Precedes(c, e, table)
<1>1. ASSUME NEW c \in Hand, NEW d \in Hand, c # d
      PROVE  Precedes(c, d, table) \/ Precedes(d, c, table)
  BY <1>1, OrderTyped, LowerIsTotal, PrecedesBy
<1>2. ASSUME NEW c \in Hand, NEW d \in Hand, NEW e \in Hand,
             Precedes(c, d, table), Precedes(d, e, table)
      PROVE  Precedes(c, e, table)
 <2>1. /\ Priority(c, table) \in Int /\ Key(c) \in Int /\ Size(c) \in Int
       /\ Priority(d, table) \in Int /\ Key(d) \in Int /\ Size(d) \in Int
       /\ Priority(e, table) \in Int /\ Key(e) \in Int /\ Size(e) \in Int
   BY OrderTyped
 <2>2. HasLower(c, d) /\ HasLower(d, e) => HasLower(c, e)
   BY LowerIsTransitive
 <2> QED BY <1>2, <2>1, <2>2, PrecedesBy
<1> QED BY <1>1, <1>2

\* Some candidate comes first, among however many there are.
LEMMA WeakestResponse ==
  ASSUME NEW table, ~IsEmpty(table), NEW legal \in SUBSET Hand, legal # {}
  PROVE  \E c \in legal : \A d \in legal \ {c} : Precedes(c, d, table)
<1> DEFINE HasFirst(T) == \E c \in T : \A d \in T \ {c} : Precedes(c, d, table)
           Without == {n \in Nat : \E T \in SUBSET Hand :
                         T # {} /\ Cardinality(T) = n /\ ~HasFirst(T)}
<1>1. \A T \in SUBSET Hand : IsFiniteSet(T)
  BY HandFacts, FS_Subset
<1>2. \A T \in SUBSET Hand : Cardinality(T) \in Nat
  BY <1>1, FS_CardinalityType
<1> SUFFICES ASSUME ~HasFirst(legal) PROVE FALSE
  OBVIOUS
<1>3. Cardinality(legal) \in Without
  BY <1>2
<1>4. PICK n \in Without : \A m \in Without : n <= m
 <2>1. Without \in SUBSET Nat /\ Without # {}
   BY <1>3
 <2> HIDE DEF Without
 <2> QED BY <2>1, Least
<1>5. PICK T \in SUBSET Hand : T # {} /\ Cardinality(T) = n /\ ~HasFirst(T)
  OBVIOUS
<1>6. PICK e \in T : TRUE
  BY <1>5
<1> DEFINE rest == T \ {e}
<1>7. rest \in SUBSET Hand /\ Cardinality(rest) = n - 1
  BY <1>1, <1>5, <1>6, FS_RemoveElement
<1>8. rest # {}
 <2> SUFFICES ASSUME rest = {} PROVE FALSE
   OBVIOUS
 <2>1. \A d \in T \ {e} : Precedes(e, d, table)
   OBVIOUS
 <2> QED BY <1>5, <1>6, <2>1
<1>9. n - 1 \notin Without
 <2>1. n \in Nat
   OBVIOUS
 <2> HIDE DEF Without
 <2> QED BY <1>4, <2>1
<1>10. HasFirst(rest)
 <2>1. n - 1 \in Nat
   BY <1>2, <1>7
 <2> HIDE DEF HasFirst, rest
 <2> QED BY <1>7, <1>8, <1>9, <2>1
<1>11. PICK m \in rest : \A d \in rest \ {m} : Precedes(m, d, table)
  BY <1>10
<1>12. m \in Hand /\ e \in Hand /\ m # e /\ m \in T /\ T \in SUBSET Hand
  BY <1>6, <1>11
<1>13. CASE Precedes(m, e, table)
 <2>1. \A d \in T \ {m} : Precedes(m, d, table)
   BY <1>11, <1>13
 <2> QED BY <1>5, <1>12, <2>1
<1>14. CASE Precedes(e, m, table)
 <2>1. ASSUME NEW d \in T \ {e} PROVE Precedes(e, d, table)
  <3>1. CASE d = m
    BY <1>14, <3>1
  <3>2. CASE d # m
   <4>1. Precedes(m, d, table) /\ d \in Hand
     BY <1>11, <1>12, <2>1, <3>2
   <4> QED BY <1>12, <1>14, <4>1, PrecedesOrders
  <3> QED BY <3>1, <3>2
 <2> QED BY <1>5, <1>6, <2>1
<1> QED BY <1>12, <1>13, <1>14, PrecedesOrders

\* Nobody is out of cards while seats are asked, what lies on the table is a
\* hand, and the one who is out in the end is the winner.
HeldInv ==
  /\ state \in {"Bidding", "Playing"} => \A s \in Seat : hands[s] # NoCards
  /\ lastPlayedHand # NoCards => ~IsEmpty(ParseHand(lastPlayedHand))
  /\ state = "Ended" => {s \in Seat : hands[s] = NoCards} = {settlement.winner}

LEMMA NothingHasNoSize == Size(NoCards) = 0
<1>1. UNION {{r} \X (1..NoCards[r]) : r \in Rank} = {}
  BY DEF NoCards
<1> QED
  BY <1>1, FS_EmptySet DEF Size

LEMMA DealtHandsAreHeld ==
  ASSUME NEW d \in Deals, NEW s \in Seat
  PROVE  d[s] # NoCards
  BY HandSizeAssumption, NothingHasNoSize

LEMMA MoreCardsAreHeld ==
  ASSUME NEW a \in CardSet, NEW b \in CardSet, a # NoCards
  PROVE  Plus(a, b) # NoCards
<1>1. PICK r \in Rank : a[r] # 0
  BY DEF CardSet, NoCards
<1>2. a[r] \in Nat /\ b[r] \in Nat
  BY DEF CardSet
<1>3. Plus(a, b)[r] # 0
  BY <1>1, <1>2 DEF Plus
<1> QED
  BY <1>3 DEF NoCards

LEMMA LandlordHoldsCards ==
  ASSUME NEW idx \in Seat, NEW dealt \in [Seat -> CardSet],
         NEW bottom \in CardSet, NEW flags,
         SetLandlord(idx, dealt, bottom, flags),
         \A s \in Seat : dealt[s] # NoCards
  PROVE  state' = "Playing" /\ \A s \in Seat : hands'[s] # NoCards
<1>1. state' = "Playing" /\ hands' = [dealt EXCEPT ![idx] = Plus(@, bottom)]
  BY DEF SetLandlord, WithBottom
<1>2. ASSUME NEW s \in Seat PROVE hands'[s] # NoCards
 <2>1. CASE s = idx
   BY <1>1, <2>1, MoreCardsAreHeld
 <2>2. CASE s # idx
   BY <1>1, <2>2
 <2> QED BY <2>1, <2>2
<1> QED BY <1>1, <1>2

LEMMA BidKeepsHeld ==
  ASSUME GameInv, RoundInv, HeldInv, NEW bid \in BOOLEAN, Bid(bid)
  PROVE  HeldInv'
<1>1. state = "Bidding" /\ lastPlayedHand = NoCards
  BY DEF Bid, RoundInv, TableClear
<1>2. ASSUME NEW seat, AskToBid(seat)
      PROVE  HeldInv'
  BY <1>1, <1>2 DEF AskToBid, cardVars, playVars, HeldInv
<1>3. CASE StartBiddingRound
 <2>1. PICK d \in Deals : hands' = d
   BY <1>3 DEF StartBiddingRound
 <2>2. state' = "Bidding" /\ lastPlayedHand' = NoCards
   BY <1>3 DEF StartBiddingRound, DealNewRound
 <2> QED BY <2>1, <2>2, DealtHandsAreHeld DEF HeldInv
<1>4. ASSUME NEW d \in Deals, NEW idx \in RandomSeats, DealNewRound(d),
             SetLandlord(idx, d, Bottom(d), [s \in Seat |-> FALSE])
      PROVE  HeldInv'
 <2>1. idx \in Seat /\ lastPlayedHand' = NoCards
   BY <1>4, RandomSeatsAssumption DEF DealNewRound
 <2>2. d \in [Seat -> CardSet] /\ Bottom(d) \in CardSet
   BY DealTyped
 <2>3. \A s \in Seat : d[s] # NoCards
   BY DealtHandsAreHeld
 <2>4. state' = "Playing" /\ \A s \in Seat : hands'[s] # NoCards
   BY <1>4, <2>1, <2>2, <2>3, LandlordHoldsCards
 <2> QED BY <2>1, <2>4 DEF HeldInv
<1>5. CASE landlordCaller # NoSeat /\ Grab(bid)
 <2>1. CASE AskToBid(NextGrabber(currentBidder, StandingCandidate(bid)))
   BY <1>2, <2>1
 <2>2. CASE SetLandlord(StandingCandidate(bid), hands, bottomCards, isLandlord)
            /\ UNCHANGED lastPlayedHand
  <3>1. StandingCandidate(bid) \in Seat
    BY <1>1, <1>5 DEF StandingCandidate, GameInv, TypeOK, AuctionBounds
  <3>2. hands \in [Seat -> CardSet] /\ bottomCards \in CardSet
    BY DEF GameInv, TypeOK
  <3>3. \A s \in Seat : hands[s] # NoCards
    BY <1>1 DEF HeldInv
  <3>4. state' = "Playing" /\ \A s \in Seat : hands'[s] # NoCards
    BY <2>2, <3>1, <3>2, <3>3, LandlordHoldsCards
  <3> QED BY <1>1, <2>2, <3>4 DEF HeldInv
 <2> QED BY <1>5, <2>1, <2>2 DEF Grab
<1>6. CASE Call
  BY <1>2, <1>6 DEF Call
<1>7. CASE NoCall
  BY <1>2, <1>3, <1>4, <1>7 DEF NoCall, Redeal
<1> QED BY <1>5, <1>6, <1>7 DEF Bid

LEMMA PlayKeepsHeld ==
  ASSUME GameInv, HeldInv, NEW cards \in CardSet, PlayCards(cards)
  PROVE  HeldInv'
<1> DEFINE mine == Minus(hands[currentPlayer], cards)
<1>1. /\ state = "Playing" /\ lastPlayedHand' = cards
      /\ ~IsEmpty(ParseHand(cards))
      /\ hands' = [hands EXCEPT ![currentPlayer] = mine]
      /\ mine = NoCards => state' = "Ended" /\ settlement'.winner = currentPlayer
      /\ mine # NoCards => state' = "Playing"
  BY DEF PlayCards, AcceptsPlay, EndGame
<1>2. currentPlayer \in Seat /\ hands \in [Seat -> CardSet]
  BY DEF GameInv, TypeOK
<1> HIDE DEF mine
<1>3. \A s \in Seat : hands'[s] = IF s = currentPlayer THEN mine ELSE hands[s]
  BY <1>1, <1>2
<1>4. \A s \in Seat : hands[s] # NoCards
  BY <1>1 DEF HeldInv
<1>5. CASE mine = NoCards
 <2>1. {s \in Seat : hands'[s] = NoCards} = {currentPlayer}
   BY <1>2, <1>3, <1>4, <1>5
 <2> QED BY <1>1, <1>5, <2>1 DEF HeldInv
<1>6. CASE mine # NoCards
 <2>1. \A s \in Seat : hands'[s] # NoCards
   BY <1>3, <1>4, <1>6
 <2> QED BY <1>1, <1>6, <2>1 DEF HeldInv
<1> QED BY <1>5, <1>6

LEMMA HeldStep ==
  ASSUME GameInv, RoundInv, HeldInv, [Next]_gameVars
  PROVE  HeldInv'
<1>1. CASE Start
 <2>1. PICK d \in Deals : hands' = d
   BY <1>1 DEF Start, StartBiddingRound
 <2>2. state' = "Bidding" /\ lastPlayedHand' = NoCards
   BY <1>1 DEF Start, StartBiddingRound, DealNewRound
 <2> QED BY <2>1, <2>2, DealtHandsAreHeld DEF HeldInv
<1>2. ASSUME NEW bid \in BOOLEAN, Bid(bid)
      PROVE  HeldInv'
  BY <1>2, BidKeepsHeld
<1>3. ASSUME NEW cards \in SubHands(hands[currentPlayer]), PlayCards(cards)
      PROVE  HeldInv'
 <2>1. cards \in CardSet
   BY <1>3 DEF PlayCards, AcceptsPlay
 <2> QED BY <1>3, <2>1, PlayKeepsHeld
<1>4. CASE Pass
  BY <1>4 DEF Pass, AskToPlay, cardVars, HeldInv
<1>5. CASE ResetAfterGame
  BY <1>5 DEF ResetAfterGame, cardVars, playVars, tallyVars, HeldInv
<1>6. CASE UNCHANGED gameVars
  BY <1>6 DEF gameVars, cardVars, playVars, tallyVars, HeldInv
<1> QED
  BY <1>1, <1>2, <1>3, <1>4, <1>5, <1>6 DEF Next

\* What is selected from a hand is held.
LEMMA SelectionIsHeld ==
  ASSUME NEW hand \in Hand, NEW cards \in SubHands(hand)
  PROVE  cards \in Hand /\ Contains(hand, cards)
<1> DEFINE held == {r \in Rank : hand[r] > 0}
           most == IF held = {} THEN 0 ELSE Max({hand[r] : r \in held})
<1>1. PICK c \in [held -> 0..most] :
        /\ \A r \in held : c[r] <= hand[r]
        /\ cards = [r \in Rank |-> IF r \in held THEN c[r] ELSE 0]
  BY DEF SubHands
<1>2. ASSUME NEW n, NEW i \in 0..n
      PROVE  i \in Nat
  OBVIOUS
<1>3. \A r \in Rank : hand[r] \in 0..4
  BY DEF Hand
<1> HIDE DEF held, most
<1>4. \A r \in held : c[r] \in Nat /\ c[r] <= hand[r]
  BY <1>1, <1>2
<1>5. \A r \in Rank : cards[r] \in 0..4 /\ cards[r] <= hand[r]
  BY <1>1, <1>3, <1>4
<1> QED BY <1>1, <1>5 DEF Hand, Contains

\* The lowest card of a hand can be led.
LEMMA LowestIsHeld ==
  ASSUME NEW hand \in Hand, hand # NoCards
  PROVE  \E x \in Rank : /\ One(Min({r \in Rank : hand[r] > 0})) = One(x)
                         /\ Contains(hand, One(x))
<1> DEFINE held == {r \in Rank : hand[r] > 0}
<1>1. held \in SUBSET Rank /\ held # {}
  BY HandFacts
<1>2. Min(held) \in held
 <2> HIDE DEF held
 <2> QED BY <1>1, LowestRank
<1>3. Min(held) \in Rank /\ hand[Min(held)] > 0
  BY <1>2
<1> HIDE DEF held
<1>4. \A r \in Rank : One(Min(held))[r] = IF r = Min(held) THEN 1 ELSE 0
  BY DEF One, NoCards
<1>5. \A r \in Rank : hand[r] \in Int /\ hand[r] >= 0
  BY DEF Hand
<1>6. Contains(hand, One(Min(held)))
  BY <1>3, <1>4, <1>5 DEF Contains
<1> QED BY <1>3, <1>6 DEF held

\* A card is never in a hand more often than in the deck.
LEMMA HandsWithinDeck ==
  ASSUME TypeOK, CardsConserved, state = "Playing", NEW s \in Seat
  PROVE  hands[s] \in [Rank -> 0..4]
<1>1. ASSUME NEW r \in Rank
      PROVE  hands[s][r] \in 0..4
 <2>1. /\ hands[0][r] \in Nat /\ hands[1][r] \in Nat /\ hands[2][r] \in Nat
       /\ playedCards[0][r] \in Nat /\ playedCards[1][r] \in Nat
       /\ playedCards[2][r] \in Nat
   BY CardsTyped
 <2>2. hands[0][r] + hands[1][r] + hands[2][r] + playedCards[0][r]
         + playedCards[1][r] + playedCards[2][r] + 0 = Deck[r]
   BY DEF CardsConserved
 <2>3. Deck[r] \in 0..4
   BY DeckAssumption
 <2>4. hands[0][r] <= 4 /\ hands[1][r] <= 4 /\ hands[2][r] <= 4
   BY <2>1, <2>2, <2>3
 <2> QED
   BY <2>1, <2>4 DEF Seat
<1> QED
  BY <1>1 DEF TypeOK, CardSet

LEMMA TimeoutMoveIsLegal ==
  ASSUME GameInv, CardsConserved, RoundInv, HeldInv
  PROVE  TimeoutMoveAccepted
<1> SUFFICES ASSUME state = "Playing"
             PROVE  TimeoutMoveAccepted
  BY DEF TimeoutMoveAccepted
<1> DEFINE mine == hands[currentPlayer]
           auto == FindSmallestBeatingCards(mine, lastPlayedHand)
           low  == One(Min({r \in Rank : mine[r] > 0}))
           table == ParseHand(lastPlayedHand)
           legal == ListLegalResponses(mine, lastPlayedHand)
<1>1. mine \in Hand /\ mine # NoCards
 <2>1. currentPlayer \in Seat /\ TypeOK
   BY DEF GameInv, TypeOK
 <2> QED BY <2>1, HandsWithinDeck DEF Hand, HeldInv
<1>2. MustPlay <=> lastPlayedHand = NoCards
 <2>1. currentPlayer \in Seat /\ consecutivePasses \in 0..1
   BY DEF GameInv, TypeOK
 <2>2. lastPlayedHand # NoCards => lastPlayerIdx # currentPlayer
   BY <2>1 DEF RoundInv, RoundShape, Seat
 <2> QED BY <2>2 DEF MustPlay, RoundInv, RoundShape
<1>3. IsEmpty(table) <=> lastPlayedHand = NoCards
  BY NoCardsAreNoHand DEF HeldInv
<1>4. low \in CardSet /\ Contains(mine, low) /\ ~IsEmpty(ParseHand(low))
 <2> HIDE DEF mine
 <2> QED BY <1>1, LowestIsHeld, SingleIsHand
<1>5. MustPlay => AcceptsPlay(low)
  BY <1>4 DEF AcceptsPlay
<1>6. CASE lastPlayedHand = NoCards
 <2>1. auto = low
   BY <1>1, <1>3, <1>6, HandFacts DEF FindSmallestBeatingCards
 <2>2. AcceptsPlay(auto)
   BY <1>2, <1>5, <1>6, <2>1
 <2>3. auto # NoCards
   BY <1>4, <2>1, NoCardsAreNoHand
 <2> QED BY <1>5, <2>2, <2>3 DEF TimeoutMoveAccepted
<1>7. CASE lastPlayedHand # NoCards
 <2>1. ~MustPlay /\ ~IsEmpty(table)
   BY <1>2, <1>3, <1>7
 <2>2. CASE legal = {}
  <3>1. auto = NoCards
    BY <1>1, <2>1, <2>2, HandFacts DEF FindSmallestBeatingCards
  <3> QED BY <2>1, <3>1 DEF TimeoutMoveAccepted
 <2>3. CASE legal # {}
  <3>1. /\ legal \in SUBSET Hand
        /\ \A c \in legal : /\ Contains(mine, c) /\ ~IsEmpty(ParseHand(c))
                            /\ CanBeat(ParseHand(c), table)
   <4>1. \A c \in legal : /\ c \in SubHands(mine) /\ ~IsEmpty(ParseHand(c))
                          /\ CanBeat(ParseHand(c), table)
     BY <2>1 DEF ListLegalResponses
   <4> HIDE DEF mine, legal, table
   <4> QED BY <1>1, <4>1, SelectionIsHeld
  <3>2. \E c \in legal : \A d \in legal \ {c} : Precedes(c, d, table)
   <4> HIDE DEF legal, table
   <4> QED BY <2>1, <2>3, <3>1, WeakestResponse
  <3>3. auto = CHOOSE c \in legal : \A d \in legal \ {c} : Precedes(c, d, table)
    BY <1>1, <2>1, <2>3, HandFacts DEF FindSmallestBeatingCards
  <3>4. auto \in legal
   <4> HIDE DEF legal, table, auto
   <4> QED BY <3>2, <3>3
  <3>5. AcceptsPlay(auto)
   <4> HIDE DEF auto, legal
   <4> QED BY <3>1, <3>4, HandFacts DEF AcceptsPlay, Beats
  <3> QED BY <2>1, <3>5 DEF TimeoutMoveAccepted
 <2> QED BY <2>2, <2>3
<1> QED BY <1>6, <1>7

\* The move that ends the turn of a silent seat is one that the session's own
\* validation accepts (timer.go:45-71 and 272-277), whatever the deck: the
\* weakest response exists whenever there is a legal one, it is held and beats
\* the table, and without one the seat may pass.
THEOREM SilentSeatsCanBePlayed == Spec => []TimeoutMoveAccepted
<1>1. Init => RoundInv /\ CardsConserved /\ HeldInv
  BY DEF Init, RoundInv, TableClear, RoundShape, CardsConserved, HeldInv
<1>2. GameInv /\ RoundInv /\ CardsConserved /\ HeldInv /\ [Next]_gameVars
        => RoundInv' /\ CardsConserved' /\ HeldInv'
  BY RoundStep, CardsStep, HeldStep
<1> QED
  BY InitGame, GameStep, TimeoutMoveIsLegal, <1>1, <1>2, PTL DEF Spec

-----------------------------------------------------------------------------
(* The settlement                                                          *)

\* There are 2^n sets of numbers up to n, so that 2^n is a positive number.
LEMMA PowerOfTwo ==
  ASSUME NEW n \in Nat
  PROVE  2 ^ n \in Nat \ {0}
<1>1. IsFiniteSet(1..n) /\ Cardinality(1..n) = n
 <2>1. 1 \in Int /\ n \in Int
   OBVIOUS
 <2>2. IsFiniteSet(1..n) /\ Cardinality(1..n) = IF 1 > n THEN 0 ELSE n - 1 + 1
   BY <2>1, FS_Interval, Zenon
 <2> QED BY <2>2
<1>2. IsFiniteSet(SUBSET (1..n)) /\ Cardinality(SUBSET (1..n)) = 2 ^ Cardinality(1..n)
  BY <1>1, FS_SUBSET, Zenon
<1>3. Cardinality(SUBSET (1..n)) = 2 ^ n
  BY <1>1, <1>2, Zenon
<1>4. Cardinality(SUBSET (1..n)) \in Nat
  BY <1>2, FS_CardinalityType, Zenon
<1>5. {} \in SUBSET (1..n)
  OBVIOUS
<1>6. Cardinality(SUBSET (1..n)) # 0
  BY <1>2, <1>5, FS_EmptySet, Zenon
<1>7. Cardinality(SUBSET (1..n)) \in Nat \ {0}
  BY <1>4, <1>6, Zenon
<1> QED BY <1>3, <1>7, Zenon

\* The counters of plays agree with the public ledger, and a settlement is the
\* one of the final state.
FarmersQuiet == \A s \in Seat : ~isLandlord[s] => playedCards[s] = NoCards
Multiplier(w) == FinalMultiplier(w, bombCount, landlordPlays, farmerPlays)
SettledInv ==
  /\ state = "Bidding" => farmerPlays = 0 /\ \A s \in Seat : playedCards[s] = NoCards
  /\ state \in {"Playing", "Ended"} => (farmerPlays = 0 <=> FarmersQuiet)
  /\ state = "Ended" =>
       \E w \in Seat :
         settlement = [winner |-> w, multiplier |-> Multiplier(w),
                       scores |-> [s \in Seat |-> Score(s, w, Multiplier(w))]]

LEMMA DealSettlesNothing ==
  ASSUME NEW d \in Deals, DealNewRound(d)
  PROVE  farmerPlays' = 0 /\ \A s \in Seat : playedCards'[s] = NoCards
  BY DEF DealNewRound

LEMMA BidKeepsSettled ==
  ASSUME GameInv, SettledInv, NEW bid \in BOOLEAN, Bid(bid)
  PROVE  SettledInv'
<1>1. state = "Bidding" /\ farmerPlays = 0 /\ \A s \in Seat : playedCards[s] = NoCards
  BY DEF Bid, SettledInv
<1>2. state' \in {"Bidding", "Playing"}
  BY <1>1 DEF Bid, Call, NoCall, Grab, Redeal, StartBiddingRound, SetLandlord, AskToBid
<1>3. farmerPlays' = 0 /\ \A s \in Seat : playedCards'[s] = NoCards
 <2>1. ASSUME NEW seat, AskToBid(seat)
       PROVE  farmerPlays' = 0 /\ \A s \in Seat : playedCards'[s] = NoCards
   BY <1>1, <2>1 DEF AskToBid, cardVars, tallyVars
 <2>2. CASE landlordCaller # NoSeat /\ Grab(bid)
   BY <1>1, <2>1, <2>2 DEF Grab, tallyVars
 <2>3. CASE Call
   BY <2>1, <2>3 DEF Call
 <2>4. CASE NoCall
  <3>1. CASE StartBiddingRound
    BY <3>1, DealSettlesNothing DEF StartBiddingRound
  <3>2. CASE \E d \in Deals : DealNewRound(d)
    BY <3>2, DealSettlesNothing
  <3> QED BY <2>1, <2>4, <3>1, <3>2 DEF NoCall, Redeal
 <2> QED BY <2>2, <2>3, <2>4 DEF Bid
<1> QED BY <1>2, <1>3 DEF SettledInv, FarmersQuiet

LEMMA PlayKeepsSettled ==
  ASSUME GameInv, SettledInv, NEW cards \in CardSet, PlayCards(cards)
  PROVE  SettledInv'
<1>1. /\ state = "Playing" /\ cards # NoCards /\ isLandlord' = isLandlord
      /\ farmerPlays' = farmerPlays + (IF isLandlord[currentPlayer] THEN 0 ELSE 1)
      /\ playedCards' = [playedCards EXCEPT ![currentPlayer] = Plus(@, cards)]
      /\ state' \in {"Playing", "Ended"}
  BY NoCardsAreNoHand DEF PlayCards, AcceptsPlay, EndGame
<1>2. /\ currentPlayer \in Seat /\ farmerPlays \in Nat
      /\ playedCards \in [Seat -> CardSet] /\ isLandlord \in [Seat -> BOOLEAN]
  BY DEF GameInv, TypeOK
<1>3. \A s \in Seat : playedCards'[s] = IF s = currentPlayer THEN Plus(playedCards[s], cards)
                                        ELSE playedCards[s]
  BY <1>1, <1>2
<1>4. Plus(playedCards[currentPlayer], cards) # NoCards
 <2>1. Plus(playedCards[currentPlayer], cards) = Plus(cards, playedCards[currentPlayer])
   BY <1>2 DEF Plus, CardSet
 <2> QED BY <1>1, <1>2, <2>1, MoreCardsAreHeld
<1>5. farmerPlays' = 0 <=> FarmersQuiet'
 <2>1. farmerPlays = 0 <=> FarmersQuiet
   BY <1>1 DEF SettledInv
 <2>2. CASE isLandlord[currentPlayer]
   BY <1>1, <1>2, <1>3, <2>1, <2>2 DEF FarmersQuiet
 <2>3. CASE ~isLandlord[currentPlayer]
  <3>1. farmerPlays' # 0
    BY <1>1, <1>2, <2>3
  <3>2. ~FarmersQuiet'
    BY <1>1, <1>2, <1>3, <1>4, <2>3 DEF FarmersQuiet
  <3> QED BY <3>1, <3>2
 <2> QED BY <2>2, <2>3
<1>6. ASSUME state' = "Ended"
      PROVE  \E w \in Seat :
               settlement' = [winner |-> w, multiplier |-> Multiplier(w)',
                              scores |-> [s \in Seat |-> Score(s, w, Multiplier(w))']]
 <2>1. PICK w \in Seat : w = currentPlayer
   BY <1>2
 <2>2. EndGame(w, FinalMultiplier(w, bombCount', landlordPlays', farmerPlays'))
   BY <1>1, <1>6, <2>1 DEF PlayCards
 <2>3. UNCHANGED << bidMultiplier, isLandlord >>
   BY DEF PlayCards, bidVars
 <2>4. Multiplier(w)' = FinalMultiplier(w, bombCount', landlordPlays', farmerPlays')
   BY <2>3 DEF Multiplier, FinalMultiplier, IsSpring
 <2>5. \A s \in Seat : Score(s, w, Multiplier(w)') = Score(s, w, Multiplier(w))'
   BY <2>3 DEF Score
 <2> QED BY <2>2, <2>4, <2>5 DEF EndGame
<1> QED BY <1>1, <1>5, <1>6 DEF SettledInv

LEMMA SettledStep ==
  ASSUME GameInv, SettledInv, [Next]_gameVars
  PROVE  SettledInv'
<1>1. CASE Start
 <2>1. PICK d \in Deals : DealNewRound(d)
   BY <1>1 DEF Start, StartBiddingRound
 <2>2. state' = "Bidding"
   BY <1>1 DEF Start, StartBiddingRound
 <2> QED BY <2>1, <2>2, DealSettlesNothing DEF SettledInv
<1>2. ASSUME NEW bid \in BOOLEAN, Bid(bid)
      PROVE  SettledInv'
  BY <1>2, BidKeepsSettled
<1>3. ASSUME NEW cards \in SubHands(hands[currentPlayer]), PlayCards(cards)
      PROVE  SettledInv'
 <2>1. cards \in CardSet
   BY <1>3 DEF PlayCards, AcceptsPlay
 <2> QED BY <1>3, <2>1, PlayKeepsSettled
<1>4. CASE Pass \/ ResetAfterGame \/ UNCHANGED gameVars
 <2>1. UNCHANGED << state, cardVars, bidVars, tallyVars >>
   BY <1>4 DEF Pass, ResetAfterGame, gameVars
 <2> QED
   BY <2>1
   DEF cardVars, bidVars, tallyVars, SettledInv, FarmersQuiet, Multiplier,
       FinalMultiplier, IsSpring, Score
<1> QED
  BY <1>1, <1>2, <1>3, <1>4 DEF Next

LEMMA SettledMeansFair ==
  ASSUME GameInv, LandlordAgrees, HeldInv, SettledInv
  PROVE  SettlementIsFair
<1> SUFFICES ASSUME state = "Ended"
             PROVE  SettlementIsFair
  BY DEF SettlementIsFair
<1>1. PICK w \in Seat :
        settlement = [winner |-> w, multiplier |-> Multiplier(w),
                      scores |-> [s \in Seat |-> Score(s, w, Multiplier(w))]]
  BY DEF SettledInv
<1>2. PICK landlord \in Seat : \A s \in Seat : isLandlord[s] <=> s = landlord
  BY DEF LandlordAgrees
<1>3. /\ bidMultiplier \in Nat \ {0} /\ bombCount \in Nat
      /\ isLandlord \in [Seat -> BOOLEAN]
  BY DEF GameInv, TypeOK
<1> DEFINE spring == IF isLandlord[w] THEN \A s \in Seat \ {w} : playedCards[s] = NoCards
                     ELSE landlordPlays = 1
<1>4. spring <=> IsSpring(w, landlordPlays, farmerPlays)
 <2>1. CASE isLandlord[w]
  <3>1. farmerPlays = 0 <=> FarmersQuiet
    BY DEF SettledInv
  <3>2. \A s \in Seat : ~isLandlord[s] <=> s \in Seat \ {w}
    BY <1>2, <2>1
  <3> QED BY <2>1, <3>1, <3>2 DEF IsSpring, FarmersQuiet
 <2>2. CASE ~isLandlord[w]
   BY <2>2 DEF IsSpring
 <2> QED BY <2>1, <2>2
<1>5. PICK p \in Nat \ {0} : p = 2 ^ bombCount
  BY <1>3, PowerOfTwo
<1>6. PICK m \in Nat \ {0} : m = Multiplier(w)
 <2>1. Multiplier(w) = bidMultiplier * p * (IF IsSpring(w, landlordPlays, farmerPlays) THEN 2 ELSE 1)
   BY <1>3, <1>5 DEF Multiplier, FinalMultiplier
 <2>2. bidMultiplier * p \in Nat \ {0}
   BY <1>3
 <2> QED BY <2>1, <2>2
<1>7. settlement.multiplier = bidMultiplier * 2 ^ bombCount * (IF spring THEN 2 ELSE 1)
 <2>1. settlement.multiplier = Multiplier(w)
   BY <1>1
 <2>2. (IF bidMultiplier > 1 THEN bidMultiplier ELSE 1) = bidMultiplier
   BY <1>3
 <2> HIDE DEF spring
 <2> QED BY <1>4, <2>1, <2>2 DEF Multiplier, FinalMultiplier
<1>8. \A s \in Seat : settlement.scores[s] = Score(s, w, m)
  BY <1>1, <1>6
<1>9. settlement.scores[0] + settlement.scores[1] + settlement.scores[2] = 0
  BY <1>2, <1>3, <1>8 DEF Score, Seat
<1>10. \A s \in Seat : settlement.scores[s] > 0 <=> isLandlord[s] = isLandlord[w]
 <2> TAKE s \in Seat
 <2>1. isLandlord[s] \in BOOLEAN /\ isLandlord[w] \in BOOLEAN
   BY <1>3
 <2>2. (isLandlord[s] <=> s = landlord) /\ (isLandlord[w] <=> w = landlord)
   BY <1>2
 <2>3. Score(s, w, m) > 0 <=> (isLandlord[s] <=> isLandlord[w])
   BY <1>2 DEF Score
 <2> QED BY <1>8, <2>1, <2>3
<1>11. {s \in Seat : hands[s] = NoCards} = {w}
  BY <1>1 DEF HeldInv
<1>12. settlement.winner = w
  BY <1>1
<1> QED
  BY <1>7, <1>9, <1>10, <1>11, <1>12 DEF SettlementIsFair

\* A finished game is settled as its moves have earned it (endGame,
\* finalMultiplier and computeScores, lifecycle.go:177-262): one seat is out of
\* cards, the points are a zero-sum transfer to its side, and the springs agree
\* with the public ledger.
THEOREM SettlementsAreFair == Spec => []SettlementIsFair
<1>1. Init => RoundInv /\ LandlordAgrees /\ HeldInv /\ SettledInv
  BY DEF Init, RoundInv, TableClear, RoundShape, LandlordAgrees, HeldInv, SettledInv
<1>2. GameInv /\ RoundInv /\ LandlordAgrees /\ HeldInv /\ SettledInv /\ [Next]_gameVars
        => RoundInv' /\ LandlordAgrees' /\ HeldInv' /\ SettledInv'
  BY RoundStep, LandlordStep, HeldStep, SettledStep
<1> QED
  BY InitGame, GameStep, SettledMeansFair, <1>1, <1>2, PTL DEF Spec

-----------------------------------------------------------------------------
(* The auction                                                             *)

Yes == {i \in DOMAIN auction : auction[i].bid}
Grabs == {i \in Yes : auction[i].isGrab}
Calls == Len(auction) - grabActions

\* Until somebody calls, seats decline in a circle.
NobodyCalled ==
  landlordCaller = NoSeat =>
    /\ Len(auction) = bidPasses /\ grabActions = 0 /\ bidMultiplier = 1
    /\ \A i \in DOMAIN auction :
         /\ ~auction[i].bid /\ ~auction[i].isGrab
         /\ auction[i].seat = (currentBidder + 2 - bidPasses + i) % 3

\* Then everybody else may grab once, in the order of the seats, and at last
\* the caller once more, unless he is still the candidate.
EveryoneInTurn ==
  /\ Calls \in 1..3
  /\ \A i \in DOMAIN auction :
       IF i <= Calls
       THEN /\ ~auction[i].isGrab /\ (auction[i].bid <=> i = Calls)
            /\ auction[i].seat = (landlordCaller + 3 - Calls + i) % 3
       ELSE /\ auction[i].isGrab
            /\ auction[i].seat = (landlordCaller + i - Calls) % 3

WhoseTurn ==
  /\ currentBidder = (landlordCaller + grabActions + 1) % 3
  /\ grabActions = 0 => landlordCandidate = landlordCaller /\ bidPasses = 0
  /\ grabActions = 1 => \/ landlordCandidate = landlordCaller /\ bidPasses = 1
                        \/ landlordCandidate = (landlordCaller + 1) % 3 /\ bidPasses = 0
  /\ grabActions = 2 => landlordCandidate # landlordCaller

\* The last seat that said yes is the candidate, and as many have grabbed as
\* the multiplier has doubled.
Outcome ==
  /\ \E last \in Yes : /\ \A i \in Yes : i <= last
                       /\ auction[last].seat = landlordCandidate
  /\ IsFiniteSet(Grabs) /\ Cardinality(Grabs) <= grabActions
  /\ bidMultiplier = 2 ^ Cardinality(Grabs)

AuctionInv ==
  /\ auction \in Seq([seat : Seat, bid : BOOLEAN, isGrab : BOOLEAN])
  /\ state \in {"Init", "Ended"} => auction = << >>
  /\ state = "Bidding" =>
       /\ NobodyCalled
       /\ landlordCaller # NoSeat => EveryoneInTurn /\ WhoseTurn /\ Outcome
  /\ state = "Playing" /\ auction # << >> =>
       /\ landlordCaller # NoSeat /\ roomLandlord = landlordCandidate
       /\ EveryoneInTurn /\ Outcome

LEMMA SmallPowers == 2 ^ 0 = 1 /\ 2 ^ 1 = 2 /\ 2 ^ 2 = 4 /\ 2 ^ 3 = 8
  BY SMT

\* Different places in the circle are different seats.
LEMMA DifferentSeats ==
  ASSUME NEW c \in 0..2, NEW a \in 1..3, NEW b \in 1..3, a # b
  PROVE  (c + a) % 3 # (c + b) % 3
<1>1. c \in {0, 1, 2} /\ a \in {1, 2, 3} /\ b \in {1, 2, 3}
  OBVIOUS
<1> QED BY <1>1

LEMMA DifferentCallers ==
  ASSUME NEW c \in 0..2, NEW k \in 1..3, NEW a \in 1..3, NEW b \in 1..3, a # b
  PROVE  (c + 3 - k + a) % 3 # (c + 3 - k + b) % 3
<1>1. c \in {0, 1, 2} /\ a \in {1, 2, 3} /\ b \in {1, 2, 3} /\ k \in {1, 2, 3}
  OBVIOUS
<1> QED BY <1>1

LEMMA InitAuction == AuctionInit => AuctionInv
  BY DEF AuctionInit, Init, AuctionInv

\* Every deal starts an auction, or a game without one.
LEMMA DealStartsAuction ==
  ASSUME GameInv, StartBiddingRound, auction' = << >>
  PROVE  AuctionInv'
<1>1. /\ state' = "Bidding" /\ landlordCaller' = NoSeat /\ bidPasses' = 0
      /\ grabActions' = 0 /\ bidMultiplier' = 1
  BY DEF StartBiddingRound, DealNewRound
<1> QED
  BY <1>1 DEF AuctionInv, NobodyCalled

\* What an answer adds to what the history says.
LEMMA AnswerRecorded ==
  ASSUME AuctionInv, GameInv, NEW bid \in BOOLEAN, Record(bid), gameID' = gameID,
         NEW grab \in BOOLEAN, grab = (landlordCaller # NoSeat)
  PROVE  /\ auction' = Append(auction, [seat |-> currentBidder, bid |-> bid, isGrab |-> grab])
         /\ auction' \in Seq([seat : Seat, bid : BOOLEAN, isGrab : BOOLEAN])
         /\ Len(auction) \in Nat /\ Len(auction') = Len(auction) + 1
         /\ DOMAIN auction = 1..Len(auction) /\ DOMAIN auction' = 1..(Len(auction) + 1)
         /\ \A i \in DOMAIN auction : auction'[i] = auction[i]
         /\ auction'[Len(auction) + 1] = [seat |-> currentBidder, bid |-> bid, isGrab |-> grab]
         /\ Yes' = IF bid THEN Yes \cup {Len(auction) + 1} ELSE Yes
         /\ Grabs' = IF bid /\ grab THEN Grabs \cup {Len(auction) + 1} ELSE Grabs
<1> DEFINE e == [seat |-> currentBidder, bid |-> bid, isGrab |-> grab]
<1>1. auction' = Append(auction, e)
  BY DEF Record
<1>2. e \in [seat : Seat, bid : BOOLEAN, isGrab : BOOLEAN] /\ e.bid = bid /\ e.isGrab = grab
  BY DEF GameInv, TypeOK
<1>3. auction \in Seq([seat : Seat, bid : BOOLEAN, isGrab : BOOLEAN])
  BY DEF AuctionInv
<1> HIDE DEF e
<1>4. /\ auction' \in Seq([seat : Seat, bid : BOOLEAN, isGrab : BOOLEAN])
      /\ Len(auction) \in Nat /\ Len(auction') = Len(auction) + 1
      /\ DOMAIN auction = 1..Len(auction) /\ DOMAIN auction' = 1..(Len(auction) + 1)
      /\ \A i \in DOMAIN auction : auction'[i] = auction[i]
      /\ auction'[Len(auction) + 1] = e
  BY <1>1, <1>2, <1>3
<1>5. Yes' = IF bid THEN Yes \cup {Len(auction) + 1} ELSE Yes
  BY <1>2, <1>4 DEF Yes
<1>6. Grabs' = IF bid /\ grab THEN Grabs \cup {Len(auction) + 1} ELSE Grabs
 <2>1. Grabs' = {i \in Yes' : auction'[i].isGrab} /\ Grabs = {i \in Yes : auction[i].isGrab}
   BY DEF Grabs
 <2>2. Yes \subseteq DOMAIN auction
   BY DEF Yes
 <2> QED BY <1>2, <1>4, <1>5, <2>1, <2>2
<1> QED
  BY <1>1, <1>4, <1>5, <1>6 DEF e

LEMMA CallRecorded ==
  ASSUME AuctionInv, GameInv, state = "Bidding", landlordCaller = NoSeat, Call, Record(TRUE)
  PROVE  AuctionInv'
<1>1. /\ landlordCaller' = currentBidder /\ landlordCandidate' = currentBidder
      /\ bidMultiplier' = 1 /\ bidPasses' = 0 /\ grabActions' = 0
      /\ currentBidder' = NextGrabber(currentBidder, currentBidder)
      /\ UNCHANGED << state, gameID, roomLandlord >>
  BY DEF Call, AskToBid
<1>2. /\ currentBidder \in 0..2 /\ bidPasses \in 0..2
  BY DEF GameInv, TypeOK, Seat
<1>3. currentBidder' = (currentBidder + 1) % 3
  BY <1>1, <1>2 DEF NextGrabber, Next3
<1> DEFINE n == Len(auction)
<1>4. /\ auction' \in Seq([seat : Seat, bid : BOOLEAN, isGrab : BOOLEAN])
      /\ n \in Nat /\ Len(auction') = n + 1
      /\ DOMAIN auction = 1..n /\ DOMAIN auction' = 1..(n + 1)
      /\ \A i \in DOMAIN auction : auction'[i] = auction[i]
      /\ auction'[n + 1] = [seat |-> currentBidder, bid |-> TRUE, isGrab |-> FALSE]
      /\ Yes' = Yes \cup {n + 1} /\ Grabs' = Grabs
  BY <1>1, AnswerRecorded
<1>5. /\ n = bidPasses
      /\ \A i \in 1..n : /\ ~auction[i].bid /\ ~auction[i].isGrab
                         /\ auction[i].seat = (currentBidder + 2 - bidPasses + i) % 3
  BY <1>4 DEF AuctionInv, NobodyCalled
<1>6. Calls' = n + 1
  BY <1>1, <1>4 DEF Calls
<1> HIDE DEF n
<1>7. EveryoneInTurn'
 <2>1. Calls' \in 1..3
   BY <1>2, <1>5, <1>6
 <2>2. ASSUME NEW i \in 1..n
       PROVE  /\ i <= n + 1 /\ i # n + 1 /\ ~auction'[i].isGrab /\ ~auction'[i].bid
              /\ auction'[i].seat = (currentBidder + 3 - (n + 1) + i) % 3
  <3>1. auction'[i] = auction[i]
    BY <1>4
  <3>2. auction[i].seat = (currentBidder + 2 - n + i) % 3
    BY <1>5
  <3>3. currentBidder + 2 - n + i = currentBidder + 3 - (n + 1) + i
    BY <1>2, <1>4
  <3>4. i <= n + 1 /\ i # n + 1
    BY <1>4
  <3> QED BY <1>5, <3>1, <3>2, <3>3, <3>4
 <2>3. /\ ~auction'[n + 1].isGrab /\ auction'[n + 1].bid
       /\ auction'[n + 1].seat = (currentBidder + 3 - (n + 1) + (n + 1)) % 3
   BY <1>2, <1>4
 <2>4. \A i \in DOMAIN auction' : i \in 1..n \/ i = n + 1
   BY <1>4
 <2> QED
   BY <1>1, <1>4, <1>6, <2>1, <2>2, <2>3, <2>4 DEF EveryoneInTurn
<1>8. WhoseTurn'
  BY <1>1, <1>2, <1>3 DEF WhoseTurn
<1>9. Outcome'
 <2>1. Yes = {} /\ Grabs = {}
   BY <1>4, <1>5 DEF Yes, Grabs
 <2>2. Yes' = {n + 1} /\ Grabs' = {}
   BY <1>4, <2>1
 <2>3. IsFiniteSet(Grabs') /\ Cardinality(Grabs') = 0
   BY <2>2, FS_EmptySet
 <2>4. auction'[n + 1].seat = landlordCandidate' /\ \A i \in Yes' : i <= n + 1
   BY <1>1, <1>4, <2>2
 <2>5. bidMultiplier' = 2 ^ Cardinality(Grabs') /\ Cardinality(Grabs') <= grabActions'
   BY <1>1, <2>3, SmallPowers
 <2> QED
   BY <2>2, <2>3, <2>4, <2>5 DEF Outcome
<1> QED
  BY <1>1, <1>2, <1>4, <1>7, <1>8, <1>9 DEF AuctionInv, NobodyCalled, NoSeat

LEMMA NoCallRecorded ==
  ASSUME AuctionInv, GameInv, state = "Bidding", landlordCaller = NoSeat, NoCall, Record(FALSE)
  PROVE  AuctionInv'
<1>1. CASE bidPasses + 1 >= 3
 <2>1. Redeal
   BY <1>1 DEF NoCall
 <2>2. gameID \in Nat /\ gameID' = gameID + 1
   BY <2>1 DEF Redeal, StartBiddingRound, DealNewRound, GameInv, TypeOK
 <2>3. auction' = << >>
   BY <2>2 DEF Record
 <2>4. StartBiddingRound \/ state' = "Playing"
   BY <2>1 DEF Redeal, SetLandlord
 <2> QED
   BY <2>3, <2>4, DealStartsAuction DEF AuctionInv
<1>2. CASE ~(bidPasses + 1 >= 3)
 <2>1. /\ bidPasses' = bidPasses + 1 /\ currentBidder' = Next3(currentBidder)
       /\ UNCHANGED << landlordCaller, landlordCandidate, grabActions, bidMultiplier,
                       state, gameID, roomLandlord >>
   BY <1>2 DEF NoCall, AskToBid
 <2>2. /\ currentBidder \in 0..2 /\ bidPasses \in 0..1
   BY <1>2 DEF GameInv, TypeOK, Seat
 <2> DEFINE n == Len(auction)
 <2>3. /\ auction' \in Seq([seat : Seat, bid : BOOLEAN, isGrab : BOOLEAN])
       /\ n \in Nat /\ Len(auction') = n + 1
       /\ DOMAIN auction = 1..n /\ DOMAIN auction' = 1..(n + 1)
       /\ \A i \in DOMAIN auction : auction'[i] = auction[i]
       /\ auction'[n + 1] = [seat |-> currentBidder, bid |-> FALSE, isGrab |-> FALSE]
   BY <2>1, AnswerRecorded
 <2>4. /\ n = bidPasses /\ grabActions = 0 /\ bidMultiplier = 1
       /\ \A i \in 1..n : /\ ~auction[i].bid /\ ~auction[i].isGrab
                          /\ auction[i].seat = (currentBidder + 2 - bidPasses + i) % 3
   BY <2>3 DEF AuctionInv, NobodyCalled
 <2> HIDE DEF n
 <2>5. ASSUME NEW i \in DOMAIN auction'
       PROVE  /\ ~auction'[i].bid /\ ~auction'[i].isGrab
              /\ auction'[i].seat = (currentBidder' + 2 - bidPasses' + i) % 3
  <3>1. CASE i \in 1..n
   <4>1. auction'[i] = auction[i] /\ auction[i].seat = (currentBidder + 2 - bidPasses + i) % 3
     BY <2>3, <2>4, <3>1
   <4>2. (((currentBidder + 1) % 3) + 2 - (bidPasses + 1) + i) % 3
           = (currentBidder + 2 - bidPasses + i) % 3
    <5>1. bidPasses = 1 /\ i = 1
      BY <2>2, <2>4, <3>1
    <5> QED BY <2>2, <5>1
   <4> QED BY <2>1, <2>4, <3>1, <4>1, <4>2 DEF Next3
  <3>2. CASE i = n + 1
   <4>1. (((currentBidder + 1) % 3) + 2 - (bidPasses + 1) + (bidPasses + 1)) % 3 = currentBidder
     BY <2>2
   <4> QED BY <2>1, <2>3, <2>4, <3>2, <4>1 DEF Next3
  <3> QED BY <2>3, <3>1, <3>2
 <2> QED
   BY <2>1, <2>3, <2>4, <2>5 DEF AuctionInv, NobodyCalled
<1> QED
  BY <1>1, <1>2

LEMMA GrabRecorded ==
  ASSUME AuctionInv, GameInv, state = "Bidding", landlordCaller # NoSeat,
         NEW bid \in BOOLEAN, Grab(bid), Record(bid)
  PROVE  AuctionInv'
<1>1. /\ landlordCandidate' = StandingCandidate(bid)
      /\ bidPasses' = (IF bid THEN 0 ELSE bidPasses + 1)
      /\ grabActions' = grabActions + 1
      /\ bidMultiplier' = (IF bid THEN 2 * bidMultiplier ELSE bidMultiplier)
      /\ landlordCaller' = landlordCaller
  BY DEF Grab
<1>2. /\ currentBidder \in 0..2 /\ landlordCaller \in 0..2 /\ landlordCandidate \in 0..2
      /\ bidPasses \in 0..1 /\ grabActions \in 0..2
      /\ EveryoneInTurn /\ WhoseTurn /\ Outcome
  BY DEF GameInv, TypeOK, AuctionBounds, Seat, AuctionInv
<1>3. \/ /\ AuctionOver(bidPasses', grabActions + 1)
         /\ state' = "Playing" /\ roomLandlord' = landlordCandidate' /\ gameID' = gameID
      \/ /\ ~AuctionOver(bidPasses', grabActions + 1)
         /\ AskToBid(NextGrabber(currentBidder, landlordCandidate'))
  BY DEF Grab, SetLandlord
<1>4. gameID' = gameID
  BY <1>3 DEF AskToBid
<1> DEFINE n == Len(auction)
<1>5. /\ auction' \in Seq([seat : Seat, bid : BOOLEAN, isGrab : BOOLEAN])
      /\ n \in Nat /\ Len(auction') = n + 1
      /\ DOMAIN auction = 1..n /\ DOMAIN auction' = 1..(n + 1)
      /\ \A i \in DOMAIN auction : auction'[i] = auction[i]
      /\ auction'[n + 1] = [seat |-> currentBidder, bid |-> bid, isGrab |-> TRUE]
      /\ Yes' = IF bid THEN Yes \cup {n + 1} ELSE Yes
      /\ Grabs' = IF bid THEN Grabs \cup {n + 1} ELSE Grabs
  BY <1>4, AnswerRecorded
<1>6. Calls' = Calls /\ Calls = n - grabActions /\ Calls \in 1..3
 <2>1. Calls' = Len(auction') - grabActions' /\ Calls = n - grabActions
   BY DEF Calls
 <2>2. (n + 1) - (grabActions + 1) = n - grabActions
   BY <1>2, <1>5
 <2> QED BY <1>1, <1>2, <1>5, <2>1, <2>2 DEF EveryoneInTurn
<1>7. Yes \subseteq 1..n /\ Grabs \subseteq 1..n
  BY <1>5 DEF Yes, Grabs
<1> HIDE DEF n
<1>8. EveryoneInTurn'
 <2>1. ASSUME NEW i \in 1..n
       PROVE  IF i <= Calls
              THEN /\ ~auction'[i].isGrab /\ (auction'[i].bid <=> i = Calls)
                   /\ auction'[i].seat = (landlordCaller + 3 - Calls + i) % 3
              ELSE /\ auction'[i].isGrab
                   /\ auction'[i].seat = (landlordCaller + i - Calls) % 3
  <3>1. i \in DOMAIN auction /\ auction'[i] = auction[i]
    BY <1>5
  <3> QED BY <1>2, <3>1 DEF EveryoneInTurn
 <2>2. /\ ~(n + 1 <= Calls) /\ auction'[n + 1].isGrab
       /\ auction'[n + 1].seat = (landlordCaller + (n + 1) - Calls) % 3
  <3>1. (n + 1) - Calls = grabActions + 1 /\ ~(n + 1 <= Calls)
    BY <1>2, <1>5, <1>6
  <3>2. landlordCaller + (n + 1) - Calls = landlordCaller + grabActions + 1
    BY <1>2, <1>5, <1>6
  <3> QED BY <1>2, <1>5, <3>1, <3>2 DEF WhoseTurn
 <2>3. \A i \in DOMAIN auction' : i \in 1..n \/ i = n + 1
   BY <1>5
 <2> QED BY <1>1, <1>6, <2>1, <2>2, <2>3 DEF EveryoneInTurn
<1>9. Outcome'
 <2>1. PICK last \in Yes : (\A i \in Yes : i <= last) /\ auction[last].seat = landlordCandidate
   BY <1>2 DEF Outcome
 <2>2. /\ IsFiniteSet(Grabs) /\ Cardinality(Grabs) <= grabActions
       /\ bidMultiplier = 2 ^ Cardinality(Grabs) /\ Cardinality(Grabs) \in Nat
   BY <1>2, FS_CardinalityType DEF Outcome
 <2>3. CASE bid
  <3>1. (n + 1) \in Yes' /\ (\A i \in Yes' : i <= n + 1)
    BY <1>5, <1>7, <2>3
  <3>2. auction'[n + 1].seat = landlordCandidate'
    BY <1>1, <1>5, <2>3 DEF StandingCandidate
  <3>3. Grabs' = Grabs \cup {n + 1} /\ (n + 1) \notin Grabs
    BY <1>5, <1>7, <2>3
  <3>4. IsFiniteSet(Grabs') /\ Cardinality(Grabs') = Cardinality(Grabs) + 1
    BY <2>2, <3>3, FS_AddElement
  <3>5. Cardinality(Grabs) \in 0..2
    BY <1>2, <2>2
  <3>6. bidMultiplier' = 2 ^ Cardinality(Grabs')
   <4>1. ASSUME NEW g \in 0..2
         PROVE  2 ^ (g + 1) = 2 * 2 ^ g
    <5>1. \/ g = 0 /\ g + 1 = 1
          \/ g = 1 /\ g + 1 = 2
          \/ g = 2 /\ g + 1 = 3
      OBVIOUS
    <5>2. CASE g = 0
     <6>1. g + 1 = 1
       BY <5>2
     <6>2. 2 ^ (g + 1) = 2 ^ 1 /\ 2 ^ g = 2 ^ 0
       BY <5>2, <6>1, Zenon
     <6> QED BY <6>2, SmallPowers
    <5>3. CASE g = 1
     <6>1. g + 1 = 2
       BY <5>3
     <6>2. 2 ^ (g + 1) = 2 ^ 2 /\ 2 ^ g = 2 ^ 1
       BY <5>3, <6>1, Zenon
     <6> QED BY <6>2, SmallPowers
    <5>4. CASE g = 2
     <6>1. g + 1 = 3
       BY <5>4
     <6>2. 2 ^ (g + 1) = 2 ^ 3 /\ 2 ^ g = 2 ^ 2
       BY <5>4, <6>1, Zenon
     <6> QED BY <6>2, SmallPowers
    <5> QED BY <5>1, <5>2, <5>3, <5>4, Zenon
   <4> QED BY <1>1, <2>2, <2>3, <3>4, <3>5, <4>1
  <3> QED BY <1>1, <1>2, <2>2, <3>1, <3>2, <3>4, <3>6 DEF Outcome
 <2>4. CASE ~bid
  <3>1. Yes' = Yes /\ Grabs' = Grabs /\ landlordCandidate' = landlordCandidate
    BY <1>1, <1>5, <2>4 DEF StandingCandidate
  <3>2. auction'[last] = auction[last]
    BY <1>5, <1>7, <2>1
  <3> QED BY <1>1, <1>2, <2>1, <2>2, <2>4, <3>1, <3>2 DEF Outcome
 <2> QED BY <2>3, <2>4
<1>10. CASE AuctionOver(bidPasses', grabActions + 1)
 <2>1. state' = "Playing" /\ roomLandlord' = landlordCandidate'
   BY <1>3, <1>10
 <2> QED BY <1>1, <1>2, <1>5, <1>8, <1>9, <2>1 DEF AuctionInv
<1>11. CASE ~AuctionOver(bidPasses', grabActions + 1)
 <2>1. /\ currentBidder' = NextGrabber(currentBidder, landlordCandidate')
       /\ state' = state
   BY <1>3, <1>11 DEF AskToBid
 <2>2. bidPasses' < 2 /\ grabActions < 2
   BY <1>1, <1>2, <1>11 DEF AuctionOver
 <2>3. /\ landlordCandidate' = (IF bid THEN currentBidder ELSE landlordCandidate)
       /\ currentBidder = (landlordCaller + grabActions + 1) % 3
   BY <1>1, <1>2 DEF StandingCandidate, WhoseTurn
 <2>4. WhoseTurn'
  <3>1. CASE grabActions = 0
   <4>1. landlordCandidate = landlordCaller /\ bidPasses = 0
     BY <1>2, <3>1 DEF WhoseTurn
   <4> QED BY <1>1, <1>2, <2>1, <2>3, <3>1, <4>1 DEF WhoseTurn, NextGrabber, Next3
  <3>2. CASE grabActions = 1
   <4>1. \/ landlordCandidate = landlordCaller /\ bidPasses = 1
         \/ landlordCandidate = (landlordCaller + 1) % 3 /\ bidPasses = 0
     BY <1>2, <3>2 DEF WhoseTurn
   <4> QED BY <1>1, <1>2, <2>1, <2>2, <2>3, <3>2, <4>1 DEF WhoseTurn, NextGrabber, Next3
  <3> QED BY <1>2, <2>2, <3>1, <3>2
 <2> QED BY <1>1, <1>2, <1>5, <1>8, <1>9, <2>1, <2>4 DEF AuctionInv, NobodyCalled
<1> QED
  BY <1>10, <1>11

LEMMA AuctionStep ==
  ASSUME AuctionInv, GameInv, [AuctionNext]_auctionVars
  PROVE  AuctionInv'
<1>1. ASSUME Start, auction' = << >> PROVE AuctionInv'
  BY <1>1, DealStartsAuction DEF Start
<1>2. ASSUME NEW bid \in BOOLEAN, Bid(bid), Record(bid) PROVE AuctionInv'
  BY <1>2, CallRecorded, NoCallRecorded, GrabRecorded DEF Bid
<1>3. ASSUME NEW cards \in SubHands(hands[currentPlayer]), PlayCards(cards), auction' = << >>
      PROVE  AuctionInv'
 <2>1. state' \in {"Playing", "Ended"}
   BY <1>3 DEF PlayCards, EndGame
 <2> QED BY <1>3, <2>1 DEF AuctionInv
<1>4. ASSUME Pass, UNCHANGED auction PROVE AuctionInv'
  BY <1>4 DEF Pass, AuctionInv, bidVars, EveryoneInTurn, Outcome, Calls, Yes, Grabs
<1>5. ASSUME ResetAfterGame, UNCHANGED auction PROVE AuctionInv'
  BY <1>5 DEF ResetAfterGame, AuctionInv
<1>6. ASSUME UNCHANGED auctionVars PROVE AuctionInv'
  BY <1>6 DEF auctionVars, gameVars, bidVars, AuctionInv, NobodyCalled, EveryoneInTurn, WhoseTurn,
              Outcome, Calls, Yes, Grabs
<1> QED
  BY <1>1, <1>2, <1>3, <1>4, <1>5, <1>6 DEF AuctionNext

LEMMA AuctionInvMeansFair ==
  ASSUME AuctionInv, GameInv, LandlordAgrees
  PROVE  AuctionIsFair
<1>1. DOMAIN auction = 1..Len(auction) /\ Len(auction) \in Nat
  BY DEF AuctionInv
<1>2. landlordCaller \in {0, 1, 2, NoSeat} /\ currentBidder \in 0..2 /\ bidPasses \in 0..2
      /\ grabActions \in 0..3 /\ state \in {"Init", "Bidding", "Playing", "Ended"}
  BY DEF GameInv, TypeOK, Seat
<1>3. AskedOncePerPhase
 <2>1. SUFFICES ASSUME NEW i \in DOMAIN auction, NEW j \in DOMAIN auction, i # j,
                       auction[i].seat = auction[j].seat,
                       auction[i].isGrab = auction[j].isGrab
                PROVE  FALSE
  <3> QED BY Zenon DEF AskedOncePerPhase
 <2>2. auction # << >> /\ i \in 1..Len(auction) /\ j \in 1..Len(auction)
   BY <1>1
 <2>3. CASE landlordCaller = NoSeat
  <3>1. NobodyCalled
    BY <1>2, <2>2, <2>3 DEF AuctionInv
  <3>2. /\ auction[i].seat = (currentBidder + 2 - bidPasses + i) % 3
        /\ auction[j].seat = (currentBidder + 2 - bidPasses + j) % 3
        /\ Len(auction) = bidPasses
    BY <2>3, <3>1 DEF NobodyCalled
  <3>3. i \in 1..2 /\ j \in 1..2 /\ bidPasses = 2
    BY <1>2, <2>1, <2>2, <3>2
  <3>4. i \in {1, 2} /\ j \in {1, 2}
    BY <3>3
  <3>5. currentBidder \in {0, 1, 2}
    BY <1>2
  <3>6. (currentBidder + 2 - 2 + 1) % 3 # (currentBidder + 2 - 2 + 2) % 3
    BY <3>5
  <3> QED BY <2>1, <3>2, <3>3, <3>4, <3>6
 <2>4. CASE landlordCaller # NoSeat
  <3>1. EveryoneInTurn
    BY <1>2, <2>2, <2>4 DEF AuctionInv
  <3>2. Calls \in 1..3 /\ Len(auction) = Calls + grabActions
   <4>1. Calls \in 1..3 /\ Calls = Len(auction) - grabActions
     BY <3>1 DEF EveryoneInTurn, Calls
   <4>2. Len(auction) \in Int /\ grabActions \in Int
     BY <1>1, <1>2
   <4>3. \A n, g \in Int : n = (n - g) + g
     OBVIOUS
   <4>4. Len(auction) = (Len(auction) - grabActions) + grabActions
     BY <4>2, <4>3, Zenon
   <4> QED BY <4>1, <4>4, Zenon
  <3>3. CASE i <= Calls
   <4>1. j <= Calls
     BY <2>1, <3>1, <3>3 DEF EveryoneInTurn
   <4>2. /\ auction[i].seat = (landlordCaller + 3 - Calls + i) % 3
         /\ auction[j].seat = (landlordCaller + 3 - Calls + j) % 3
     BY <3>1, <3>3, <4>1 DEF EveryoneInTurn
   <4>3. i \in 1..3 /\ j \in 1..3
     BY <2>2, <3>2, <3>3, <4>1
   <4>4. landlordCaller \in 0..2
     BY <1>2, <2>4
   <4> HIDE DEF Calls
   <4> QED BY <2>1, <3>2, <4>2, <4>3, <4>4, DifferentCallers
  <3>4. CASE ~(i <= Calls)
   <4>1. ~(j <= Calls)
     BY <2>1, <3>1, <3>4 DEF EveryoneInTurn
   <4>2. /\ auction[i].seat = (landlordCaller + i - Calls) % 3
         /\ auction[j].seat = (landlordCaller + j - Calls) % 3
     BY <3>1, <3>4, <4>1 DEF EveryoneInTurn
   <4>3. i - Calls \in 1..3 /\ j - Calls \in 1..3 /\ i - Calls # j - Calls
     BY <1>2, <2>1, <2>2, <3>2, <3>4, <4>1
   <4>4. landlordCaller + i - Calls = landlordCaller + (i - Calls)
         /\ landlordCaller + j - Calls = landlordCaller + (j - Calls)
     BY <1>2, <2>2, <2>4, <3>2
   <4>5. landlordCaller \in 0..2
     BY <1>2, <2>4
   <4> QED BY <2>1, <4>2, <4>3, <4>4, <4>5, DifferentSeats
  <3> QED BY <3>3, <3>4
 <2> QED BY <2>3, <2>4
<1>4. AuctionExplainsOutcome
 <2>1. SUFFICES ASSUME auction # << >>
                PROVE  /\ bidMultiplier = 2 ^ Cardinality(Grabs)
                       /\ Yes # {} => landlordCandidate = auction[Max(Yes)].seat
                       /\ roomLandlord # NoSeat /\ Yes # {} =>
                            roomLandlord = auction[Max(Yes)].seat
                       /\ roomLandlord # NoSeat /\ Yes = {} => redealCount = MaxRedeals
   BY DEF AuctionExplainsOutcome, Yes, Grabs
 <2>2. CASE landlordCaller = NoSeat
  <3>1. NobodyCalled /\ roomLandlord = NoSeat
    BY <1>2, <2>1, <2>2 DEF AuctionInv, LandlordAgrees
  <3>2. Yes = {} /\ Grabs = {}
    BY <2>2, <3>1 DEF NobodyCalled, Yes, Grabs
  <3> QED BY <2>2, <3>1, <3>2, FS_EmptySet, SmallPowers DEF NobodyCalled
 <2>3. CASE landlordCaller # NoSeat
  <3>1. Outcome /\ (roomLandlord # NoSeat => roomLandlord = landlordCandidate)
    BY <1>2, <2>1, <2>3 DEF AuctionInv, LandlordAgrees
  <3>2. PICK last \in Yes : (\A i \in Yes : i <= last) /\ auction[last].seat = landlordCandidate
    BY <3>1 DEF Outcome
  <3>3. Yes \subseteq Nat
    BY <1>1 DEF Yes
  <3>4. Max(Yes) \in Yes /\ \A i \in Yes : Max(Yes) >= i
    BY <3>2, <3>3 DEF Max
  <3>5. Max(Yes) = last
   <4>1. Max(Yes) \in Nat /\ last \in Nat /\ Max(Yes) <= last /\ Max(Yes) >= last
     BY <3>2, <3>3, <3>4
   <4> QED BY <4>1
  <3> QED BY <3>1, <3>2, <3>5 DEF Outcome
 <2> QED BY <2>2, <2>3
<1> QED
  BY <1>3, <1>4 DEF AuctionIsFair

\* Whatever circle of calls, grabs and counter-grabs the auction takes, each
\* seat is asked at most once to call and at most once to grab, the landlord is
\* the last seat that said yes, and the multiplier doubled on every grab
\* (handleCall, handleGrab and setNextBidder, bid.go:89-152).
THEOREM AuctionsAreFair == AuctionSpec => []AuctionIsFair
<1>1. AuctionInit => Init
  BY DEF AuctionInit
<1>2. [AuctionNext]_auctionVars => [Next]_gameVars
  BY DEF AuctionNext, Next, auctionVars
<1>3. AuctionSpec => Spec
  BY <1>1, <1>2, PTL DEF AuctionSpec, Spec
<1>4. Spec => []GameInv
  BY InitGame, GameStep, PTL DEF Spec
<1>5. AuctionSpec => []AuctionInv
  BY InitAuction, AuctionStep, <1>3, <1>4, PTL DEF AuctionSpec
<1> QED
  BY <1>3, <1>4, <1>5, OneLandlordForAll, AuctionInvMeansFair, PTL

-----------------------------------------------------------------------------
(* Every selection from a hand is among SubHands                           *)

LEMMA LargestOfFew ==
  ASSUME NEW S, S \subseteq 0..4, S # {}
  PROVE  Max(S) \in S /\ \A i \in S : i <= Max(S)
<1>1. \E x \in S : \A y \in S : x >= y
 <2>1. \A y \in S : y = 0 \/ y = 1 \/ y = 2 \/ y = 3 \/ y = 4
   OBVIOUS
 <2>2. CASE 4 \in S
   BY <2>1, <2>2
 <2>3. CASE 3 \in S /\ 4 \notin S
   BY <2>1, <2>3
 <2>4. CASE 2 \in S /\ 3 \notin S /\ 4 \notin S
   BY <2>1, <2>4
 <2>5. CASE 1 \in S /\ 2 \notin S /\ 3 \notin S /\ 4 \notin S
   BY <2>1, <2>5
 <2>6. CASE 1 \notin S /\ 2 \notin S /\ 3 \notin S /\ 4 \notin S
  <3>1. PICK z \in S : TRUE
    OBVIOUS
  <3>2. \A y \in S : y = 0
    BY <2>1, <2>6
  <3> QED
    BY <3>1, <3>2
 <2> QED
   BY <2>2, <2>3, <2>4, <2>5, <2>6
<1>2. /\ (CHOOSE x \in S : \A y \in S : x >= y) \in S
      /\ \A y \in S : (CHOOSE x \in S : \A z \in S : x >= z) >= y
  BY <1>1
<1> QED
  BY <1>2 DEF Max

LEMMA SelectionIsSubHand ==
  ASSUME NEW hand \in [Rank -> 0..4], NEW cards \in CardSet,
         Contains(hand, cards)
  PROVE  cards \in SubHands(hand)
<1> DEFINE held == {r \in Rank : hand[r] > 0}
           most == IF held = {} THEN 0 ELSE Max({hand[r] : r \in held})
           d    == [r \in held |-> cards[r]]
<1>1. \A r \in held : hand[r] <= most
 <2>1. CASE held # {}
  <3>1. {hand[r] : r \in held} \subseteq 0..4 /\ {hand[r] : r \in held} # {}
    BY <2>1
  <3> QED
    BY <2>1, <3>1, LargestOfFew
 <2> QED
   BY <2>1
<1>2. most \in Nat
 <2>1. CASE held # {}
  <3>1. {hand[r] : r \in held} \subseteq 0..4 /\ {hand[r] : r \in held} # {}
    BY <2>1
  <3> QED
    BY <2>1, <3>1, LargestOfFew
 <2> QED
   BY <2>1
<1> HIDE DEF most
<1>3. \A r \in Rank : cards[r] \in Nat /\ cards[r] <= hand[r] /\ hand[r] \in Nat
  BY DEF CardSet, Contains
<1>4. d \in {e \in [held -> 0..most] : \A r \in held : e[r] <= hand[r]}
  BY <1>1, <1>2, <1>3
<1>5. cards = [r \in Rank |-> IF r \in held THEN d[r] ELSE 0]
  BY <1>3 DEF CardSet
<1> QED
  BY <1>4, <1>5 DEF SubHands, most

-----------------------------------------------------------------------------
(* The session plays the game                                              *)

\* A move of the session is a move of the game, or is refused.
LEMMA MovePlays ==
  ASSUME TypeOK, CardsConserved,
         NEW op, NEW player, NEW cards, NEW turn, Move(op, player, cards, turn)
  PROVE  [Next]_gameVars
<1>1. CASE Rejected
  BY <1>1 DEF Rejected
<1>2. ASSUME NEW bid \in BOOLEAN, CommitMove(Bid(bid))
      PROVE  Next
  BY <1>2 DEF CommitMove, Next
<1>3. ASSUME state = "Playing", CommitMove(PlayCards(cards))
      PROVE  Next
 <2>1. PlayCards(cards) /\ AcceptsPlay(cards)
   BY <1>3 DEF CommitMove, PlayCards
 <2>2. hands[currentPlayer] \in [Rank -> 0..4]
   BY <1>3, HandsWithinDeck DEF TypeOK
 <2>3. cards \in SubHands(hands[currentPlayer])
   BY <2>1, <2>2, SelectionIsSubHand DEF AcceptsPlay
 <2> QED
   BY <2>1, <2>3 DEF Next
<1>4. CASE CommitMove(Pass)
  BY <1>4 DEF CommitMove, Next
<1> QED
  BY <1>1, <1>2, <1>3, <1>4 DEF Move

LEMMA SessionStepPlays ==
  ASSUME TypeOK, CardsConserved, [SessionNext]_sessionVars
  PROVE  [Next]_gameVars
<1>1. ASSUME NEW c \in inbox, HandleCommand(c)
      PROVE  [Next]_gameVars
  BY <1>1, MovePlays DEF HandleCommand, Rejected
<1>2. ASSUME NEW c \in callbacks, BidTimeout(c)
      PROVE  [Next]_gameVars
  BY <1>2, MovePlays DEF BidTimeout
<1>3. ASSUME NEW m \in autoMoves, MakeAutoMove(m)
      PROVE  [Next]_gameVars
  BY <1>3, MovePlays DEF MakeAutoMove
<1>4. CASE StartSession
  BY <1>4 DEF StartSession, Next
<1>5. CASE ReopenRoom
  BY <1>5 DEF ReopenRoom, Next
<1>6. ASSUME NEW seat \in Seat, Send(seat) \/ PlayerOffline(seat) \/ PlayerOnline(seat)
      PROVE  UNCHANGED gameVars
  BY <1>6 DEF Send, PlayerOffline, PlayerOnline
<1>7. ASSUME NEW c \in callbacks, PlayTimeout(c) \/ OfflineTimeout(c)
      PROVE  UNCHANGED gameVars
  BY <1>7 DEF PlayTimeout, OfflineTimeout
<1>8. ASSUME \/ SetQuiescenceRelease \/ FireTurnTimer \/ FireLostTimer
             \/ FireOfflineTimer \/ PauseInitialOfflineTurn \/ RecordResults
             \/ ReleaseAfterGame \/ ReleaseAfterRetire \/ Retire
             \/ UNCHANGED sessionVars
      PROVE  UNCHANGED gameVars
  BY <1>8
  DEF SetQuiescenceRelease, FireTurnTimer, FireLostTimer, FireOfflineTimer,
      PauseInitialOfflineTurn, RecordResults, ReleaseAfterGame,
      ReleaseAfterRetire, Retire, sessionVars
<1> QED
  BY <1>1, <1>2, <1>3, <1>4, <1>5, <1>6, <1>7, <1>8
  DEF SessionNext, Callback, Dispatch

\* So the invariants of the game hold in the session.
LEMMA SessionGameInvariant == SessionSpec => [](GameInv /\ CardsConserved)
<1>1. SessionInit => GameInv /\ CardsConserved
  BY InitGame DEF SessionInit, Init, CardsConserved
<1>2. /\ GameInv /\ CardsConserved /\ [SessionNext]_sessionVars
      => (GameInv /\ CardsConserved)'
  BY SessionStepPlays, GameStep, CardsStep DEF GameInv
<1> QED
  BY <1>1, <1>2, PTL DEF SessionSpec

\* Whatever commands, timers, presence changes, retirement and settlement do,
\* and in whatever order, the session is a behaviour of the game
\* (session/bid.go, play.go, timer.go, lifecycle.go and delivery.go).
THEOREM SessionPlaysLandlord == SessionSpec => PlaysLandlord
<1>1. SessionInit => Init
  BY DEF SessionInit
<1>2. GameInv /\ CardsConserved /\ [SessionNext]_sessionVars => [Next]_gameVars
  BY SessionStepPlays DEF GameInv
<1> QED
  BY <1>1, <1>2, SessionGameInvariant, PTL DEF SessionSpec, PlaysLandlord, Spec

-----------------------------------------------------------------------------
(* Retirement                                                              *)

\* A retired session has nothing armed and nobody holds actionMu in it.
RetiredInv ==
  retired => /\ turnTimer = NoTimer /\ offlineWaitTimer = NoTimer
             /\ dispatch = "idle"

\* A move of a retired session is refused.
LEMMA RetiredMovesNothing ==
  ASSUME retired, NEW op, NEW player, NEW cards, NEW turn,
         Move(op, player, cards, turn)
  PROVE  Rejected
  BY DEF Move, MayMove

LEMMA NothingRuns == ~Running(NoTimer)
  BY DEF Running

\* Every step of a retired session leaves the game and the timers alone.
LEMMA RetiredStep ==
  ASSUME RetiredInv, retired, [SessionNext]_sessionVars
  PROVE  /\ retired' /\ UNCHANGED gameVars
         /\ turnTimer' = NoTimer /\ offlineWaitTimer' = NoTimer
         /\ dispatch' = "idle"
<1> DEFINE Frozen == /\ retired' /\ UNCHANGED gameVars
                     /\ turnTimer' = NoTimer /\ offlineWaitTimer' = NoTimer
                     /\ dispatch' = "idle"
<1>1. /\ turnTimer = NoTimer /\ offlineWaitTimer = NoTimer
      /\ dispatch = "idle"
  BY DEF RetiredInv
<1>2. CASE Rejected
  BY <1>1, <1>2 DEF Rejected, timerVars
<1>3. ASSUME NEW c \in inbox, HandleCommand(c)
      PROVE  Frozen
  BY <1>2, <1>3, RetiredMovesNothing DEF HandleCommand
<1>4. ASSUME NEW c \in callbacks, BidTimeout(c) \/ PlayTimeout(c) \/ OfflineTimeout(c)
      PROVE  Frozen
  BY <1>1, <1>2, <1>4, RetiredMovesNothing
  DEF BidTimeout, PlayTimeout, OfflineTimeout, timerVars
<1>5. ASSUME NEW m \in autoMoves, MakeAutoMove(m)
      PROVE  Frozen
  BY <1>2, <1>5, RetiredMovesNothing DEF MakeAutoMove
<1>6. ASSUME NEW seat \in Seat, Send(seat) \/ PlayerOffline(seat) \/ PlayerOnline(seat)
      PROVE  Frozen
  BY <1>6 DEF Send, PlayerOffline, PlayerOnline
<1>7. ASSUME FireTurnTimer \/ FireOfflineTimer \/ StartSession \/ Retire
      PROVE  Frozen
  BY <1>1, <1>7, NothingRuns
  DEF FireTurnTimer, FireOfflineTimer, StartSession, Retire
<1>8. ASSUME SetQuiescenceRelease \/ FireLostTimer \/ ReleaseAfterRetire
      PROVE  Frozen
  BY <1>1, <1>8
  DEF SetQuiescenceRelease, FireLostTimer, ReleaseAfterRetire, timerVars
<1>9. ASSUME PauseInitialOfflineTurn \/ ReopenRoom \/ RecordResults \/ ReleaseAfterGame
      PROVE  Frozen
  BY <1>1, <1>9
  DEF PauseInitialOfflineTurn, ReopenRoom, RecordResults, ReleaseAfterGame
<1>10. CASE UNCHANGED sessionVars
  BY <1>1, <1>10 DEF sessionVars, timerVars
<1> QED
  BY <1>3, <1>4, <1>5, <1>6, <1>7, <1>8, <1>9, <1>10
  DEF SessionNext, Callback, Dispatch

\* Only Retire retires a session, and it leaves nothing armed.
LEMMA BecomesRetired ==
  ASSUME ~retired, retired', [SessionNext]_sessionVars
  PROVE  RetiredInv'
<1>1. Retire
  BY DEF SessionNext, Callback, Dispatch, SetQuiescenceRelease, StartSession,
         Send, PlayerOffline, PlayerOnline, HandleCommand, FireTurnTimer,
         FireLostTimer, FireOfflineTimer, BidTimeout, PlayTimeout,
         OfflineTimeout, MakeAutoMove, PauseInitialOfflineTurn, ReopenRoom,
         RecordResults, ReleaseAfterGame, ReleaseAfterRetire, Move, CommitMove,
         Rejected, sessionVars
<1> QED
  BY <1>1 DEF Retire, RetiredInv

LEMMA RetiredInvariant == SessionSpec => []RetiredInv
<1>1. SessionInit => RetiredInv
  BY DEF SessionInit, RetiredInv
<1>2. RetiredInv /\ [SessionNext]_sessionVars => RetiredInv'
  BY RetiredStep, BecomesRetired DEF RetiredInv
<1> QED
  BY <1>1, <1>2, PTL DEF SessionSpec

\* Retire is final (lifecycle.go:38-53): no command, callback, reconnect or late
\* Start moves a retired game or arms a timer for it.
THEOREM RetirementIsFinal == SessionSpec => RetiredForGood
<1>1. RetiredInv /\ [SessionNext]_sessionVars =>
        [ retired => /\ retired' /\ UNCHANGED gameVars
                     /\ turnTimer' = NoTimer /\ offlineWaitTimer' = NoTimer
        ]_sessionVars
  BY RetiredStep
<1> QED
  BY <1>1, RetiredInvariant, PTL DEF SessionSpec, RetiredForGood

-----------------------------------------------------------------------------
(* The start lease                                                         *)

Settled == recorded /\ state = "Ended" /\ roomState = "Waiting"

\* The lease is given back only when quiescenceDone says so, which is set only
\* after retirement or settlement; the steps after the end keep their order.
LeaseInv ==
  /\ leaseReleases \in 0..1
  /\ quiescenceRelease => leaseReleases = 0 /\ ~quiescenceDone
  /\ leaseReleases = 1 => quiescenceDone
  /\ quiescenceDone => retired \/ Settled
  /\ retireReleases => retired
  /\ dispatch \in {"settling", "releasing"} =>
       state = "Ended" /\ roomState = "Waiting"
  /\ dispatch = "releasing" => recorded
  /\ recorded => state = "Ended" /\ roomState = "Waiting"

\* A finished game in a reopened room stays as it is.
LEMMA ReopenedStays ==
  ASSUME state = "Ended", roomState = "Waiting", [Next]_gameVars
  PROVE  state' = "Ended" /\ roomState' = "Waiting"
  BY DEF Next, gameVars, Start, Bid, PlayCards, Pass, ResetAfterGame

LEMMA ReleaseKeepsOnce ==
  ASSUME LeaseInv, ReleaseQuiescence
  PROVE  /\ leaseReleases' \in 0..1 /\ quiescenceDone' /\ ~quiescenceRelease'
  BY DEF LeaseInv, ReleaseQuiescence

\* Moves end in dispatch "idle" or "gameOver" and do not touch the lease.
LEMMA MoveKeepsLease ==
  ASSUME LeaseInv, TypeOK, CardsConserved,
         NEW op, NEW player, NEW cards, NEW turn, Move(op, player, cards, turn)
  PROVE  LeaseInv'
<1>1. [Next]_gameVars
  BY MovePlays
<1>2. /\ UNCHANGED << retired, leaseVars >>
      /\ dispatch' \in {"idle", "gameOver"} \/ dispatch' = dispatch
  BY DEF Move, CommitMove, Rejected
<1> QED
  BY <1>1, <1>2, ReopenedStays DEF LeaseInv, leaseVars, Settled

LEMMA LeaseStep ==
  ASSUME LeaseInv, TypeOK, CardsConserved, [SessionNext]_sessionVars
  PROVE  LeaseInv'
<1>1. ASSUME NEW c \in inbox, HandleCommand(c)
      PROVE  LeaseInv'
 <2>1. CASE Rejected
   BY <2>1 DEF Rejected, LeaseInv, leaseVars, gameVars, Settled
 <2> QED
   BY <1>1, <2>1, MoveKeepsLease DEF HandleCommand
<1>2. ASSUME NEW c \in callbacks, BidTimeout(c) \/ PlayTimeout(c) \/ OfflineTimeout(c)
      PROVE  LeaseInv'
 <2>1. CASE BidTimeout(c)
   BY <2>1, MoveKeepsLease DEF BidTimeout
 <2>2. CASE PlayTimeout(c) \/ OfflineTimeout(c)
   BY <2>2
   DEF PlayTimeout, OfflineTimeout, LeaseInv, leaseVars, gameVars, Settled
 <2> QED
   BY <1>2, <2>1, <2>2
<1>3. ASSUME NEW m \in autoMoves, MakeAutoMove(m)
      PROVE  LeaseInv'
  BY <1>3, MoveKeepsLease DEF MakeAutoMove
<1>4. ASSUME NEW seat \in Seat, Send(seat) \/ PlayerOffline(seat) \/ PlayerOnline(seat)
      PROVE  LeaseInv'
  BY <1>4
  DEF Send, PlayerOffline, PlayerOnline, LeaseInv, leaseVars, gameVars, Settled
<1>5. ASSUME FireTurnTimer \/ FireLostTimer \/ FireOfflineTimer
             \/ PauseInitialOfflineTurn
      PROVE  LeaseInv'
  BY <1>5
  DEF FireTurnTimer, FireLostTimer, FireOfflineTimer, PauseInitialOfflineTurn,
      LeaseInv, leaseVars, gameVars, Settled
<1>6. CASE StartSession
  BY <1>6
  DEF StartSession, Start, StartBiddingRound, LeaseInv, leaseVars, Settled
<1>7. CASE SetQuiescenceRelease
  BY <1>7 DEF SetQuiescenceRelease, LeaseInv, gameVars, Settled
<1>8. CASE ReopenRoom
  BY <1>8 DEF ReopenRoom, ResetAfterGame, LeaseInv, leaseVars, Settled
<1>9. CASE RecordResults
  BY <1>9 DEF RecordResults, LeaseInv, gameVars, Settled
<1>10. CASE ReleaseAfterGame
  BY <1>10, ReleaseKeepsOnce DEF ReleaseAfterGame, LeaseInv, gameVars, Settled
<1>11. CASE ReleaseAfterRetire
  BY <1>11, ReleaseKeepsOnce DEF ReleaseAfterRetire, LeaseInv, gameVars, Settled
<1>12. CASE Retire
  BY <1>12 DEF Retire, LeaseInv, gameVars, Settled
<1>13. CASE UNCHANGED sessionVars
  BY <1>13 DEF sessionVars, leaseVars, gameVars, LeaseInv, Settled
<1> QED
  BY <1>1, <1>2, <1>3, <1>4, <1>5, <1>6, <1>7, <1>8, <1>9, <1>10, <1>11,
<1>12, <1>13
DEF SessionNext, Callback, Dispatch

LEMMA LeaseInvariant == SessionSpec => []LeaseInv
<1>1. SessionInit => LeaseInv
  BY DEF SessionInit, Init, LeaseInv
<1>2. GameInv /\ CardsConserved /\ LeaseInv /\ [SessionNext]_sessionVars
        => LeaseInv'
  BY LeaseStep DEF GameInv
<1> QED
  BY <1>1, <1>2, SessionGameInvariant, PTL DEF SessionSpec

\* The start lease comes back at most once and never before the session is
\* retired, or its results are recorded and the room is open again
\* (delivery.go:67-98, game.go:114-151).
THEOREM LeaseReleasedOnce == SessionSpec => []LeaseReleasedOnceSettled
<1>1. LeaseInv => LeaseReleasedOnceSettled
  BY DEF LeaseInv, Settled, LeaseReleasedOnceSettled
<1> QED
  BY <1>1, LeaseInvariant, PTL

-----------------------------------------------------------------------------
(* Moves are made for the turn they end                                    *)

\* Timers and automatic moves carry a turn, a move of the play timer the one
\* the timer was armed in; of commands only a bid of a bot does not. Turns are
\* numbered from one.
Turn == Nat \ {Unversioned}
Armed == [kind : {"bid", "play", "offline"}, player : Seat, turn : Turn,
          fired : BOOLEAN]

VersionInv ==
  /\ state \in {"Bidding", "Playing"} => turnID \in Turn
  /\ turnTimer \in Armed \cup {NoTimer}
  /\ offlineWaitTimer \in Armed \cup {NoTimer}
  /\ \A t \in lostTimers : t.turn \in Turn
  /\ \A t \in callbacks : t.turn \in Turn
  /\ \A m \in autoMoves :
       m.turn \in Turn /\ (m.armed = m.turn \/ m.timer = "offline")
  /\ \A c \in inbox :
       c.turn \in Turn \/ (c.op \in {"bid", "noBid"} /\ c.player \in Bots)

LEMMA ArmedHasTurn ==
  /\ \A t \in Armed : Content(t).turn \in Turn
  /\ \A t \in Armed : [t EXCEPT !.fired = TRUE] \in Armed
  /\ \A kind \in {"bid", "play", "offline"}, player \in Seat, turn \in Turn :
       ArmedTimer(kind, player, turn) \in Armed
  BY DEF Armed, Content, ArmedTimer

\* A step of the game that asks a seat numbers the turn anew.
LEMMA TurnStep ==
  ASSUME TypeOK, VersionInv, [Next]_gameVars
  PROVE  /\ state' \in {"Bidding", "Playing"} => turnID' \in Turn
         /\ turnID' # turnID => turnID' \in Turn
<1>1. turnID \in Nat /\ turnID + 1 \in Turn
  BY DEF TypeOK, Turn, Unversioned
<1>2. turnID' = turnID + 1 \/ turnID' = turnID
  BY DEF Next, Start, StartBiddingRound, Bid, Call, NoCall, Grab, Redeal,
         SetLandlord, AskToBid, PlayCards, EndGame, AskToPlay, Pass,
         ResetAfterGame, gameVars
<1>3. CASE turnID' = turnID + 1
  BY <1>1, <1>3
<1>4. CASE turnID' = turnID
 <2>1. state' \in {"Bidding", "Playing"} => state \in {"Bidding", "Playing"}
   BY <1>1, <1>4
   DEF Next, Start, StartBiddingRound, Bid, PlayCards, EndGame, Pass,
       ResetAfterGame, gameVars
 <2> QED
   BY <1>4, <2>1 DEF VersionInv
<1> QED
  BY <1>2, <1>3, <1>4

\* A move is refused or arms the timer of the turn it begins.
LEMMA MoveNumbersTimers ==
  ASSUME TypeOK, TypeOK', CardsConserved, VersionInv,
         NEW op, NEW player, NEW cards, NEW turn, Move(op, player, cards, turn)
  PROVE  /\ state' \in {"Bidding", "Playing"} => turnID' \in Turn
         /\ turnTimer' \in Armed \cup {NoTimer}
         /\ offlineWaitTimer' \in Armed \cup {NoTimer}
         /\ UNCHANGED lostTimers
<1>1. [Next]_gameVars
  BY MovePlays
<1>2. CASE Rejected
  BY <1>1, <1>2, TurnStep DEF Rejected, timerVars, VersionInv
<1>3. CASE TimersAfterMove
 <2>1. currentBidder' \in Seat /\ currentPlayer' \in Seat
   BY DEF TypeOK
 <2> QED
   BY <1>1, <1>3, <2>1, TurnStep, ArmedHasTurn DEF TimersAfterMove
<1> QED
  BY <1>2, <1>3 DEF Move, CommitMove

LEMMA VersionStep ==
  ASSUME TypeOK, TypeOK', CardsConserved, VersionInv, [SessionNext]_sessionVars
  PROVE  VersionInv'
<1>1. ASSUME NEW c \in inbox, HandleCommand(c)
      PROVE  VersionInv'
 <2>1. CASE Rejected
   BY <1>1, <2>1 DEF HandleCommand, Rejected, VersionInv, gameVars, timerVars
 <2>2. CASE Move(c.op, c.player, c.cards, c.turn)
   BY <1>1, <2>2, MoveNumbersTimers DEF HandleCommand, VersionInv
 <2> QED
   BY <1>1, <2>1, <2>2 DEF HandleCommand
<1>2. ASSUME NEW c \in callbacks, BidTimeout(c)
      PROVE  VersionInv'
  BY <1>2, MoveNumbersTimers DEF BidTimeout, VersionInv
<1>3. ASSUME NEW m \in autoMoves, MakeAutoMove(m)
      PROVE  VersionInv'
  BY <1>3, MoveNumbersTimers DEF MakeAutoMove, VersionInv
<1>4. ASSUME NEW c \in callbacks, PlayTimeout(c)
      PROVE  VersionInv'
 <2> DEFINE auto == FindSmallestBeatingCards(hands[currentPlayer], lastPlayedHand)
            move == IF auto # NoCards THEN AutoMove(c, "play", auto)
                                      ELSE AutoMove(c, "pass", NoCards)
 <2>1. CASE autoMoves' = autoMoves
   BY <1>4, <2>1 DEF PlayTimeout, VersionInv, gameVars, timerVars
 <2>2. CASE ForThisTurn(c.turn) /\ autoMoves' = autoMoves \cup {move}
  <3>1. c.turn = turnID /\ c.turn \in Turn
    BY <2>2 DEF VersionInv, ForThisTurn, Turn
  <3>2. move.turn = turnID /\ move.armed = c.turn
    BY DEF AutoMove
  <3> HIDE DEF move
  <3>3. \A m \in autoMoves' :
          m.turn \in Turn /\ (m.armed = m.turn \/ m.timer = "offline")
    BY <2>2, <3>1, <3>2 DEF VersionInv
  <3> QED BY <1>4, <3>3 DEF PlayTimeout, VersionInv, gameVars, timerVars
 <2> QED BY <1>4, <2>1, <2>2 DEF PlayTimeout
<1>5. ASSUME NEW c \in callbacks, OfflineTimeout(c)
      PROVE  VersionInv'
 <2>1. IsCurrent(c.player) => turnID \in Turn
   BY DEF VersionInv, IsCurrent
 <2>2. c.kind = "offline"
   BY <1>5 DEF OfflineTimeout
 <2>3. \A op, cards : /\ AutoMove(c, op, cards).turn = turnID
                     /\ AutoMove(c, op, cards).timer = "offline"
   BY <2>2 DEF AutoMove
 <2>4. CASE autoMoves' = autoMoves
   BY <1>5, <2>4 DEF OfflineTimeout, VersionInv, gameVars, timerVars
 <2>5. CASE ~(autoMoves' = autoMoves)
  <3>1. PICK op, cards :
          IsCurrent(c.player) /\ autoMoves' = autoMoves \cup {AutoMove(c, op, cards)}
    BY <1>5, <2>5 DEF OfflineTimeout
  <3>2. \A m \in autoMoves' :
          m.turn \in Turn /\ (m.armed = m.turn \/ m.timer = "offline")
    BY <2>1, <2>3, <3>1 DEF VersionInv
  <3> QED BY <1>5, <3>2 DEF OfflineTimeout, VersionInv, gameVars, timerVars
 <2> QED BY <2>4, <2>5
<1>6. ASSUME NEW seat \in Seat, Send(seat)
      PROVE  VersionInv'
  BY <1>6 DEF Send, IsCurrent, Version, VersionInv, gameVars, timerVars
<1>7. ASSUME NEW seat \in Seat, PlayerOffline(seat)
      PROVE  VersionInv'
 <2>1. IsCurrent(seat) => turnID \in Turn
   BY DEF VersionInv, IsCurrent
 <2> QED
   BY <1>7, <2>1, ArmedHasTurn
   DEF PlayerOffline, PauseOfflineTurn, VersionInv, gameVars, timerVars,
       queueVars
<1>8. ASSUME NEW seat \in Seat, PlayerOnline(seat)
      PROVE  VersionInv'
 <2>1. IsCurrent(seat) => turnID \in Turn
   BY DEF VersionInv, IsCurrent
 <2> QED
   BY <1>8, <2>1, ArmedHasTurn
   DEF PlayerOnline, ResumeTurn, VersionInv, gameVars, queueVars, Running
<1>9. CASE FireTurnTimer \/ FireLostTimer \/ FireOfflineTimer
  BY <1>9, ArmedHasTurn
  DEF FireTurnTimer, FireLostTimer, FireOfflineTimer, Running, VersionInv,
      gameVars
<1>10. CASE StartSession
 <2>1. currentBidder' \in Seat /\ currentPlayer' \in Seat
   BY DEF TypeOK
 <2>2. [Next]_gameVars
   BY <1>10 DEF StartSession, Next
 <2> QED
   BY <1>10, <2>1, <2>2, TurnStep, ArmedHasTurn
   DEF StartSession, TimersAfterMove, VersionInv, queueVars
<1>11. CASE PauseInitialOfflineTurn
 <2>1. state = "Bidding" => turnID \in Turn /\ currentBidder \in Seat
   BY DEF VersionInv, TypeOK
 <2> QED
   BY <1>11, <2>1, ArmedHasTurn
   DEF PauseInitialOfflineTurn, PauseOfflineTurn, VersionInv, gameVars,
       timerVars, queueVars
<1>12. CASE ReopenRoom
  BY <1>12
  DEF ReopenRoom, ResetAfterGame, VersionInv, timerVars, queueVars
<1>13. ASSUME \/ SetQuiescenceRelease \/ RecordResults \/ ReleaseAfterGame
              \/ ReleaseAfterRetire \/ Retire \/ UNCHANGED sessionVars
       PROVE  VersionInv'
  BY <1>13
  DEF SetQuiescenceRelease, RecordResults, ReleaseAfterGame,
      ReleaseAfterRetire, Retire, VersionInv, gameVars, timerVars, queueVars,
      sessionVars
<1> QED
  BY <1>1, <1>2, <1>3, <1>4, <1>5, <1>6, <1>7, <1>8, <1>9, <1>10, <1>11,
<1>12, <1>13
DEF SessionNext, Callback, Dispatch

LEMMA VersionInvariant == SessionSpec => []VersionInv
<1>1. SessionInit => VersionInv
  BY DEF SessionInit, Init, VersionInv
<1>2. /\ TypeOK /\ TypeOK' /\ CardsConserved /\ VersionInv
      /\ [SessionNext]_sessionVars
      => VersionInv'
  BY VersionStep
<1>3. GameInv => TypeOK
  BY DEF GameInv
<1> QED
  BY <1>1, <1>2, <1>3, SessionGameInvariant, PTL DEF SessionSpec

\* A move that changes the game is made by the seat that is asked, and for its
\* turn unless it does not say which.
LEMMA MoveMadeWhenAllowed ==
  ASSUME NEW op, NEW player, NEW cards, NEW turn, Move(op, player, cards, turn),
         MoveMade
  PROVE  /\ player = SeatToMove /\ turn \in {Unversioned, turnID}
         /\ op \in {"bid", "noBid"} => state = "Bidding"
<1>1. ~Rejected
  BY DEF MoveMade, Rejected, gameVars
<1> QED
  BY <1>1 DEF Move, MayMove, ForThisTurn, IsCurrent

LEMMA MovesStep ==
  ASSUME VersionInv, [SessionNext]_sessionVars, MoveMade
  PROVE  MadeForThisTurn
<1>1. ASSUME NEW c \in inbox, HandleCommand(c)
      PROVE  MadeForThisTurn
 <2>1. c \in Consumed
   BY <1>1 DEF HandleCommand, Consumed
 <2>2. ~Rejected
   BY DEF MoveMade, Rejected, gameVars
 <2>3. /\ c.player = SeatToMove /\ c.turn \in {Unversioned, turnID}
       /\ c.op \in {"bid", "noBid"} => state = "Bidding"
   BY <1>1, <2>2, MoveMadeWhenAllowed DEF HandleCommand
 <2>4. c.turn \in Turn \/ (c.op \in {"bid", "noBid"} /\ c.player \in Bots)
   BY DEF VersionInv
 <2> QED
   BY <2>1, <2>3, <2>4 DEF MadeForThisTurn, VersionInv, Turn
<1>2. ASSUME NEW c \in callbacks, BidTimeout(c)
      PROVE  MadeForThisTurn
 <2>1. c \in Consumed
   BY <1>2 DEF BidTimeout, Consumed
 <2>2. c.player = SeatToMove /\ c.turn \in {Unversioned, turnID}
   BY <1>2, MoveMadeWhenAllowed DEF BidTimeout
 <2> QED
   BY <2>1, <2>2 DEF MadeForThisTurn, VersionInv, Turn
<1>3. ASSUME NEW m \in autoMoves, MakeAutoMove(m)
      PROVE  MadeForThisTurn
 <2>1. m \in Consumed
   BY <1>3 DEF MakeAutoMove, Consumed
 <2>2. m.player = SeatToMove /\ m.turn \in {Unversioned, turnID}
   BY <1>3, MoveMadeWhenAllowed DEF MakeAutoMove
 <2> QED
   BY <2>1, <2>2 DEF MadeForThisTurn, VersionInv, Turn
<1>4. ASSUME NEW seat \in Seat, Send(seat) \/ PlayerOffline(seat) \/ PlayerOnline(seat)
      PROVE  ~MoveMade
  BY <1>4 DEF Send, PlayerOffline, PlayerOnline, MoveMade, gameVars
<1>5. ASSUME NEW c \in callbacks, PlayTimeout(c) \/ OfflineTimeout(c)
      PROVE  ~MoveMade
  BY <1>5 DEF PlayTimeout, OfflineTimeout, MoveMade, gameVars
<1>6. ASSUME \/ SetQuiescenceRelease \/ FireTurnTimer \/ FireLostTimer
             \/ FireOfflineTimer \/ PauseInitialOfflineTurn \/ RecordResults
             \/ ReleaseAfterGame \/ ReleaseAfterRetire \/ Retire
             \/ ReopenRoom \/ StartSession \/ UNCHANGED sessionVars
      PROVE  ~MoveMade
  BY <1>6
  DEF SetQuiescenceRelease, FireTurnTimer, FireLostTimer, FireOfflineTimer,
      PauseInitialOfflineTurn, RecordResults, ReleaseAfterGame,
      ReleaseAfterRetire, Retire, ReopenRoom, ResetAfterGame, StartSession,
      Start, sessionVars, gameVars, MoveMade
<1> QED
  BY <1>1, <1>2, <1>3, <1>4, <1>5, <1>6
  DEF SessionNext, Callback, Dispatch

\* No late, repeated or stale command, timer callback or automatic move ends a
\* turn it was not made for (bid.go:44-69, play.go:126-146 and 185-210), except
\* for the two that do not say which turn that is: a bid of a bot (bot.go:407)
\* and the callback of an offline timer (timer.go:166-168), whose move is still
\* one chosen in the turn it ends.
THEOREM TurnsEndOnTheirOwnMoves == SessionSpec => MovesAreForThisTurn
<1>1. VersionInv /\ [SessionNext]_sessionVars
        => [MoveMade => MadeForThisTurn]_sessionVars
  BY MovesStep
<1> QED
  BY <1>1, VersionInvariant, PTL DEF SessionSpec, MovesAreForThisTurn

-----------------------------------------------------------------------------
(* Every turn has something that ends it                                   *)

Live == state \in {"Bidding", "Playing"} /\ ~retired
TurnKind == IF state = "Bidding" THEN "bid" ELSE "play"

\* A turn timer, running, lost or on its way, is for a turn of the past or for
\* the seat that is asked now.
Fits(t) ==
  /\ t.kind \in {"bid", "play"} /\ t.turn <= turnID
  /\ Live /\ t.turn = turnID => t.player = SeatToMove /\ t.kind = TurnKind

\* The rules allow the move in the present state.
Allowed(op, cards) ==
  \/ op = "noBid" /\ state = "Bidding"
  \/ op = "play" /\ state = "Playing" /\ AcceptsPlay(cards)
  \/ op = "pass" /\ state = "Playing" /\ ~MustPlay

TimersFit ==
  /\ turnTimer # NoTimer => Fits(turnTimer) /\ (Live => turnTimer.turn = turnID)
  /\ \A t \in lostTimers : Fits(t)
  /\ \A c \in callbacks : c.kind = "offline" \/ Fits(c)
  /\ offlineWaitTimer # NoTimer =>
       /\ offlineWaitTimer.kind = "offline" /\ offlineWaitTimer.player \in Flaky
       /\ Live => offlineWaitTimer.player = SeatToMove
  /\ \A s \in Seat : isOffline[s] => s \in Flaky

MovesFit ==
  \A m \in autoMoves :
    /\ m.turn <= turnID
    /\ Live /\ m.turn = turnID => m.player = SeatToMove /\ Allowed(m.op, m.cards)

\* A driver that has fired: nothing but the end of the turn takes it away.
Fired ==
  \/ \E d \in lostTimers \cup callbacks : DrivesTurn(d)
  \/ \E m \in autoMoves : m.turn = turnID /\ m.player = SeatToMove

Driven ==
  Live => /\ Fired \/ Running(turnTimer) \/ Running(offlineWaitTimer)
          /\ turnTimer # NoTimer /\ turnTimer.fired => Fired
          /\ ~remainingTime => Fired

Fitting == TimersFit /\ MovesFit /\ Driven

LEMMA ContentTyped ==
  ASSUME NEW t \in Armed
  PROVE  /\ Content(t) \in Timer
         /\ Content(t).kind = t.kind /\ Content(t).player = t.player
         /\ Content(t).turn = t.turn
  BY DEF Armed, Timer, Content, Turn

LEMMA TurnsAreNumbers ==
  ASSUME TypeOK, VersionInv
  PROVE  /\ turnID \in Nat
         /\ turnTimer # NoTimer => turnTimer.turn \in Nat
         /\ \A t \in lostTimers \cup callbacks : t.turn \in Nat
         /\ \A m \in autoMoves : m.turn \in Nat /\ m.turn # Unversioned
  BY DEF TypeOK, VersionInv, Turn, Armed

\* Everything that was made for a turn, and the seat that is asked, is what it
\* was as long as the game does not move.
LEMMA GameStays ==
  ASSUME UNCHANGED gameVars, UNCHANGED retired
  PROVE  /\ Live' = Live /\ TurnKind' = TurnKind /\ SeatToMove' = SeatToMove
         /\ turnID' = turnID /\ MustPlay' = MustPlay
         /\ \A op, cards : Allowed(op, cards)' = Allowed(op, cards)
         /\ \A t : Fits(t)' = Fits(t) /\ DrivesTurn(t)' = DrivesTurn(t)
<1>1. /\ state' = state /\ turnID' = turnID /\ currentBidder' = currentBidder
      /\ currentPlayer' = currentPlayer /\ hands' = hands
      /\ lastPlayedHand' = lastPlayedHand /\ lastPlayerIdx' = lastPlayerIdx
  BY DEF gameVars, bidVars, cardVars, playVars
<1>2. /\ Live' = Live /\ TurnKind' = TurnKind /\ SeatToMove' = SeatToMove
      /\ MustPlay' = MustPlay
  BY <1>1 DEF Live, TurnKind, SeatToMove, MustPlay
<1>3. ASSUME NEW op, NEW cards PROVE Allowed(op, cards)' = Allowed(op, cards)
  BY <1>1, <1>2 DEF Allowed, AcceptsPlay
<1>4. ASSUME NEW t PROVE Fits(t)' = Fits(t) /\ DrivesTurn(t)' = DrivesTurn(t)
  BY <1>1, <1>2 DEF Fits, DrivesTurn
<1> QED BY <1>1, <1>2, <1>3, <1>4

\* A move was accepted, or the game was dealt.
NewTurn ==
  /\ UNCHANGED << isOffline, retired, lostTimers >> /\ offlineWaitTimer' = NoTimer
  /\ \/ state' = "Ended" /\ turnID' = turnID /\ turnTimer' = NoTimer
     \/ /\ turnID' = turnID + 1
        /\ turnTimer' = ArmedTimer(TurnKind', SeatToMove', turnID')
        /\ remainingTime' = TRUE

LEMMA NewTurnDrives ==
  ASSUME TypeOK, VersionInv, TimersFit, MovesFit, NewTurn,
         callbacks' \subseteq callbacks, autoMoves' \subseteq autoMoves
  PROVE  TimersFit' /\ MovesFit' /\ Driven'
<1>1. /\ turnID \in Nat
      /\ \A t \in lostTimers \cup callbacks : t.turn \in Nat
      /\ \A m \in autoMoves : m.turn \in Nat
  BY TurnsAreNumbers
<1>2. /\ lostTimers' = lostTimers /\ isOffline' = isOffline
      /\ offlineWaitTimer' = NoTimer
  BY DEF NewTurn
<1>3. CASE state' = "Ended" /\ turnID' = turnID /\ turnTimer' = NoTimer
 <2>1. ~Live'
   BY <1>3 DEF Live
 <2>2. \A t : Fits(t) => Fits(t)'
   BY <1>3, <2>1 DEF Fits
 <2>3. TimersFit'
   BY <1>2, <1>3, <2>1, <2>2 DEF TimersFit
 <2>4. MovesFit'
   BY <1>3, <2>1 DEF MovesFit
 <2> QED BY <2>1, <2>3, <2>4 DEF Driven
<1>4. CASE /\ turnID' = turnID + 1
           /\ turnTimer' = ArmedTimer(TurnKind', SeatToMove', turnID')
           /\ remainingTime' = TRUE
 <2>1. \A t : Fits(t) /\ t.turn \in Nat => Fits(t)'
   BY <1>1, <1>4 DEF Fits
 <2>2. /\ turnTimer'.kind = TurnKind' /\ turnTimer'.player = SeatToMove'
       /\ turnTimer'.turn = turnID' /\ turnTimer'.fired = FALSE
   BY <1>4 DEF ArmedTimer
 <2>3. Fits(turnTimer)'
   BY <1>1, <1>4, <2>2 DEF Fits, TurnKind
 <2>4. TimersFit'
   BY <1>1, <1>2, <2>1, <2>2, <2>3 DEF TimersFit
 <2>5. MovesFit'
   BY <1>1, <1>4 DEF MovesFit
 <2>6. Running(turnTimer)'
   BY <1>4, <2>2 DEF Running, NoTimer, ArmedTimer
 <2> QED BY <1>4, <2>2, <2>4, <2>5, <2>6 DEF Driven
<1> QED BY <1>3, <1>4 DEF NewTurn

\* A move begins the next turn or ends the game.
LEMMA TurnsAdvance ==
  ASSUME \/ \E bid \in BOOLEAN : Bid(bid)
         \/ \E cards : PlayCards(cards)
         \/ Pass
  PROVE  \/ state' = "Ended" /\ turnID' = turnID
         \/ state' \in {"Bidding", "Playing"} /\ turnID' = turnID + 1
<1>1. ASSUME NEW bid \in BOOLEAN, Bid(bid)
      PROVE  state' \in {"Bidding", "Playing"} /\ turnID' = turnID + 1
  BY <1>1 DEF Bid, Call, NoCall, Grab, Redeal, StartBiddingRound, SetLandlord, AskToBid
<1>2. ASSUME NEW cards, PlayCards(cards)
      PROVE  \/ state' = "Ended" /\ turnID' = turnID
             \/ state' \in {"Bidding", "Playing"} /\ turnID' = turnID + 1
  BY <1>2 DEF PlayCards, EndGame, AskToPlay
<1>3. ASSUME Pass
      PROVE  state' \in {"Bidding", "Playing"} /\ turnID' = turnID + 1
  BY <1>3 DEF Pass, AskToPlay
<1> QED BY <1>1, <1>2, <1>3

LEMMA TimersOfNewTurn ==
  ASSUME TypeOK, TimersAfterMove, UNCHANGED << isOffline, retired >>,
         \/ state' = "Ended" /\ turnID' = turnID
         \/ state' \in {"Bidding", "Playing"} /\ turnID' = turnID + 1
  PROVE  NewTurn
<1>1. turnID \in Nat
  BY DEF TypeOK
<1>2. lostTimers' = lostTimers /\ offlineWaitTimer' = NoTimer
  BY DEF TimersAfterMove
<1>3. CASE state' = "Ended" /\ turnID' = turnID
  BY <1>2, <1>3 DEF NewTurn, TimersAfterMove
<1>4. CASE state' \in {"Bidding", "Playing"} /\ turnID' = turnID + 1
 <2>1. turnID' # turnID
   BY <1>1, <1>4
 <2>2. turnTimer' = ArmedTimer(TurnKind', SeatToMove', turnID') /\ remainingTime' = TRUE
   BY <1>4, <2>1 DEF TimersAfterMove, TurnKind, SeatToMove
 <2> QED BY <1>2, <1>4, <2>2 DEF NewTurn
<1> QED BY <1>3, <1>4

\* A move is refused, or it ends the turn; what is allowed to the seat that is
\* asked is not refused.
LEMMA MoveEndsTurn ==
  ASSUME TypeOK, NEW op, NEW player, NEW cards, NEW turn, Move(op, player, cards, turn)
  PROVE  \/ NewTurn
         \/ /\ Rejected
            /\ ~(Live /\ turn = turnID /\ player = SeatToMove /\ Allowed(op, cards))
<1>2. CASE CommitMove(Bid(TRUE)) \/ CommitMove(Bid(FALSE))
 <2>1. \E bid \in BOOLEAN : Bid(bid)
   BY <1>2 DEF CommitMove
 <2>2. TimersAfterMove /\ UNCHANGED << isOffline, retired >>
   BY <1>2 DEF CommitMove
 <2> QED BY <2>1, <2>2, TurnsAdvance, TimersOfNewTurn
<1>3. CASE CommitMove(PlayCards(cards))
 <2>1. PlayCards(cards) /\ TimersAfterMove /\ UNCHANGED << isOffline, retired >>
   BY <1>3 DEF CommitMove
 <2> QED BY <2>1, TurnsAdvance, TimersOfNewTurn
<1>4. CASE CommitMove(Pass)
 <2>1. Pass /\ TimersAfterMove /\ UNCHANGED << isOffline, retired >>
   BY <1>4 DEF CommitMove
 <2> QED BY <2>1, TurnsAdvance, TimersOfNewTurn
<1>5. CASE /\ \/ ~MayMove(player, turn)
              \/ op \in {"bid", "noBid"} /\ state # "Bidding"
              \/ op = "play" /\ (state # "Playing" \/ ~AcceptsPlay(cards))
              \/ op = "pass" /\ (state # "Playing" \/ MustPlay)
           /\ Rejected
  BY <1>5 DEF Live, Allowed, MayMove, ForThisTurn, IsCurrent
<1> QED BY <1>2, <1>3, <1>4, <1>5 DEF Move

LEMMA MovesStayFit ==
  ASSUME MovesFit, UNCHANGED << gameVars, retired >>, autoMoves' \subseteq autoMoves
  PROVE  MovesFit'
  BY GameStays DEF MovesFit

LEMMA NothingDriven ==
  ASSUME Fitting,
         UNCHANGED << gameVars, retired, isOffline, timerVars, callbacks, autoMoves >>
  PROVE  Fitting'
<1>1. /\ turnTimer' = turnTimer /\ offlineWaitTimer' = offlineWaitTimer
      /\ lostTimers' = lostTimers /\ remainingTime' = remainingTime
      /\ callbacks' = callbacks /\ autoMoves' = autoMoves /\ isOffline' = isOffline
  BY DEF timerVars
<1>2. TimersFit'
  BY <1>1, GameStays DEF Fitting, TimersFit
<1>3. MovesFit'
  BY <1>1, MovesStayFit DEF Fitting
<1>4. Fired' = Fired
  BY <1>1, GameStays DEF Fired
<1>5. Driven'
  BY <1>1, <1>4, GameStays DEF Fitting, Driven, Running
<1> QED BY <1>2, <1>3, <1>5 DEF Fitting

LEMMA FiringDrives ==
  ASSUME VersionInv, Fitting, FireTurnTimer \/ FireOfflineTimer \/ FireLostTimer
  PROVE  Fitting'
<1>1. CASE FireTurnTimer
 <2>1. /\ turnTimer \in Armed /\ turnTimer # NoTimer
       /\ turnTimer' = [turnTimer EXCEPT !.fired = TRUE]
       /\ callbacks' = callbacks \cup {Content(turnTimer)}
       /\ UNCHANGED << gameVars, retired, isOffline, offlineWaitTimer, lostTimers,
                       remainingTime, autoMoves >>
   BY <1>1 DEF FireTurnTimer, Running, VersionInv
 <2>2. PICK c \in callbacks' : /\ c = Content(turnTimer)
                               /\ c.kind = turnTimer.kind /\ c.turn = turnTimer.turn
                               /\ c.player = turnTimer.player
   BY <2>1, ContentTyped
 <2>3. /\ turnTimer'.kind = c.kind /\ turnTimer'.turn = c.turn
       /\ turnTimer'.player = c.player /\ turnTimer'.fired = TRUE
   BY <2>1, <2>2 DEF Armed
 <2>4. Fits(turnTimer) /\ (Live => c.turn = turnID)
   BY <2>1, <2>2 DEF Fitting, TimersFit
 <2>5. Fits(c) /\ Fits(turnTimer')
   BY <2>2, <2>3, <2>4 DEF Fits
 <2>6. callbacks' = callbacks \cup {c}
   BY <2>1, <2>2
 <2>7. TimersFit'
  <3>1. Fits(turnTimer)'
    BY <2>1, <2>3, <2>4, GameStays DEF Fits
  <3> QED BY <2>1, <2>3, <2>4, <2>5, <2>6, <3>1, GameStays DEF Fitting, TimersFit
 <2>8. MovesFit'
   BY <2>1, MovesStayFit DEF Fitting
 <2>9. Live => DrivesTurn(c)
   BY <2>4, <2>5 DEF DrivesTurn, Fits
 <2>10. Live' => Fired'
   BY <2>1, <2>2, <2>9, GameStays DEF Fired
 <2> QED BY <2>7, <2>8, <2>10 DEF Fitting, Driven
<1>2. CASE FireOfflineTimer
 <2>1. /\ offlineWaitTimer \in Armed /\ offlineWaitTimer # NoTimer
       /\ offlineWaitTimer' = [offlineWaitTimer EXCEPT !.fired = TRUE]
       /\ callbacks' = callbacks \cup {Content(offlineWaitTimer)}
       /\ UNCHANGED << gameVars, retired, isOffline, turnTimer, lostTimers,
                       remainingTime, autoMoves >>
   BY <1>2 DEF FireOfflineTimer, Running, VersionInv
 <2>2. PICK c \in callbacks' : /\ c = Content(offlineWaitTimer)
                               /\ c.kind = offlineWaitTimer.kind
                               /\ c.player = offlineWaitTimer.player
   BY <2>1, ContentTyped
 <2>3. /\ offlineWaitTimer'.kind = c.kind /\ offlineWaitTimer'.player = c.player
   BY <2>1, <2>2 DEF Armed
 <2>4. c.kind = "offline" /\ c.player \in Flaky /\ (Live => c.player = SeatToMove)
   BY <2>1, <2>2 DEF Fitting, TimersFit
 <2>5. callbacks' = callbacks \cup {c}
   BY <2>1, <2>2
 <2>6. TimersFit'
   BY <2>1, <2>3, <2>4, <2>5, GameStays DEF Fitting, TimersFit
 <2>7. MovesFit'
   BY <2>1, MovesStayFit DEF Fitting
 <2>8. Live => DrivesTurn(c)
   BY <2>4 DEF DrivesTurn
 <2>9. Live' => Fired'
   BY <2>1, <2>2, <2>8, GameStays DEF Fired
 <2> QED BY <2>6, <2>7, <2>9 DEF Fitting, Driven
<1>3. CASE FireLostTimer
 <2>1. PICK t \in lostTimers : /\ lostTimers' = lostTimers \ {t}
                               /\ callbacks' = callbacks \cup {t}
   BY <1>3 DEF FireLostTimer
 <2>2. UNCHANGED << gameVars, retired, isOffline, turnTimer, offlineWaitTimer,
                    remainingTime, autoMoves >>
   BY <1>3 DEF FireLostTimer
 <2>3. TimersFit'
   BY <2>1, <2>2, GameStays DEF Fitting, TimersFit
 <2>4. MovesFit'
   BY <2>2, MovesStayFit DEF Fitting
 <2>5. lostTimers' \cup callbacks' = lostTimers \cup callbacks
   BY <2>1
 <2>6. Fired' = Fired
   BY <2>2, <2>5, GameStays DEF Fired
 <2> QED BY <2>2, <2>3, <2>4, <2>6, GameStays DEF Fitting, Driven, Running
<1> QED BY <1>1, <1>2, <1>3

\* What has fired is still there, or has become a move for the turn.
LEMMA StillFired ==
  ASSUME UNCHANGED << gameVars, retired >>,
         \A d \in lostTimers \cup callbacks :
           DrivesTurn(d) => d \in lostTimers' \cup callbacks' \/ Fired',
         \A m \in autoMoves : m.turn = turnID /\ m.player = SeatToMove => m \in autoMoves',
         Fired
  PROVE  Fired'
<1>1. CASE \E d \in lostTimers \cup callbacks : DrivesTurn(d)
  BY <1>1, GameStays DEF Fired
<1>2. CASE \E m \in autoMoves : m.turn = turnID /\ m.player = SeatToMove
  BY <1>2, GameStays DEF Fired
<1> QED BY <1>1, <1>2 DEF Fired

LEMMA CommandDrives ==
  ASSUME TypeOK, VersionInv, Fitting, NEW c \in inbox, HandleCommand(c)
  PROVE  Fitting'
<1>1. UNCHANGED << callbacks, autoMoves >>
  BY DEF HandleCommand
<1>2. CASE Rejected
  BY <1>1, <1>2, NothingDriven DEF Rejected
<1>3. CASE NewTurn
  BY <1>1, <1>3, NewTurnDrives DEF Fitting
<1> QED BY <1>2, <1>3, MoveEndsTurn DEF HandleCommand

LEMMA BidTimeoutDrives ==
  ASSUME TypeOK, VersionInv, Fitting, NEW c \in callbacks, BidTimeout(c)
  PROVE  Fitting'
<1>1. c.kind = "bid" /\ callbacks' = callbacks \ {c} /\ UNCHANGED autoMoves
      /\ Move("noBid", c.player, NoCards, c.turn)
  BY DEF BidTimeout
<1>2. CASE NewTurn
  BY <1>1, <1>2, NewTurnDrives DEF Fitting
<1>3. CASE /\ Rejected
           /\ ~(Live /\ c.turn = turnID /\ c.player = SeatToMove /\ Allowed("noBid", NoCards))
 <2>1. UNCHANGED << gameVars, retired, isOffline, turnTimer, offlineWaitTimer, lostTimers,
                    remainingTime >>
   BY <1>3 DEF Rejected, timerVars
 <2>2. Fits(c)
   BY <1>1 DEF Fitting, TimersFit
 <2>3. ~(Live /\ DrivesTurn(c))
   BY <1>1, <1>3, <2>2 DEF DrivesTurn, Fits, TurnKind, Allowed
 <2>4. TimersFit'
   BY <1>1, <2>1, GameStays DEF Fitting, TimersFit
 <2>5. MovesFit'
   BY <1>1, <2>1, MovesStayFit DEF Fitting
 <2>6. Live /\ Fired => Fired'
   BY <1>1, <2>1, <2>3, StillFired
 <2> QED BY <2>1, <2>4, <2>5, <2>6, GameStays DEF Fitting, Driven, Running
<1> QED BY <1>1, <1>2, <1>3, MoveEndsTurn

LEMMA AutoMoveDrives ==
  ASSUME TypeOK, VersionInv, Fitting, NEW m \in autoMoves, MakeAutoMove(m)
  PROVE  Fitting'
<1>1. autoMoves' = autoMoves \ {m} /\ UNCHANGED callbacks
      /\ Move(m.op, m.player, m.cards, m.turn)
  BY DEF MakeAutoMove
<1>2. CASE NewTurn
  BY <1>1, <1>2, NewTurnDrives DEF Fitting
<1>3. CASE /\ Rejected
           /\ ~(Live /\ m.turn = turnID /\ m.player = SeatToMove /\ Allowed(m.op, m.cards))
 <2>1. UNCHANGED << gameVars, retired, isOffline, turnTimer, offlineWaitTimer, lostTimers,
                    remainingTime >>
   BY <1>3 DEF Rejected, timerVars
 <2>2. ~(Live /\ m.turn = turnID)
   BY <1>3 DEF Fitting, MovesFit
 <2>3. TimersFit'
   BY <1>1, <2>1, GameStays DEF Fitting, TimersFit
 <2>4. MovesFit'
   BY <1>1, <2>1, MovesStayFit DEF Fitting
 <2>5. Live /\ Fired => Fired'
   BY <1>1, <2>1, <2>2, StillFired
 <2> QED BY <2>1, <2>3, <2>4, <2>5, GameStays DEF Fitting, Driven, Running
<1> QED BY <1>1, <1>2, <1>3, MoveEndsTurn

\* A move for the present turn that the rules allow keeps everything fitting.
LEMMA ChoosingDrives ==
  ASSUME Fitting, UNCHANGED << gameVars, isOffline, retired, timerVars >>,
         NEW c \in callbacks, callbacks' = callbacks \ {c},
         NEW m, autoMoves' = autoMoves \cup {m},
         m.turn = turnID, turnID \in Nat, m.player = SeatToMove,
         Live => Allowed(m.op, m.cards)
  PROVE  Fitting'
<1>1. /\ turnTimer' = turnTimer /\ offlineWaitTimer' = offlineWaitTimer
      /\ lostTimers' = lostTimers /\ remainingTime' = remainingTime
      /\ isOffline' = isOffline
  BY DEF timerVars
<1>2. TimersFit'
  BY <1>1, GameStays DEF Fitting, TimersFit
<1>3. MovesFit'
  BY <1>1, GameStays DEF Fitting, MovesFit
<1>4. Fired'
  BY GameStays DEF Fired
<1> QED BY <1>1, <1>2, <1>3, <1>4, GameStays DEF Fitting, Driven

\* A callback that finds its turn over has driven nothing.
LEMMA StaleCallbackDrives ==
  ASSUME Fitting, UNCHANGED << gameVars, isOffline, retired, timerVars, autoMoves >>,
         NEW c \in callbacks, callbacks' = callbacks \ {c},
         ~(Live /\ DrivesTurn(c))
  PROVE  Fitting'
<1>1. /\ turnTimer' = turnTimer /\ offlineWaitTimer' = offlineWaitTimer
      /\ lostTimers' = lostTimers /\ remainingTime' = remainingTime
      /\ isOffline' = isOffline
  BY DEF timerVars
<1>2. TimersFit'
  BY <1>1, GameStays DEF Fitting, TimersFit
<1>3. MovesFit'
  BY MovesStayFit DEF Fitting
<1>4. Live /\ Fired => Fired'
  BY <1>1, StillFired
<1> QED BY <1>1, <1>2, <1>3, <1>4, GameStays DEF Fitting, Driven, Running

LEMMA PlayTimeoutDrives ==
  ASSUME TypeOK, TimeoutMoveAccepted, Fitting, NEW c \in callbacks, PlayTimeout(c)
  PROVE  /\ Fitting'
         /\ \A m \in autoMoves' \ autoMoves : m.player \in Seat /\ m.cards \in CardSet
<1> DEFINE auto == FindSmallestBeatingCards(hands[currentPlayer], lastPlayedHand)
<1>1. /\ c.kind = "play" /\ callbacks' = callbacks \ {c}
      /\ UNCHANGED << gameVars, isOffline, retired, timerVars >>
  BY DEF PlayTimeout
<1>2. CASE retired \/ state # "Playing" \/ ~ForThisTurn(c.turn)
 <2>1. autoMoves' = autoMoves
   BY <1>2 DEF PlayTimeout
 <2>2. Fits(c)
   BY <1>1 DEF Fitting, TimersFit
 <2>3. ~(Live /\ DrivesTurn(c))
   BY <1>1, <1>2, <2>2 DEF Live, Fits, DrivesTurn, TurnKind, ForThisTurn
 <2>4. Fitting'
   BY <1>1, <2>1, <2>3, StaleCallbackDrives
 <2> QED BY <2>1, <2>4
<1>3. CASE ~(retired \/ state # "Playing" \/ ~ForThisTurn(c.turn))
 <2>1. PICK m : /\ m = IF auto # NoCards THEN AutoMove(c, "play", auto)
                                        ELSE AutoMove(c, "pass", NoCards)
                /\ autoMoves' = autoMoves \cup {m}
   BY <1>3 DEF PlayTimeout
 <2>2. IF auto # NoCards THEN AcceptsPlay(auto) ELSE ~MustPlay
   BY <1>3 DEF TimeoutMoveAccepted
 <2> HIDE DEF auto
 <2>3. m.turn = turnID /\ m.player = SeatToMove /\ Allowed(m.op, m.cards)
       /\ m.cards \in CardSet
  <3>1. CASE auto # NoCards
    BY <1>3, <2>1, <2>2, <3>1 DEF AutoMove, Allowed, AcceptsPlay
  <3>2. CASE auto = NoCards
    BY <1>3, <2>1, <2>2, <3>2 DEF AutoMove, Allowed, NoCards, CardSet
  <3> QED BY <3>1, <3>2
 <2>4. turnID \in Nat /\ SeatToMove \in Seat
   BY DEF TypeOK, SeatToMove
 <2>5. Fitting'
   BY <1>1, <2>1, <2>3, <2>4, ChoosingDrives
 <2> QED BY <2>1, <2>3, <2>4, <2>5
<1> QED BY <1>2, <1>3

LEMMA OfflineTimeoutDrives ==
  ASSUME TypeOK, TimeoutMoveAccepted, HeldInv, Fitting,
         NEW c \in callbacks, OfflineTimeout(c)
  PROVE  /\ Fitting'
         /\ \A m \in autoMoves' \ autoMoves : m.player \in Seat /\ m.cards \in CardSet
<1> DEFINE mine   == hands[c.player]
           lowest == One(Min({r \in Rank : mine[r] > 0}))
<1>1. /\ c.kind = "offline" /\ callbacks' = callbacks \ {c}
      /\ UNCHANGED << gameVars, isOffline, retired, timerVars >>
  BY DEF OfflineTimeout
<1>2. CASE ~(~retired /\ IsCurrent(c.player))
 <2>1. autoMoves' = autoMoves
   BY <1>2 DEF OfflineTimeout
 <2>2. ~(Live /\ DrivesTurn(c))
   BY <1>1, <1>2 DEF Live, DrivesTurn, IsCurrent
 <2>3. Fitting'
   BY <1>1, <2>1, <2>2, StaleCallbackDrives
 <2> QED BY <2>1, <2>3
<1>3. CASE ~retired /\ IsCurrent(c.player)
 <2>1. PICK m : /\ m = IF state = "Bidding" THEN AutoMove(c, "noBid", NoCards)
                       ELSE IF MustPlay /\ mine # NoCards THEN AutoMove(c, "play", lowest)
                       ELSE AutoMove(c, "pass", NoCards)
                /\ autoMoves' = autoMoves \cup {m}
   BY <1>3 DEF OfflineTimeout
 <2>2. state = "Playing" => c.player = currentPlayer
   BY <1>3 DEF IsCurrent, SeatToMove
 <2>3. state = "Playing" /\ MustPlay => mine # NoCards /\ AcceptsPlay(lowest)
  <3>1. currentPlayer \in Seat
    BY DEF TypeOK
  <3> QED BY <2>2, <3>1 DEF TimeoutMoveAccepted, HeldInv
 <2> HIDE DEF mine, lowest
 <2>4. m.turn = turnID /\ m.player = SeatToMove
   BY <2>1 DEF AutoMove
 <2>5. Allowed(m.op, m.cards) /\ m.cards \in CardSet
  <3>1. NoCards \in CardSet
    BY DEF NoCards, CardSet
  <3>2. CASE state = "Bidding"
    BY <2>1, <3>1, <3>2 DEF AutoMove, Allowed
  <3>3. CASE state = "Playing" /\ MustPlay
    BY <2>1, <2>3, <3>3 DEF AutoMove, Allowed, AcceptsPlay
  <3>4. CASE state = "Playing" /\ ~MustPlay
    BY <2>1, <3>1, <3>4 DEF AutoMove, Allowed
  <3> QED BY <1>3, <3>2, <3>3, <3>4 DEF IsCurrent
 <2>6. turnID \in Nat /\ SeatToMove \in Seat
   BY DEF TypeOK, SeatToMove
 <2>7. Fitting'
   BY <1>1, <2>1, <2>4, <2>5, <2>6, ChoosingDrives
 <2> QED BY <2>1, <2>4, <2>5, <2>6, <2>7
<1> QED BY <1>2, <1>3

\* A pause puts the offline timer in the place of the turn timer.
LEMMA PauseDrives ==
  ASSUME TypeOK, ~StopMayBeLate, Fitting, NEW seat \in Flaky, IsCurrent(seat), ~retired,
         PauseOfflineTurn(seat), \A s \in Seat : isOffline'[s] => s \in Flaky,
         UNCHANGED << gameVars, retired, callbacks, autoMoves >>
  PROVE  Fitting'
<1>1. Live /\ seat = SeatToMove
  BY DEF Live, IsCurrent
<1>2. Fired' = Fired /\ lostTimers' = lostTimers
 <2>1. lostTimers' = lostTimers
   BY DEF PauseOfflineTurn, timerVars
 <2> QED BY <2>1, GameStays DEF Fired
<1>3. MovesFit'
  BY MovesStayFit DEF Fitting
<1>4. CASE offlineWaitTimer # NoTimer
 <2>1. UNCHANGED timerVars
   BY <1>4 DEF PauseOfflineTurn
 <2>2. /\ turnTimer' = turnTimer /\ offlineWaitTimer' = offlineWaitTimer
       /\ lostTimers' = lostTimers /\ remainingTime' = remainingTime
   BY <2>1 DEF timerVars
 <2>3. TimersFit'
   BY <2>2, GameStays DEF Fitting, TimersFit
 <2> QED BY <1>2, <1>3, <2>2, <2>3, GameStays DEF Fitting, Driven, Running
<1>5. CASE offlineWaitTimer = NoTimer
 <2>1. offlineWaitTimer' = ArmedTimer("offline", seat, turnID)
   BY <1>5 DEF PauseOfflineTurn
 <2>2. /\ offlineWaitTimer'.kind = "offline" /\ offlineWaitTimer'.player = seat
       /\ Running(offlineWaitTimer')
   BY <2>1 DEF ArmedTimer, Running, NoTimer
 <2>3. turnTimer' = NoTimer
   BY <1>5 DEF PauseOfflineTurn
 <2>4. ~remainingTime' => Fired
  <3>1. CASE turnTimer = NoTimer
    BY <1>1, <1>5, <3>1 DEF PauseOfflineTurn, Fitting, Driven
  <3>2. CASE turnTimer # NoTimer /\ turnTimer.fired
    BY <1>1, <3>2 DEF Fitting, Driven
  <3>3. CASE turnTimer # NoTimer /\ ~turnTimer.fired
    BY <1>5, <3>3 DEF PauseOfflineTurn
  <3> QED BY <3>1, <3>2, <3>3
 <2>5. TimersFit'
   BY <1>1, <1>2, <2>1, <2>2, <2>3, GameStays DEF Fitting, TimersFit
 <2>6. Driven'
   BY <1>2, <2>2, <2>3, <2>4 DEF Driven, Running
 <2> QED BY <1>3, <2>5, <2>6 DEF Fitting
<1> QED BY <1>4, <1>5

LEMMA OfflineDrives ==
  ASSUME TypeOK, isOffline \in [Seat -> BOOLEAN], ~StopMayBeLate, Fitting,
         NEW seat \in Seat, PlayerOffline(seat)
  PROVE  Fitting'
<1>1. /\ seat \in Flaky /\ ~retired
      /\ isOffline' = [isOffline EXCEPT ![seat] = TRUE]
      /\ UNCHANGED << gameVars, retired, callbacks, autoMoves >>
  BY DEF PlayerOffline, queueVars
<1>2. \A s \in Seat : isOffline'[s] => s \in Flaky
  BY <1>1 DEF Fitting, TimersFit
<1>3. CASE IsCurrent(seat)
  BY <1>1, <1>2, <1>3, PauseDrives DEF PlayerOffline
<1>4. CASE ~IsCurrent(seat)
 <2>1. UNCHANGED timerVars
   BY <1>4 DEF PlayerOffline
 <2>2. /\ turnTimer' = turnTimer /\ offlineWaitTimer' = offlineWaitTimer
       /\ lostTimers' = lostTimers /\ remainingTime' = remainingTime
   BY <2>1 DEF timerVars
 <2>3. TimersFit'
   BY <1>1, <1>2, <2>2, GameStays DEF Fitting, TimersFit
 <2>4. MovesFit'
   BY <1>1, MovesStayFit DEF Fitting
 <2>5. Fired' = Fired
   BY <1>1, <2>2, GameStays DEF Fired
 <2> QED BY <1>1, <2>2, <2>3, <2>4, <2>5, GameStays DEF Fitting, Driven, Running
<1> QED BY <1>3, <1>4

\* The offline timer is cancelled only for the one seat it can be for.
LEMMA OnlineDrives ==
  ASSUME TypeOK, VersionInv, isOffline \in [Seat -> BOOLEAN],
         \A s, t \in Flaky : s = t, Fitting,
         NEW seat \in Seat, PlayerOnline(seat)
  PROVE  Fitting'
<1>1. /\ seat \in Flaky /\ ~retired
      /\ isOffline' = [isOffline EXCEPT ![seat] = FALSE]
      /\ UNCHANGED << gameVars, retired, callbacks, autoMoves >>
      /\ offlineWaitTimer' = NoTimer /\ remainingTime' = remainingTime
  BY DEF PlayerOnline, queueVars, ResumeTurn
<1>2. \A s \in Seat : isOffline'[s] => s \in Flaky
  BY <1>1 DEF Fitting, TimersFit
<1>3. MovesFit'
  BY <1>1, MovesStayFit DEF Fitting
<1>4. CASE IsCurrent(seat) /\ remainingTime
 <2>1. /\ turnTimer' = ArmedTimer(TurnKind, seat, turnID)
       /\ lostTimers' = IF Running(turnTimer) THEN lostTimers \cup {Content(turnTimer)}
                                            ELSE lostTimers
   BY <1>4 DEF PlayerOnline, ResumeTurn, TurnKind
 <2>2. /\ turnTimer'.kind = TurnKind /\ turnTimer'.player = seat
       /\ turnTimer'.turn = turnID /\ turnTimer'.fired = FALSE
   BY <2>1 DEF ArmedTimer
 <2>3. Live /\ seat = SeatToMove /\ turnID \in Nat
   BY <1>1, <1>4 DEF Live, IsCurrent, TypeOK
 <2>4. Fits(turnTimer)'
   BY <1>1, <2>2, <2>3, GameStays DEF Fits, TurnKind
 <2>5. \A t \in lostTimers' : Fits(t)
  <3>1. CASE Running(turnTimer)
   <4>1. turnTimer \in Armed /\ turnTimer # NoTimer
     BY <3>1 DEF VersionInv, Running
   <4>2. Fits(turnTimer)
     BY <4>1 DEF Fitting, TimersFit
   <4>3. Fits(Content(turnTimer))
     BY <4>1, <4>2, ContentTyped DEF Fits
   <4> QED BY <2>1, <3>1, <4>3 DEF Fitting, TimersFit
  <3>2. CASE ~Running(turnTimer)
    BY <2>1, <3>2 DEF Fitting, TimersFit
  <3> QED BY <3>1, <3>2
 <2>6. TimersFit'
   BY <1>1, <1>2, <2>2, <2>4, <2>5, GameStays DEF Fitting, TimersFit
 <2>7. Running(turnTimer)'
   BY <2>1, <2>2 DEF Running, NoTimer, ArmedTimer
 <2>8. remainingTime'
   BY <1>1, <1>4
 <2> QED BY <1>3, <2>2, <2>6, <2>7, <2>8 DEF Fitting, Driven
<1>5. CASE ~(IsCurrent(seat) /\ remainingTime)
 <2>1. turnTimer' = turnTimer /\ lostTimers' = lostTimers
   BY <1>5 DEF PlayerOnline, ResumeTurn
 <2>2. TimersFit'
   BY <1>1, <1>2, <2>1, GameStays DEF Fitting, TimersFit
 <2>3. Fired' = Fired
   BY <1>1, <2>1, GameStays DEF Fired
 <2>4. Live /\ Running(offlineWaitTimer) => Fired
  <3>1. Live /\ Running(offlineWaitTimer) => IsCurrent(seat)
    BY <1>1 DEF Fitting, TimersFit, Running, Live, IsCurrent
  <3> QED BY <1>5, <3>1 DEF Fitting, Driven
 <2>5. Driven'
   BY <1>1, <2>1, <2>3, <2>4, GameStays DEF Fitting, Driven, Running
 <2> QED BY <1>3, <2>2, <2>5 DEF Fitting
<1> QED BY <1>4, <1>5

LEMMA InitialPauseDrives ==
  ASSUME TypeOK, ~StopMayBeLate, RetiredInv, Fitting, PauseInitialOfflineTurn
  PROVE  Fitting'
<1>1. /\ UNCHANGED << gameVars, isOffline, retired, callbacks, autoMoves >> /\ ~retired
  BY DEF PauseInitialOfflineTurn, queueVars, RetiredInv
<1>2. CASE state = "Bidding" /\ isOffline[currentBidder]
 <2>1. PICK seat \in Flaky : seat = currentBidder
   BY <1>2 DEF Fitting, TimersFit, TypeOK
 <2>2. IsCurrent(seat) /\ PauseOfflineTurn(seat)
   BY <1>2, <2>1 DEF PauseInitialOfflineTurn, IsCurrent, SeatToMove
 <2>3. \A s \in Seat : isOffline'[s] => s \in Flaky
   BY <1>1 DEF Fitting, TimersFit
 <2> QED BY <1>1, <2>2, <2>3, PauseDrives
<1>3. CASE ~(state = "Bidding" /\ isOffline[currentBidder])
  BY <1>1, <1>3, NothingDriven DEF PauseInitialOfflineTurn
<1> QED BY <1>2, <1>3

LEMMA StartDrives ==
  ASSUME TypeOK, VersionInv, Fitting, StartSession
  PROVE  Fitting'
<1>1. /\ UNCHANGED << isOffline, retired, callbacks, autoMoves >> /\ TimersAfterMove
  BY DEF StartSession, queueVars
<1>2. state' = "Bidding" /\ turnID' = turnID + 1
  BY DEF StartSession, Start, StartBiddingRound
<1>3. NewTurn
  BY <1>1, <1>2, TimersOfNewTurn
<1> QED BY <1>1, <1>3, NewTurnDrives DEF Fitting

\* Nothing is left to drive once the game has ended or is retired.
LEMMA EndDrives ==
  ASSUME Fitting, ReopenRoom \/ Retire
  PROVE  Fitting'
<1>1. ~Live'
  BY DEF ReopenRoom, ResetAfterGame, Retire, Live
<1>2. turnID' = turnID /\ UNCHANGED << isOffline, callbacks, autoMoves, lostTimers >>
  BY DEF ReopenRoom, ResetAfterGame, Retire, queueVars, timerVars, gameVars
<1>3. /\ turnTimer' \in {turnTimer, NoTimer}
      /\ offlineWaitTimer' \in {offlineWaitTimer, NoTimer}
  BY DEF ReopenRoom, Retire, timerVars
<1>4. \A t : Fits(t) => Fits(t)'
  BY <1>1, <1>2 DEF Fits
<1>5. TimersFit'
  BY <1>1, <1>2, <1>3, <1>4 DEF Fitting, TimersFit
<1>6. MovesFit'
  BY <1>1, <1>2 DEF Fitting, MovesFit
<1> QED BY <1>1, <1>5, <1>6 DEF Fitting, Driven

LEMMA FittingStep ==
  ASSUME TypeOK, VersionInv, TimeoutMoveAccepted, HeldInv, RetiredInv,
         isOffline \in [Seat -> BOOLEAN],
         ~StopMayBeLate, \A s, t \in Flaky : s = t, Fitting, [SessionNext]_sessionVars
  PROVE  Fitting'
<1>1. ASSUME NEW c \in inbox, HandleCommand(c) PROVE Fitting'
  BY <1>1, CommandDrives
<1>2. ASSUME NEW c \in callbacks, BidTimeout(c) PROVE Fitting'
  BY <1>2, BidTimeoutDrives
<1>3. ASSUME NEW c \in callbacks, PlayTimeout(c) PROVE Fitting'
  BY <1>3, PlayTimeoutDrives
<1>4. ASSUME NEW c \in callbacks, OfflineTimeout(c) PROVE Fitting'
  BY <1>4, OfflineTimeoutDrives
<1>5. ASSUME NEW m \in autoMoves, MakeAutoMove(m) PROVE Fitting'
  BY <1>5, AutoMoveDrives
<1>6. ASSUME NEW seat \in Seat, Send(seat) PROVE Fitting'
  BY <1>6, NothingDriven DEF Send
<1>7. ASSUME NEW seat \in Seat, PlayerOffline(seat) PROVE Fitting'
  BY <1>7, OfflineDrives
<1>8. ASSUME NEW seat \in Seat, PlayerOnline(seat) PROVE Fitting'
  BY <1>8, OnlineDrives
<1>9. CASE FireTurnTimer \/ FireLostTimer \/ FireOfflineTimer
  BY <1>9, FiringDrives
<1>10. CASE StartSession
  BY <1>10, StartDrives
<1>11. CASE PauseInitialOfflineTurn
  BY <1>11, InitialPauseDrives
<1>12. CASE ReopenRoom \/ Retire
  BY <1>12, EndDrives
<1>13. ASSUME \/ SetQuiescenceRelease \/ RecordResults \/ ReleaseAfterGame
              \/ ReleaseAfterRetire \/ UNCHANGED sessionVars
       PROVE  Fitting'
 <2>1. UNCHANGED << gameVars, retired, isOffline, timerVars, callbacks, autoMoves >>
   BY <1>13 DEF SetQuiescenceRelease, RecordResults, ReleaseAfterGame,
                ReleaseAfterRetire, sessionVars, queueVars
 <2> QED BY <2>1, NothingDriven
<1> QED
  BY <1>1, <1>2, <1>3, <1>4, <1>5, <1>6, <1>7, <1>8, <1>9, <1>10, <1>11, <1>12, <1>13
  DEF SessionNext, Callback, Dispatch

-----------------------------------------------------------------------------
(* Types of the session                                                    *)

\* What SessionTypeOK says beside the timers that the session refers to.
OwnTypes ==
  /\ isOffline \in [Seat -> BOOLEAN] /\ retired \in BOOLEAN
  /\ lostTimers \subseteq Timer /\ callbacks \subseteq Timer
  /\ remainingTime \in BOOLEAN
  /\ \A m \in autoMoves : m.player \in Seat /\ m.cards \in CardSet
  /\ \A c \in inbox : c \in Command
  /\ dispatch \in {"idle", "starting", "gameOver", "settling", "releasing"}
LeaseTypes ==
  /\ recorded \in BOOLEAN /\ quiescenceRelease \in BOOLEAN
  /\ quiescenceDone \in BOOLEAN /\ retireReleases \in BOOLEAN

LEMMA TypesTogether ==
  ASSUME VersionInv, LeaseInv, OwnTypes, LeaseTypes
  PROVE  SessionTypeOK
<1>1. /\ turnTimer = NoTimer \/ Content(turnTimer) \in Timer
      /\ offlineWaitTimer = NoTimer \/ Content(offlineWaitTimer) \in Timer
  BY ContentTyped DEF VersionInv
<1>2. {recorded, quiescenceRelease, quiescenceDone, retireReleases} \subseteq BOOLEAN
  BY Zenon DEF LeaseTypes
<1>3. leaseReleases \in Nat
  BY DEF LeaseInv
<1> QED BY <1>1, <1>2, <1>3 DEF SessionTypeOK, OwnTypes

LEMMA LeaseTypesStep ==
  ASSUME LeaseTypes, [SessionNext]_sessionVars
  PROVE  LeaseTypes'
<1>1. CASE UNCHANGED leaseVars
  BY <1>1, Zenon DEF LeaseTypes, leaseVars
<1>2. CASE SetQuiescenceRelease
 <2>1. /\ recorded' = recorded /\ quiescenceDone' = quiescenceDone
       /\ retireReleases' = retireReleases
       /\ quiescenceRelease' = quiescenceRelease \/ quiescenceRelease' = TRUE
   BY <1>2 DEF SetQuiescenceRelease
 <2> QED BY <2>1, Zenon DEF LeaseTypes
<1>3. CASE RecordResults
 <2>1. /\ recorded' = TRUE /\ quiescenceDone' = quiescenceDone
       /\ retireReleases' = retireReleases /\ quiescenceRelease' = quiescenceRelease
   BY <1>3 DEF RecordResults
 <2> QED BY <2>1, Zenon DEF LeaseTypes
<1>4. CASE ReleaseAfterGame
 <2>1. /\ recorded' = recorded /\ quiescenceDone' = TRUE
       /\ retireReleases' = retireReleases /\ quiescenceRelease' = FALSE
   BY <1>4 DEF ReleaseAfterGame, ReleaseQuiescence
 <2> QED BY <2>1, Zenon DEF LeaseTypes
<1>5. CASE ReleaseAfterRetire
 <2>1. /\ recorded' = recorded /\ quiescenceDone' = TRUE
       /\ retireReleases' = FALSE /\ quiescenceRelease' = FALSE
   BY <1>5 DEF ReleaseAfterRetire, ReleaseQuiescence
 <2> QED BY <2>1, Zenon DEF LeaseTypes
<1>6. CASE Retire
 <2>1. /\ recorded' = recorded /\ quiescenceDone' = quiescenceDone
       /\ retireReleases' = TRUE /\ quiescenceRelease' = quiescenceRelease
   BY <1>6 DEF Retire
 <2> QED BY <2>1, Zenon DEF LeaseTypes
<1>7. ASSUME \/ \E c \in inbox : HandleCommand(c)
             \/ \E c \in callbacks : BidTimeout(c) \/ PlayTimeout(c) \/ OfflineTimeout(c)
             \/ \E m \in autoMoves : MakeAutoMove(m)
      PROVE  UNCHANGED leaseVars
  BY <1>7 DEF HandleCommand, BidTimeout, PlayTimeout, OfflineTimeout, MakeAutoMove, Move,
              CommitMove, Rejected
<1>8. ASSUME \/ \E seat \in Seat : Send(seat) \/ PlayerOffline(seat) \/ PlayerOnline(seat)
             \/ FireTurnTimer \/ FireLostTimer \/ FireOfflineTimer \/ StartSession
             \/ PauseInitialOfflineTurn \/ ReopenRoom \/ UNCHANGED sessionVars
      PROVE  UNCHANGED leaseVars
  BY <1>8 DEF Send, PlayerOffline, PlayerOnline, FireTurnTimer, FireLostTimer,
              FireOfflineTimer, StartSession, PauseInitialOfflineTurn, ReopenRoom, sessionVars
<1> QED
  BY <1>1, <1>2, <1>3, <1>4, <1>5, <1>6, <1>7, <1>8 DEF SessionNext, Callback, Dispatch

\* A move leaves presence, the queues and the lost timers alone.
LEMMA MoveTypes ==
  ASSUME OwnTypes, NEW op, NEW player, NEW cards, NEW turn, Move(op, player, cards, turn)
  PROVE  /\ isOffline' = isOffline /\ retired' = retired /\ lostTimers' = lostTimers
         /\ remainingTime' \in BOOLEAN
         /\ dispatch' \in {"idle", "starting", "gameOver", "settling", "releasing"}
<1>1. CASE Rejected
 <2>1. /\ isOffline' = isOffline /\ retired' = retired /\ lostTimers' = lostTimers
       /\ remainingTime' = remainingTime /\ dispatch' = dispatch
   BY <1>1 DEF Rejected, timerVars
 <2> QED BY <2>1, Zenon DEF OwnTypes
<1>2. CASE TimersAfterMove /\ UNCHANGED << isOffline, retired >>
           /\ dispatch' \in {"idle", "gameOver"}
 <2>1. lostTimers' = lostTimers
   BY <1>2 DEF TimersAfterMove
 <2>2. remainingTime' = TRUE \/ remainingTime' = FALSE
   BY <1>2 DEF TimersAfterMove
 <2> QED BY <1>2, <2>1, <2>2, Zenon
<1> QED BY <1>1, <1>2 DEF Move, CommitMove

LEMMA SendTypes ==
  ASSUME TypeOK, OwnTypes, NEW seat \in Seat, Send(seat)
  PROVE  \A c \in inbox' : c \in Command
<1>1. PICK op \in {"bid", "noBid", "play", "pass"}, cards \in SubHands(hands[seat]) :
        inbox' = inbox \cup
            {[op |-> op, player |-> seat, cards |-> cards,
              game |-> Version(seat, op, gameID),
              turn |-> Version(seat, op, turnID)]}
  BY DEF Send
<1>2. cards \in CardSet
  BY SubHandsTyped DEF TypeOK
<1>3. Version(seat, op, gameID) \in Nat /\ Version(seat, op, turnID) \in Nat
  BY DEF TypeOK, Version, Unversioned
<1> QED BY <1>1, <1>2, <1>3 DEF OwnTypes, Command

LEMMA PauseTypes ==
  ASSUME OwnTypes, NEW seat, PauseOfflineTurn(seat)
  PROVE  lostTimers' = lostTimers /\ remainingTime' \in BOOLEAN
<1>1. lostTimers' = lostTimers
  BY DEF PauseOfflineTurn, timerVars
<1>2. remainingTime' = remainingTime \/ remainingTime' = TRUE \/ remainingTime' = FALSE
  BY DEF PauseOfflineTurn, timerVars
<1> QED BY <1>1, <1>2, Zenon DEF OwnTypes

LEMMA OwnTypesStep ==
  ASSUME TypeOK, VersionInv, TimeoutMoveAccepted, HeldInv, Fitting, OwnTypes,
         [SessionNext]_sessionVars
  PROVE  OwnTypes'
<1>1. ASSUME NEW c \in inbox, HandleCommand(c) PROVE OwnTypes'
 <2>1. inbox' = inbox \ {c} /\ callbacks' = callbacks /\ autoMoves' = autoMoves
   BY <1>1 DEF HandleCommand
 <2>2. CASE Rejected
  <3>1. /\ isOffline' = isOffline /\ retired' = retired /\ lostTimers' = lostTimers
        /\ remainingTime' = remainingTime /\ dispatch' = dispatch
    BY <2>2 DEF Rejected, timerVars
  <3> QED BY <2>1, <3>1, Zenon DEF OwnTypes
 <2>3. CASE Move(c.op, c.player, c.cards, c.turn)
   BY <2>1, <2>3, MoveTypes, Zenon DEF OwnTypes
 <2> QED BY <1>1, <2>2, <2>3 DEF HandleCommand
<1>2. ASSUME NEW c \in callbacks, BidTimeout(c) PROVE OwnTypes'
 <2>1. /\ inbox' = inbox /\ callbacks' \subseteq callbacks /\ autoMoves' = autoMoves
       /\ Move("noBid", c.player, NoCards, c.turn)
   BY <1>2 DEF BidTimeout
 <2> QED BY <2>1, MoveTypes, Zenon DEF OwnTypes
<1>3. ASSUME NEW c \in callbacks, PlayTimeout(c) \/ OfflineTimeout(c) PROVE OwnTypes'
 <2>1. /\ inbox' = inbox /\ callbacks' \subseteq callbacks /\ isOffline' = isOffline
       /\ retired' = retired /\ lostTimers' = lostTimers
       /\ remainingTime' = remainingTime /\ dispatch' = dispatch
   BY <1>3 DEF PlayTimeout, OfflineTimeout, timerVars
 <2>2. \A m \in autoMoves' \ autoMoves : m.player \in Seat /\ m.cards \in CardSet
   BY <1>3, PlayTimeoutDrives, OfflineTimeoutDrives
 <2>3. \A m \in autoMoves' : m.player \in Seat /\ m.cards \in CardSet
   BY <2>2 DEF OwnTypes
 <2> QED BY <2>1, <2>3, Zenon DEF OwnTypes
<1>4. ASSUME NEW m \in autoMoves, MakeAutoMove(m) PROVE OwnTypes'
 <2>1. /\ inbox' = inbox /\ callbacks' = callbacks /\ autoMoves' = autoMoves \ {m}
       /\ Move(m.op, m.player, m.cards, m.turn)
   BY <1>4 DEF MakeAutoMove
 <2>2. \A n \in autoMoves' : n \in autoMoves
   BY <2>1
 <2> QED BY <2>1, <2>2, MoveTypes, Zenon DEF OwnTypes
<1>5. ASSUME NEW seat \in Seat, Send(seat) PROVE OwnTypes'
 <2>1. /\ callbacks' = callbacks /\ autoMoves' = autoMoves /\ isOffline' = isOffline
       /\ retired' = retired /\ lostTimers' = lostTimers
       /\ remainingTime' = remainingTime /\ dispatch' = dispatch
   BY <1>5 DEF Send, timerVars
 <2> QED BY <1>5, <2>1, SendTypes, Zenon DEF OwnTypes
<1>6. ASSUME NEW seat \in Seat, PlayerOffline(seat) PROVE OwnTypes'
 <2>1. /\ callbacks' = callbacks /\ autoMoves' = autoMoves /\ inbox' = inbox
       /\ retired' = retired /\ dispatch' = dispatch
       /\ isOffline' = [isOffline EXCEPT ![seat] = TRUE]
       /\ PauseOfflineTurn(seat) \/ UNCHANGED timerVars
   BY <1>6 DEF PlayerOffline, queueVars
 <2>2. isOffline' \in [Seat -> BOOLEAN]
   BY <2>1 DEF OwnTypes
 <2>3. lostTimers' = lostTimers /\ remainingTime' \in BOOLEAN
  <3>1. CASE UNCHANGED timerVars
   <4>1. lostTimers' = lostTimers /\ remainingTime' = remainingTime
     BY <3>1 DEF timerVars
   <4> QED BY <4>1, Zenon DEF OwnTypes
  <3> QED BY <2>1, <3>1, PauseTypes
 <2> QED BY <2>1, <2>2, <2>3, Zenon DEF OwnTypes
<1>7. ASSUME NEW seat \in Seat, PlayerOnline(seat) PROVE OwnTypes'
 <2>1. /\ callbacks' = callbacks /\ autoMoves' = autoMoves /\ inbox' = inbox
       /\ retired' = retired /\ dispatch' = dispatch /\ remainingTime' = remainingTime
       /\ isOffline' = [isOffline EXCEPT ![seat] = FALSE]
   BY <1>7 DEF PlayerOnline, queueVars, ResumeTurn
 <2>2. isOffline' \in [Seat -> BOOLEAN]
   BY <2>1 DEF OwnTypes
 <2>3. \/ lostTimers' = lostTimers
       \/ Running(turnTimer) /\ lostTimers' = lostTimers \cup {Content(turnTimer)}
   BY <1>7 DEF PlayerOnline, ResumeTurn
 <2>4. Running(turnTimer) => Content(turnTimer) \in Timer
   BY ContentTyped DEF Running, VersionInv
 <2>5. lostTimers' \subseteq Timer
   BY <2>3, <2>4 DEF OwnTypes
 <2> QED BY <2>1, <2>2, <2>5, Zenon DEF OwnTypes
<1>8. CASE FireTurnTimer \/ FireOfflineTimer
 <2>1. /\ inbox' = inbox /\ autoMoves' = autoMoves /\ isOffline' = isOffline
       /\ retired' = retired /\ lostTimers' = lostTimers
       /\ remainingTime' = remainingTime /\ dispatch' = dispatch
   BY <1>8 DEF FireTurnTimer, FireOfflineTimer
 <2>2. callbacks' \subseteq Timer
   BY <1>8, ContentTyped DEF FireTurnTimer, FireOfflineTimer, Running, VersionInv, OwnTypes
 <2> QED BY <2>1, <2>2, Zenon DEF OwnTypes
<1>9. CASE FireLostTimer
 <2>1. /\ inbox' = inbox /\ autoMoves' = autoMoves /\ isOffline' = isOffline
       /\ retired' = retired /\ remainingTime' = remainingTime /\ dispatch' = dispatch
   BY <1>9 DEF FireLostTimer
 <2>2. callbacks' \subseteq Timer /\ lostTimers' \subseteq Timer
   BY <1>9 DEF FireLostTimer, OwnTypes
 <2> QED BY <2>1, <2>2, Zenon DEF OwnTypes
<1>10. CASE StartSession
 <2>1. /\ callbacks' = callbacks /\ autoMoves' = autoMoves /\ inbox' = inbox
       /\ isOffline' = isOffline /\ retired' = retired /\ lostTimers' = lostTimers
       /\ dispatch' = "starting"
       /\ remainingTime' \in BOOLEAN
   BY <1>10 DEF StartSession, TimersAfterMove, queueVars
 <2>2. dispatch' \in {"idle", "starting", "gameOver", "settling", "releasing"}
   BY <1>10 DEF StartSession
 <2>3. remainingTime' \in BOOLEAN
   BY <2>1
 <2> QED BY <2>1, <2>2, <2>3, Zenon DEF OwnTypes
<1>11. CASE PauseInitialOfflineTurn
 <2>1. /\ callbacks' = callbacks /\ autoMoves' = autoMoves /\ inbox' = inbox
       /\ isOffline' = isOffline /\ retired' = retired
       /\ PauseOfflineTurn(currentBidder) \/ UNCHANGED timerVars
   BY <1>11 DEF PauseInitialOfflineTurn, queueVars
 <2>2. dispatch' \in {"idle", "starting", "gameOver", "settling", "releasing"}
   BY <1>11 DEF PauseInitialOfflineTurn
 <2>3. lostTimers' = lostTimers /\ remainingTime' \in BOOLEAN
  <3>1. CASE UNCHANGED timerVars
   <4>1. lostTimers' = lostTimers /\ remainingTime' = remainingTime
     BY <3>1 DEF timerVars
   <4> QED BY <4>1, Zenon DEF OwnTypes
  <3> QED BY <2>1, <3>1, PauseTypes
 <2> QED BY <2>1, <2>2, <2>3, Zenon DEF OwnTypes
<1>12. CASE ReopenRoom \/ RecordResults \/ ReleaseAfterGame
 <2>1. /\ callbacks' = callbacks /\ autoMoves' = autoMoves /\ inbox' = inbox
       /\ isOffline' = isOffline /\ retired' = retired /\ lostTimers' = lostTimers
       /\ remainingTime' = remainingTime
   BY <1>12 DEF ReopenRoom, RecordResults, ReleaseAfterGame, timerVars, queueVars
 <2>2. dispatch' \in {"idle", "starting", "gameOver", "settling", "releasing"}
   BY <1>12 DEF ReopenRoom, RecordResults, ReleaseAfterGame
 <2> QED BY <2>1, <2>2, Zenon DEF OwnTypes
<1>13. CASE SetQuiescenceRelease \/ ReleaseAfterRetire \/ UNCHANGED sessionVars
 <2>1. /\ callbacks' = callbacks /\ autoMoves' = autoMoves /\ inbox' = inbox
       /\ isOffline' = isOffline /\ retired' = retired /\ lostTimers' = lostTimers
       /\ remainingTime' = remainingTime /\ dispatch' = dispatch
   BY <1>13 DEF SetQuiescenceRelease, ReleaseAfterRetire, sessionVars, timerVars, queueVars
 <2> QED BY <2>1, Zenon DEF OwnTypes
<1>14. CASE Retire
 <2>1. /\ callbacks' = callbacks /\ autoMoves' = autoMoves /\ inbox' = inbox
       /\ isOffline' = isOffline /\ retired' = TRUE /\ lostTimers' = lostTimers
       /\ remainingTime' = FALSE /\ dispatch' = dispatch
   BY <1>14 DEF Retire, timerVars, queueVars
 <2> QED BY <2>1, Zenon DEF OwnTypes
<1> QED
  BY <1>1, <1>2, <1>3, <1>4, <1>5, <1>6, <1>7, <1>8, <1>9, <1>10, <1>11, <1>12, <1>13, <1>14
  DEF SessionNext, Callback, Dispatch

-----------------------------------------------------------------------------
(* A live turn is always driven                                            *)

\* What the game guarantees to the session that plays it.
LEMMA SessionRoundInvariant == SessionSpec => [](RoundInv /\ HeldInv)
<1>1. SessionInit => RoundInv /\ HeldInv
  BY DEF SessionInit, Init, RoundInv, TableClear, RoundShape, HeldInv
<1>2. /\ GameInv /\ CardsConserved /\ RoundInv /\ HeldInv /\ [SessionNext]_sessionVars
      => RoundInv' /\ HeldInv'
  BY SessionStepPlays, RoundStep, HeldStep DEF GameInv
<1> QED
  BY <1>1, <1>2, SessionGameInvariant, PTL DEF SessionSpec

LEMMA DrivenHasDriver ==
  ASSUME SessionTypeOK, Fitting
  PROVE  TurnHasDriver
<1>1. CASE Live
 <2>1. Running(turnTimer) => \E d \in TurnDrivers : DrivesTurn(d)
  <3>1. Running(turnTimer) => /\ Content(turnTimer) \in TurnDrivers
                              /\ turnTimer.turn = turnID
                              /\ turnTimer.kind # "offline"
    BY <1>1 DEF Running, TurnDrivers, Fitting, TimersFit, Fits
  <3> QED BY <3>1 DEF Content, DrivesTurn
 <2>2. Running(offlineWaitTimer) => \E d \in TurnDrivers : DrivesTurn(d)
  <3>1. Running(offlineWaitTimer) => /\ Content(offlineWaitTimer) \in TurnDrivers
                                     /\ offlineWaitTimer.player = SeatToMove
                                     /\ offlineWaitTimer.kind = "offline"
    BY <1>1 DEF Running, TurnDrivers, Fitting, TimersFit
  <3> QED BY <3>1 DEF Content, DrivesTurn
 <2>3. Fired => \/ \E d \in TurnDrivers : DrivesTurn(d)
                \/ \E m \in autoMoves : m.turn = turnID /\ m.player = SeatToMove
   BY DEF Fired, TurnDrivers
 <2> QED BY <1>1, <2>1, <2>2, <2>3 DEF Fitting, Driven, TurnHasDriver
<1> QED BY <1>1 DEF Live, TurnHasDriver

\* As long as a timer that is stopped still had time left (timer.go:150) and
\* only one connection is unreliable (timer.go:195 cancels the offline timer of
\* whoever else is waited for), no turn of a live session is ever left without
\* something that ends it: whatever disconnects, reconnects, takeovers, late
\* callbacks, commands and retirement do to its timers (timer.go:97-285).
THEOREM EveryTurnIsDriven ==
  ASSUME ~StopMayBeLate, \A s, t \in Flaky : s = t
  PROVE  SessionSpec => []TurnHasDriver
<1> DEFINE Inv == Fitting /\ OwnTypes /\ LeaseTypes
<1>1. SessionInit => Inv
 <2> SUFFICES ASSUME SessionInit PROVE Inv
   OBVIOUS
 <2>1. OwnTypes /\ LeaseTypes
   BY DEF SessionInit, OwnTypes, LeaseTypes
 <2>2. Fitting
   BY DEF SessionInit, Init, Fitting, TimersFit, MovesFit, Driven, Live
 <2> QED BY <2>1, <2>2
<1>2. /\ TypeOK /\ VersionInv /\ TimeoutMoveAccepted /\ HeldInv /\ RetiredInv /\ Inv
      /\ [SessionNext]_sessionVars
      => Inv'
  BY FittingStep, OwnTypesStep, LeaseTypesStep DEF OwnTypes
<1>3. VersionInv /\ LeaseInv /\ Inv => TurnHasDriver
  BY TypesTogether, DrivenHasDriver
<1>4. GameInv /\ CardsConserved /\ RoundInv /\ HeldInv => TypeOK /\ TimeoutMoveAccepted
  BY TimeoutMoveIsLegal DEF GameInv
<1> HIDE DEF Inv
<1> QED
  BY <1>1, <1>2, <1>3, <1>4, SessionGameInvariant, SessionRoundInvariant,
     VersionInvariant, RetiredInvariant, LeaseInvariant, PTL DEF SessionSpec
=============================================================================
