---------------------------- MODULE LandlordGame ----------------------------
(***************************************************************************)
(* One game of Fight-the-Landlord as the session state machine plays it    *)
(* (internal/server/session/bid.go, play.go and lifecycle.go): deal, call  *)
(* and grab the landlord seat, play and pass in rounds, settle.            *)
(*                                                                         *)
(* Every action is the locked part of one accepted command.  Who may send  *)
(* a command, timers, presence and delivery are added by GameSession; here *)
(* the seat whose turn it is simply makes any move the code accepts.       *)
(***************************************************************************)
EXTENDS HandRules

CONSTANTS
  HandSize,     \* cards dealt to each seat (17 in the code)
  Deals,        \* the deals a shuffle may produce, the hand of each seat
  RandomSeats,  \* the seats a random choice may pick (all three)
  MaxRedeals    \* deals without a call before a landlord is forced (3)

Seat   == 0..2
NoSeat == -1

Next3(seat) == (seat + 1) % 3

Dealt(d)  == Plus(d[0], Plus(d[1], d[2]))
Bottom(d) == Minus(Deck, Dealt(d))    \* what is left for the landlord

ASSUME DealsAssumption ==
  /\ Deals \subseteq [Seat -> CardSet]
  /\ \A d \in Deals : Contains(Deck, Dealt(d))

ASSUME HandSizeAssumption ==
  HandSize \in Nat \ {0} /\ \A d \in Deals, s \in Seat : Size(d[s]) = HandSize

ASSUME RandomSeatsAssumption == RandomSeats \subseteq Seat
ASSUME MaxRedealsAssumption == MaxRedeals \in Nat \ {0}

VARIABLES
  state,              \* "Init", "Bidding", "Playing" or "Ended"
  gameID,             \* 0 before the first deal, one more on every deal
  turnID,             \* one more whenever a seat is asked to act
  redealCount,        \* deals on which nobody called
  currentBidder, landlordCaller, landlordCandidate,
  bidPasses, grabActions, bidMultiplier,
  hands, bottomCards, isLandlord, playedCards,
  currentPlayer,
  lastPlayedHand,     \* the cards on the table, NoCards when it is clear
  lastPlayerIdx, consecutivePasses,
  bombCount, landlordPlays, farmerPlays,
  settlement,
  roomState, roomLandlord   \* the room's copy of the phase and the landlord

bidVars  == << currentBidder, landlordCaller, landlordCandidate,
               bidPasses, grabActions, bidMultiplier >>
cardVars == << hands, bottomCards, isLandlord, playedCards >>
playVars == << currentPlayer, lastPlayedHand, lastPlayerIdx,
               consecutivePasses >>
tallyVars == << bombCount, landlordPlays, farmerPlays, settlement >>
gameVars == << state, gameID, turnID, redealCount, bidVars, cardVars,
               playVars, tallyVars, roomState, roomLandlord >>

NoSettlement == [winner |-> NoSeat]

Init ==
  /\ state = "Init" /\ gameID = 0 /\ turnID = 0 /\ redealCount = 0
  /\ currentBidder = 0 /\ landlordCaller = NoSeat /\ landlordCandidate = NoSeat
  /\ bidPasses = 0 /\ grabActions = 0 /\ bidMultiplier = 1
  /\ hands = [s \in Seat |-> NoCards] /\ bottomCards = NoCards
  /\ isLandlord = [s \in Seat |-> FALSE]
  /\ playedCards = [s \in Seat |-> NoCards]
  /\ currentPlayer = 0 /\ lastPlayedHand = NoCards
  /\ lastPlayerIdx = NoSeat /\ consecutivePasses = 0
  /\ bombCount = 0 /\ landlordPlays = 0 /\ farmerPlays = 0
  /\ settlement = NoSettlement
  /\ roomState = "Ready" /\ roomLandlord = NoSeat

-----------------------------------------------------------------------------
(* Dealing                                                                 *)

\* dealNewRound, apart from the hands and the landlord seat, which the two
\* ways to go on after a deal set differently.
DealNewRound(d) ==
  /\ gameID' = gameID + 1
  /\ bottomCards' = Bottom(d)
  /\ playedCards' = [s \in Seat |-> NoCards]
  /\ lastPlayedHand' = NoCards /\ consecutivePasses' = 0
  /\ settlement' = NoSettlement
  /\ landlordCaller' = NoSeat /\ landlordCandidate' = NoSeat
  /\ bidPasses' = 0 /\ grabActions' = 0 /\ bidMultiplier' = 1
  /\ bombCount' = 0 /\ landlordPlays' = 0 /\ farmerPlays' = 0

\* startBiddingRound: deal, and ask a random seat first.
StartBiddingRound ==
  \E d \in Deals, first \in RandomSeats :
    /\ DealNewRound(d)
    /\ hands' = d
    /\ isLandlord' = [s \in Seat |-> FALSE] /\ roomLandlord' = NoSeat
    /\ lastPlayerIdx' = NoSeat
    /\ state' = "Bidding" /\ roomState' = "Bidding"
    /\ currentBidder' = first
    /\ turnID' = turnID + 1
    /\ UNCHANGED currentPlayer

\* Fault: the bottom cards are shown but not handed over.
WithoutBottom(hand, bottom) == hand

WithBottom(hand, bottom) == Plus(hand, bottom)

\* setLandlord: seat idx takes the bottom cards and leads. dealt are the hands
\* and flags the hands' landlord flags at that point.
SetLandlord(idx, dealt, bottom, flags) ==
  /\ hands' = [dealt EXCEPT ![idx] = WithBottom(@, bottom)]
  /\ isLandlord' = [flags EXCEPT ![idx] = TRUE]
  /\ roomLandlord' = idx
  /\ state' = "Playing" /\ roomState' = "Playing"
  /\ currentPlayer' = idx /\ lastPlayerIdx' = idx
  /\ turnID' = turnID + 1

\* redeal: nobody called; the third time a random seat is made landlord.
Redeal ==
  /\ redealCount' = redealCount + 1
  /\ IF redealCount + 1 >= MaxRedeals
     THEN \E d \in Deals, idx \in RandomSeats :
            /\ DealNewRound(d)
            /\ SetLandlord(idx, d, Bottom(d), [s \in Seat |-> FALSE])
            /\ UNCHANGED currentBidder
     ELSE StartBiddingRound

-----------------------------------------------------------------------------
(* Calling and grabbing                                                    *)

\* The next seat that may grab: the standing candidate is skipped.
NextGrabber(from, candidate) ==
  IF Next3(from) = candidate THEN Next3(Next3(from)) ELSE Next3(from)

AskToBid(seat) ==
  /\ currentBidder' = seat
  /\ turnID' = turnID + 1
  /\ UNCHANGED << state, gameID, redealCount, cardVars, playVars, tallyVars,
                  roomState, roomLandlord >>

\* handleCall, "call": the bidder becomes caller and candidate.
Call ==
  /\ landlordCaller' = currentBidder /\ landlordCandidate' = currentBidder
  /\ bidMultiplier' = 1 /\ bidPasses' = 0 /\ grabActions' = 0
  /\ AskToBid(NextGrabber(currentBidder, currentBidder))

\* handleCall, "no call": ask the next seat, or redeal after a full circle.
NoCall ==
  IF bidPasses + 1 >= 3
  THEN Redeal
  ELSE /\ bidPasses' = bidPasses + 1
       /\ UNCHANGED << landlordCaller, landlordCandidate, grabActions,
                       bidMultiplier >>
       /\ AskToBid(Next3(currentBidder))

\* Fault: a grab doubles, but the caller stays the candidate.
CallerStands(bid) == landlordCandidate

\* A grab takes over the candidacy.
StandingCandidate(bid) == IF bid THEN currentBidder ELSE landlordCandidate

\* Two passes in a row or three decisions end the auction.
AuctionOver(passes, decisions) == passes >= 2 \/ decisions >= 3

\* handleGrab: a grab doubles the multiplier.
Grab(bid) ==
  LET candidate == StandingCandidate(bid)
      passes    == IF bid THEN 0 ELSE bidPasses + 1
  IN  /\ landlordCandidate' = candidate
      /\ bidPasses' = passes
      /\ grabActions' = grabActions + 1
      /\ bidMultiplier' = IF bid THEN 2 * bidMultiplier ELSE bidMultiplier
      /\ UNCHANGED landlordCaller
      /\ IF AuctionOver(passes, grabActions + 1)
         THEN /\ SetLandlord(candidate, hands, bottomCards, isLandlord)
              /\ UNCHANGED << gameID, redealCount, currentBidder, bottomCards,
                              playedCards, lastPlayedHand, consecutivePasses,
                              tallyVars >>
         ELSE AskToBid(NextGrabber(currentBidder, candidate))

\* handleBidAt past its guards.
Bid(bid) ==
  /\ state = "Bidding"
  /\ \/ landlordCaller # NoSeat /\ Grab(bid)
     \/ landlordCaller = NoSeat /\ bid /\ Call
     \/ landlordCaller = NoSeat /\ ~bid /\ NoCall

-----------------------------------------------------------------------------
(* Playing and passing                                                     *)

MustPlay == lastPlayerIdx = currentPlayer \/ lastPlayedHand = NoCards

\* Fault: whoever opens a round has to beat the cleared table.
AcceptsOnlyBeating(cards) ==
  /\ cards \in CardSet /\ Contains(hands[currentPlayer], cards)
  /\ Beats(cards, lastPlayedHand)

\* validatePlayLocked on the cards of the seat whose turn it is.
AcceptsPlay(cards) ==
  /\ cards \in CardSet /\ Contains(hands[currentPlayer], cards)
  /\ ~IsEmpty(ParseHand(cards))
  /\ MustPlay \/ Beats(cards, lastPlayedHand)

\* Fault: the turn is advanced twice.
AskToPlayTwice(seat) ==
  currentPlayer' = Next3(seat) /\ turnID' = turnID + 1

AskToPlay(seat) ==
  /\ currentPlayer' = seat
  /\ turnID' = turnID + 1

\* Fault: the landlord's opening play counts against the anti-spring.
IsSpringUnopened(winner, byLandlord, byFarmers) ==
  IF isLandlord[winner] THEN byFarmers = 0 ELSE byLandlord = 0

\* A spring: no farmer ever played; an anti-spring: the landlord only led.
IsSpring(winner, byLandlord, byFarmers) ==
  IF isLandlord[winner] THEN byFarmers = 0 ELSE byLandlord = 1

\* finalMultiplier: every bomb and a spring double the grabbed multiplier.
FinalMultiplier(winner, bombs, byLandlord, byFarmers) ==
  (IF bidMultiplier > 1 THEN bidMultiplier ELSE 1) * 2 ^ bombs
    * (IF IsSpring(winner, byLandlord, byFarmers) THEN 2 ELSE 1)

\* computeScores: the landlord plays alone against both farmers.
Score(seat, winner, mult) ==
  CASE isLandlord[seat]  /\ isLandlord[winner]  -> 2 * mult
    [] isLandlord[seat]  /\ ~isLandlord[winner] -> -2 * mult
    [] ~isLandlord[seat] /\ isLandlord[winner]  -> -mult
    [] ~isLandlord[seat] /\ ~isLandlord[winner] -> mult

\* endGame: the state, the room and the settlement of the finished game.
EndGame(winner, mult) ==
  /\ state' = "Ended" /\ roomState' = "Ended"
  /\ settlement' = [winner |-> winner, multiplier |-> mult,
                    scores |-> [s \in Seat |-> Score(s, winner, mult)]]
  /\ UNCHANGED << turnID, currentPlayer >>

\* handlePlayCardsAt past its guards.
PlayCards(cards) ==
  LET type  == ParseHand(cards).type
      bombs == bombCount + (IF type \in {"Bomb", "Rocket"} THEN 1 ELSE 0)
      mine  == Minus(hands[currentPlayer], cards)
      byLandlord == landlordPlays + (IF isLandlord[currentPlayer] THEN 1 ELSE 0)
      byFarmers  == farmerPlays + (IF isLandlord[currentPlayer] THEN 0 ELSE 1)
  IN  /\ state = "Playing"
      /\ AcceptsPlay(cards)
      /\ lastPlayedHand' = cards
      /\ lastPlayerIdx' = currentPlayer
      /\ consecutivePasses' = 0
      /\ bombCount' = bombs
      /\ landlordPlays' = byLandlord /\ farmerPlays' = byFarmers
      /\ hands' = [hands EXCEPT ![currentPlayer] = mine]
      /\ playedCards' = [playedCards EXCEPT ![currentPlayer] = Plus(@, cards)]
      /\ IF mine = NoCards
         THEN EndGame(currentPlayer,
                FinalMultiplier(currentPlayer, bombs, byLandlord, byFarmers))
         ELSE /\ AskToPlay(Next3(currentPlayer))
              /\ UNCHANGED << state, roomState, settlement >>
      /\ UNCHANGED << gameID, redealCount, bidVars, bottomCards, isLandlord,
                      roomLandlord >>

RoundOver(passes) == passes >= 2

\* handlePassAt past its guards: two passes in a row clear the table.
Pass ==
  /\ state = "Playing"
  /\ ~MustPlay
  /\ IF RoundOver(consecutivePasses + 1)
     THEN /\ lastPlayedHand' = NoCards
          /\ lastPlayerIdx' = Next3(currentPlayer)
          /\ consecutivePasses' = 0
     ELSE /\ consecutivePasses' = consecutivePasses + 1
          /\ UNCHANGED << lastPlayedHand, lastPlayerIdx >>
  /\ AskToPlay(Next3(currentPlayer))
  /\ UNCHANGED << state, gameID, redealCount, bidVars, cardVars, tallyVars,
                  roomState, roomLandlord >>

\* Start: the first deal.
Start ==
  /\ state = "Init"
  /\ StartBiddingRound
  /\ UNCHANGED redealCount

\* Fault: the landlord of the last game keeps his mark in the room.
ResetKeepingLandlord ==
  /\ state = "Ended" /\ roomState = "Ended"
  /\ roomState' = "Waiting"
  /\ UNCHANGED << state, gameID, turnID, redealCount, bidVars, cardVars,
                  playVars, tallyVars, roomLandlord >>

\* ResetAfterGame: the room goes back to ready-up for a rematch.
ResetAfterGame ==
  /\ state = "Ended" /\ roomState = "Ended"
  /\ roomState' = "Waiting" /\ roomLandlord' = NoSeat
  /\ UNCHANGED << state, gameID, turnID, redealCount, bidVars, cardVars,
                  playVars, tallyVars >>

Next ==
  \/ Start
  \/ \E bid \in BOOLEAN : Bid(bid)
  \/ \E cards \in SubHands(hands[currentPlayer]) : PlayCards(cards)
  \/ Pass
  \/ ResetAfterGame

Spec == Init /\ [][Next]_gameVars

-----------------------------------------------------------------------------
(* Properties                                                              *)

\* Types of the state; the size of a settlement is left to SettlementIsFair.
TypeOK ==
  /\ state \in {"Init", "Bidding", "Playing", "Ended"}
  /\ gameID \in Nat /\ turnID \in Nat /\ redealCount \in 0..MaxRedeals
  /\ currentBidder \in Seat
  /\ landlordCaller \in Seat \cup {NoSeat}
  /\ landlordCandidate \in Seat \cup {NoSeat}
  /\ bidPasses \in 0..2 /\ grabActions \in 0..3 /\ bidMultiplier \in Nat \ {0}
  /\ hands \in [Seat -> CardSet] /\ bottomCards \in CardSet
  /\ isLandlord \in [Seat -> BOOLEAN]
  /\ playedCards \in [Seat -> CardSet]
  /\ currentPlayer \in Seat /\ lastPlayedHand \in CardSet
  /\ lastPlayerIdx \in Seat \cup {NoSeat} /\ consecutivePasses \in 0..1
  /\ bombCount \in Nat /\ landlordPlays \in Nat /\ farmerPlays \in Nat
  /\ settlement.winner \in Seat \cup {NoSeat}
  /\ roomState \in {"Ready", "Bidding", "Playing", "Ended", "Waiting"}
  /\ roomLandlord \in Seat \cup {NoSeat}

\* The three fields that describe a round never drift apart: the table is clear
\* exactly when the seat to move is the recorded owner of the round, and
\* otherwise the seat to move is the owner's successor after the counted
\* passes. The two halves of MustPlay (play.go:155, 213, 284) thus agree, and
\* nobody is ever asked to beat his own cards.
RoundShape ==
  state = "Playing" =>
    IF lastPlayedHand = NoCards
    THEN lastPlayerIdx = currentPlayer /\ consecutivePasses = 0
    ELSE /\ lastPlayerIdx \in Seat
         /\ currentPlayer = (lastPlayerIdx + 1 + consecutivePasses) % 3

\* There is a landlord exactly from setLandlord on, only one, the one the room
\* shows to the lobby, and the standing candidate unless the seat was forced.
LandlordAgrees ==
  /\ state \in {"Init", "Bidding"} =>
       roomLandlord = NoSeat /\ \A s \in Seat : ~isLandlord[s]
  /\ state \in {"Playing", "Ended"} =>
       \E landlord \in Seat :
         /\ \A s \in Seat : isLandlord[s] <=> s = landlord
         /\ roomLandlord = IF roomState = "Waiting" THEN NoSeat ELSE landlord
         /\ landlordCandidate \in {landlord, NoSeat}
         /\ landlordCandidate = NoSeat => redealCount = MaxRedeals

\* No card is lost, duplicated or made up between the deal and the settlement:
\* hands, the public ledger and an untaken bottom always make up the deck.
CardsConserved ==
  state # "Init" =>
    \A r \in Rank :
      hands[0][r] + hands[1][r] + hands[2][r]
        + playedCards[0][r] + playedCards[1][r] + playedCards[2][r]
        + (IF state = "Bidding" THEN bottomCards[r] ELSE 0) = Deck[r]

\* The move the server makes for a silent seat is one its own validation
\* accepts: the smallest beating cards can be played, and when there are none
\* passing is allowed (handlePlayTimeout, timer.go:45-71); the last card of the
\* hand can be led (handleOfflineTimeout, timer.go:272-277). Otherwise the
\* fired timer would leave a turn that nothing ends.
TimeoutMoveAccepted ==
  state = "Playing" =>
    LET mine == hands[currentPlayer]
        auto == FindSmallestBeatingCards(mine, lastPlayedHand)
        low  == One(Min({r \in Rank : mine[r] > 0}))
    IN  /\ IF auto # NoCards THEN AcceptsPlay(auto) ELSE ~MustPlay
        /\ MustPlay => AcceptsPlay(low)

\* The settlement is a zero-sum transfer to the side of the only seat that got
\* rid of its cards, and its spring doubling agrees with the public ledger.
SettlementIsFair ==
  state = "Ended" =>
    LET won    == settlement.winner
        scores == settlement.scores
        quiet(s) == playedCards[s] = NoCards
        spring == IF isLandlord[won]
                  THEN \A s \in Seat \ {won} : quiet(s)
                  ELSE landlordPlays = 1
    IN  /\ {s \in Seat : hands[s] = NoCards} = {won}
        /\ scores[0] + scores[1] + scores[2] = 0
        /\ \A s \in Seat : scores[s] > 0 <=> isLandlord[s] = isLandlord[won]
        /\ settlement.multiplier =
             bidMultiplier * 2 ^ bombCount * (IF spring THEN 2 ELSE 1)

\* A game whose seats keep moving ends: redeals are bounded, the auction asks
\* nobody forever, and passing cannot go on without somebody leading a card.
FairSpec == Spec /\ WF_gameVars(Next)
GameEnds == <>(state = "Ended")
=============================================================================
