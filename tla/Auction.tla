------------------------------ MODULE Auction ------------------------------
(***************************************************************************)
(* LandlordGame with the auction of the current deal recorded the way the  *)
(* BidResult events tell it to the clients (bid.go:89-152), until the next *)
(* deal or the first card played: a history variable, which no step of the *)
(* game reads.                                                             *)
(***************************************************************************)
EXTENDS LandlordGame, Sequences

VARIABLE auction    \* sequence of [seat, bid, isGrab]

auctionVars == << gameVars, auction >>

AuctionInit == Init /\ auction = << >>

Record(bid) ==
  auction' = IF gameID' # gameID THEN << >>
             ELSE Append(auction, [seat |-> currentBidder, bid |-> bid,
                                   isGrab |-> landlordCaller # NoSeat])

AuctionNext ==
  \/ Start /\ auction' = << >>
  \/ \E bid \in BOOLEAN : Bid(bid) /\ Record(bid)
  \/ \E cards \in SubHands(hands[currentPlayer]) :
       PlayCards(cards) /\ auction' = << >>
  \/ Pass /\ UNCHANGED auction
  \/ ResetAfterGame /\ UNCHANGED auction

AuctionSpec == AuctionInit /\ [][AuctionNext]_auctionVars
AuctionFairSpec == AuctionSpec /\ WF_auctionVars(AuctionNext)

\* Nobody is asked twice to call, nor twice to grab (bid.go:117-135).
AskedOncePerPhase ==
  \A i, j \in DOMAIN auction :
    i # j /\ auction[i].seat = auction[j].seat =>
      auction[i].isGrab # auction[j].isGrab

\* What the clients were told about the auction explains its outcome: the
\* landlord is the last seat that said yes, the multiplier doubled on every grab.
AuctionExplainsOutcome ==
  LET yes   == {i \in DOMAIN auction : auction[i].bid}
      grabs == {i \in yes : auction[i].isGrab}
  IN  auction # << >> =>
      /\ bidMultiplier = 2 ^ Cardinality(grabs)
      /\ yes # {} => landlordCandidate = auction[Max(yes)].seat
      /\ roomLandlord # NoSeat /\ yes # {} =>
           roomLandlord = auction[Max(yes)].seat
      /\ roomLandlord # NoSeat /\ yes = {} => redealCount = MaxRedeals

\* The auction, whatever circle of calls, grabs and counter-grabs it takes
\* (bid.go:89-152): each seat has its say once, and that decides the landlord.
AuctionIsFair == AskedOncePerPhase /\ AuctionExplainsOutcome
=============================================================================
