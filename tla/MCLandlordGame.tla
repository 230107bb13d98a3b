--------------------------- MODULE MCLandlordGame ---------------------------
(***************************************************************************)
(* LandlordGame, with the history of its auctions, for model checking: two *)
(* deals of a small deck.                                                  *)
(***************************************************************************)
EXTENDS Auction, TLC

Hands(a, b, c) == (0 :> a @@ 1 :> b @@ 2 :> c)

\* Ten cards, three to a hand and one at the bottom: a trio with the fourth card
\* at the bottom (a bomb for the landlord) against the rocket; singles all over.
PlayRank == {3, 4, 5, 16, 17}
PlayDeck == 3 :> 4 @@ 4 :> 2 @@ 5 :> 2 @@ 16 :> 1 @@ 17 :> 1
Cards(c3, c4, c5, black, red) ==
  3 :> c3 @@ 4 :> c4 @@ 5 :> c5 @@ 16 :> black @@ 17 :> red
PlayDeals ==
  { Hands(Cards(3,0,0,0,0), Cards(0,1,0,1,1), Cards(0,1,2,0,0)),
    Hands(Cards(1,1,0,1,0), Cards(1,1,1,0,0), Cards(1,0,1,0,1)) }
=============================================================================
