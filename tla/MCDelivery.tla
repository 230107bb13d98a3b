----------------------------- MODULE MCDelivery -----------------------------
(***************************************************************************)
(* Delivery for model checking: seven cards, two to a hand and one at the  *)
(* bottom. The player in seat 1 has the rocket, or one of the jokers.      *)
(***************************************************************************)
EXTENDS Delivery, TLC

Hands(a, b, c) == (0 :> a @@ 1 :> b @@ 2 :> c)

SmallRank == {3, 4, 16, 17}
SmallDeck == 3 :> 3 @@ 4 :> 2 @@ 16 :> 1 @@ 17 :> 1
Cards(c3, c4, black, red) == 3 :> c3 @@ 4 :> c4 @@ 16 :> black @@ 17 :> red
SmallDeals ==
  { Hands(Cards(1,1,0,0), Cards(0,0,1,1), Cards(2,0,0,0)),
    Hands(Cards(1,0,1,0), Cards(1,1,0,0), Cards(0,1,0,1)) }
=============================================================================
