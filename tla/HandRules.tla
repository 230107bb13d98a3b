----------------------------- MODULE HandRules -----------------------------
(***************************************************************************)
(* The rule engine of Fight-the-Landlord (internal/game/rule): what a set  *)
(* of cards is worth, which cards beat which, and which cards the server   *)
(* plays for a player who runs out of time.                                *)
(*                                                                         *)
(* Suits never decide anything, so cards are a multiset of ranks: a        *)
(* function that gives the number of cards of each rank.                   *)
(***************************************************************************)
EXTENDS Integers, FiniteSets, FiniteSetsExt

CONSTANTS
  Rank,   \* the ranks in use, a finite subset of 3..17
  Deck    \* the cards of a whole deck (54 cards of 15 ranks in the code, at
          \* most one of each suit)

ASSUME RankAssumption == Rank \subseteq 3..17

Rank2          == 15
RankBlackJoker == 16
RankRedJoker   == 17

CardSet == [Rank -> Nat]
NoCards == [r \in Rank |-> 0]

ASSUME DeckAssumption == Deck \in [Rank -> 0..4]

One(r)        == [NoCards EXCEPT ![r] = 1]
Plus(a, b)    == [r \in Rank |-> a[r] + b[r]]
Minus(a, b)   == [r \in Rank |-> a[r] - b[r]]
Contains(a, b) == \A r \in Rank : b[r] <= a[r]
Size(cards)   == Cardinality(UNION {{r} \X (1..cards[r]) : r \in Rank})

\* Every multiset of ranks that can be taken out of a hand.
SubHands(hand) ==
  LET held == {r \in Rank : hand[r] > 0}
      most == IF held = {} THEN 0 ELSE Max({hand[r] : r \in held})
  IN  { [r \in Rank |-> IF r \in held THEN c[r] ELSE 0] :
          c \in { d \in [held -> 0..most] : \A r \in held : d[r] <= hand[r] } }

-----------------------------------------------------------------------------
(* ParseHand and its eight checks                                          *)

HandType == { "Invalid", "Single", "Pair", "Trio", "TrioWithSingle",
              "TrioWithPair", "Straight", "PairStraight", "Plane",
              "PlaneWithSingles", "PlaneWithPairs", "Bomb", "FourWithTwo",
              "FourWithTwoPairs", "Rocket" }

\* The zero ParsedHand: an empty table, or cards that are no hand.
EmptyHand == [type |-> "Invalid", keyRank |-> 0, length |-> 0]

Parsed(type, keyRank, length) ==
  [type |-> type, keyRank |-> keyRank, length |-> length]

\* The ranks that occur exactly n times.
Times(cards, n) == {r \in Rank : cards[r] = n}

AnalyzeCards(cards) ==
  [counts |-> cards, size |-> Size(cards),
   fours |-> Times(cards, 4), trios |-> Times(cards, 3),
   pairs |-> Times(cards, 2), ones |-> Times(cards, 1)]

\* Fault: runs may go through the 2 and the jokers.
IsContinuousUnlimited(ranks) ==
  ranks # {} /\ \A r \in ranks : r = Min(ranks) \/ r - 1 \in ranks

IsContinuous(ranks) ==
  /\ ranks # {}
  /\ \A r \in ranks : r < Rank2 /\ (r = Min(ranks) \/ r - 1 \in ranks)

\* Each check is the set of readings it accepts: empty or a singleton.
When(accepted, hand) == IF accepted THEN {hand} ELSE {}

IsRocket(a) ==
  When(/\ {RankBlackJoker, RankRedJoker} \subseteq a.ones
       /\ a.size = 2,
       Parsed("Rocket", RankRedJoker, 0))

IsBomb(a) ==
  When(Cardinality(a.fours) = 1 /\ a.size = 4, Parsed("Bomb", Min(a.fours), 0))

IsFourWithKickers(a) ==
  LET ones  == Cardinality(a.ones)
      pairs == Cardinality(a.pairs)
  IN  IF Cardinality(a.fours) # 1 THEN {}
      ELSE When(a.size = 6 /\ (ones = 2 \/ pairs = 1),
                Parsed("FourWithTwo", Min(a.fours), 0))
           \cup
           When(a.size = 8 /\ pairs = 2,
                Parsed("FourWithTwoPairs", Min(a.fours), 0))

IsTrioWithKickers(a) ==
  IF Cardinality(a.trios) # 1 THEN {}
  ELSE When(a.size = 4 /\ Cardinality(a.ones) = 1,
            Parsed("TrioWithSingle", Min(a.trios), 0))
       \cup
       When(a.size = 5 /\ Cardinality(a.pairs) = 1,
            Parsed("TrioWithPair", Min(a.trios), 0))

IsPlane(a) ==
  LET len == Cardinality(a.trios)
  IN  IF ~IsContinuous(a.trios) \/ len < 2 THEN {}
      ELSE When(a.size = 3 * len, Parsed("Plane", Min(a.trios), len))
           \cup
           When(a.size = 4 * len /\ Cardinality(a.ones) = len,
                Parsed("PlaneWithSingles", Min(a.trios), len))
           \cup
           When(a.size = 5 * len /\ Cardinality(a.pairs) = len,
                Parsed("PlaneWithPairs", Min(a.trios), len))

IsStraight(a) ==
  When(/\ IsContinuous(a.ones)
       /\ Cardinality(a.ones) = a.size /\ a.size >= 5,
       Parsed("Straight", Min(a.ones), a.size))

IsPairStraight(a) ==
  When(/\ IsContinuous(a.pairs)
       /\ Cardinality(a.pairs) * 2 = a.size /\ Cardinality(a.pairs) >= 3,
       Parsed("PairStraight", Min(a.pairs), Cardinality(a.pairs)))

IsSimpleType(a) ==
  LET present == {r \in Rank : a.counts[r] > 0}
  IN  When(Cardinality(present) = 1 /\ a.size \in 1..3,
           Parsed(<< "Single", "Pair", "Trio" >>[a.size], Min(present), 0))

OrElse(check, rest) == IF check # {} THEN check ELSE rest

\* The first check that accepts decides; EmptyHand stands for the error.
FirstReading(a) ==
  OrElse(IsRocket(a), OrElse(IsBomb(a), OrElse(IsFourWithKickers(a),
  OrElse(IsTrioWithKickers(a), OrElse(IsPlane(a), OrElse(IsStraight(a),
  OrElse(IsPairStraight(a), OrElse(IsSimpleType(a), {EmptyHand}))))))))

\* The analysis is bound, not LET, so that TLC evaluates it once.
ParseHand(cards) ==
  CHOOSE hand \in UNION {FirstReading(a) : a \in {AnalyzeCards(cards)}} : TRUE

IsEmpty(hand) == hand.type = "Invalid"

-----------------------------------------------------------------------------
(* Comparing hands                                                         *)

ComparedByLength ==
  {"Straight", "PairStraight", "Plane", "PlaneWithSingles", "PlaneWithPairs"}

CanBeat(newHand, lastHand) ==
  /\ lastHand.type # "Rocket"
  /\ \/ newHand.type = "Rocket"
     \/ newHand.type = "Bomb" /\ lastHand.type # "Bomb"
     \/ /\ newHand.type = lastHand.type
        /\ newHand.type \in ComparedByLength => newHand.length = lastHand.length
        /\ newHand.keyRank > lastHand.keyRank

\* CanBeat on cards; bound, so that each is parsed once.
Beats(cards, lastCards) ==
  \E new \in {ParseHand(cards)}, last \in {ParseHand(lastCards)} : CanBeat(new, last)

-----------------------------------------------------------------------------
(* Automatic responses                                                     *)

\* Fault: only bombs and rockets are looked for.
BombLengths(lastCards) == {2, 4}

\* The sizes a response may have. lastCards are the cards on the table.
ResponseLengths(lastCards) == {2, 4, Size(lastCards)}

\* Every legal play from a hand, over the cards on the table (NoCards: a lead).
ListLegalResponses(hand, lastCards) ==
  LET table  == ParseHand(lastCards)
      isLead == IsEmpty(table)
  IN  IF table.type = "Rocket" THEN {}
      ELSE { c \in SubHands(hand) :
               /\ Size(c) > 0
               /\ isLead \/ Size(c) \in ResponseLengths(lastCards)
               /\ ~IsEmpty(ParseHand(c))
               /\ isLead \/ CanBeat(ParseHand(c), table) }

BeatingResponsePriority(type, opponentType) ==
  CASE type = opponentType -> 0
    [] type # opponentType /\ type = "Bomb" -> 1
    [] type # opponentType /\ type = "Rocket" -> 2
    [] OTHER -> 3

LeadOrder ==
  << "Single", "Pair", "Trio", "TrioWithSingle", "TrioWithPair", "Straight",
     "PairStraight", "Plane", "PlaneWithSingles", "PlaneWithPairs",
     "FourWithTwo", "FourWithTwoPairs", "Bomb", "Rocket" >>
LeadResponsePriority(type) ==
  CHOOSE i \in DOMAIN LeadOrder : LeadOrder[i] = type

ResponsePriority(type, table) ==
  IF IsEmpty(table) THEN LeadResponsePriority(type)
  ELSE BeatingResponsePriority(type, table.type)

\* compareResponseCandidates: by priority, then key rank, then size, then the
\* ascending vector of ranks, where more cards of the lowest differing rank
\* come first.
Precedes(left, right, table) ==
  LET l  == ParseHand(left)
      r  == ParseHand(right)
      pl == ResponsePriority(l.type, table)
      pr == ResponsePriority(r.type, table)
  IN  \/ pl < pr
      \/ pl = pr /\ l.keyRank < r.keyRank
      \/ pl = pr /\ l.keyRank = r.keyRank /\ Size(left) < Size(right)
      \/ /\ pl = pr /\ l.keyRank = r.keyRank /\ Size(left) = Size(right)
         /\ \E x \in Rank : /\ left[x] > right[x]
                            /\ \A y \in Rank : y < x => left[y] = right[y]

\* Fault: the cards on the table are ignored.
FindSmallestCard(hand, lastCards) ==
  IF Size(hand) = 0 THEN NoCards ELSE One(Min({r \in Rank : hand[r] > 0}))

\* The weakest legal response, NoCards when there is none (nil).
FindSmallestBeatingCards(hand, lastCards) ==
  LET table == ParseHand(lastCards)
      legal == ListLegalResponses(hand, lastCards)
  IN  IF Size(hand) = 0 THEN NoCards
      ELSE IF IsEmpty(table) THEN One(Min({r \in Rank : hand[r] > 0}))
      ELSE IF legal = {} THEN NoCards
      ELSE CHOOSE c \in legal : \A d \in legal \ {c} : Precedes(c, d, table)
=============================================================================
